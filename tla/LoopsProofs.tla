----------------------------- MODULE LoopsProofs -----------------------------
(* What a loop preserves, its result has.                                  *)
EXTENDS Loops, WellFoundedInduction, TLAPS

(* A nonempty set of natural numbers has a least element.                  *)
LEMMA LeastNat ==
  ASSUME NEW B, B \subseteq Nat, B # {}
  PROVE  \E m \in B : \A k \in B : m <= k
<1>1. PICK m \in B : \A k \in B : ~(<<k, m>> \in OpToRel(<, Nat))
  BY NatLessThanWellFounded, WFMin
<1>2. \A k \in B : ~(k < m)
  BY <1>1 DEF OpToRel
<1> QED BY <1>2

(* If round i of a loop of the code (for example the one over _sent_packets *)
(* in retransmit_packet) maps I[i - 1] to I[i], then the loop maps I[0] to *)
(* I[n].                                                                   *)
LEMMA LoopRounds ==
  ASSUME NEW n \in Nat, NEW I, NEW x \in I[0], NEW body,
         \A i \in 1 .. n : \A y \in I[i - 1] : body[i][y] \in I[i]
  PROVE  RunLoop(body, n, x) \in I[n]
<1> DEFINE Eq(g, m) == g = [i \in 0 .. m |-> IF i = 0 THEN x ELSE body[i][g[i - 1]]]
           Unreached == {m \in 0 .. n : ~ \E g : Eq(g, m)}
<1>1. Unreached = {}
  <2> SUFFICES ASSUME Unreached # {} PROVE FALSE
    OBVIOUS
  <2>1. Unreached \subseteq Nat
    OBVIOUS
  <2> HIDE DEF Unreached
  <2>2. PICK m \in Unreached : \A k \in Unreached : m <= k
    BY <2>1, LeastNat
  <2>3. m \in 0 .. n /\ ~ \E g : Eq(g, m)
    BY <2>2 DEF Unreached
  <2>4. m # 0
    <3> DEFINE g == [i \in 0 .. 0 |-> x]
    <3>1. Eq(g, 0)
      OBVIOUS
    <3> HIDE DEF Eq, g
    <3> QED BY <3>1, <2>3
  <2>5. m - 1 \in 0 .. n /\ m - 1 \notin Unreached
    BY <2>2, <2>4, <2>3
  <2> HIDE DEF Eq
  <2>6. PICK g : Eq(g, m - 1)
    BY <2>5 DEF Unreached
  <2> USE DEF Eq
  <2> DEFINE h == [i \in 0 .. m |-> IF i = m THEN body[m][g[m - 1]] ELSE g[i]]
  <2>7. \A i \in 0 .. m - 1 : h[i] = g[i]
    BY <2>3
  <2>8. \A i \in 0 .. m : h[i] = IF i = 0 THEN x ELSE body[i][h[i - 1]]
    <3> TAKE i \in 0 .. m
    <3>1. CASE i = m
      BY <3>1, <2>4, <2>7, <2>3
    <3>2. CASE i # m
      <4>1. i \in 0 .. m - 1 /\ (i # 0 => i - 1 \in 0 .. m - 1)
        BY <3>2, <2>3
      <4>2. g[i] = IF i = 0 THEN x ELSE body[i][g[i - 1]]
        BY <4>1, <2>6
      <4> QED BY <4>1, <4>2, <2>7
    <3> QED BY <3>1, <3>2
  <2>9. Eq(h, m)
    BY <2>8
  <2> QED BY <2>9, <2>3
<1> DEFINE at == CHOOSE g : Eq(g, n)
<1>2. Eq(at, n)
  <2> HIDE DEF Eq
  <2>1. n \in 0 .. n
    OBVIOUS
  <2>2. \E g : Eq(g, n)
    BY <1>1, <2>1, Zenon
  <2> QED BY <2>2
<1> HIDE DEF at
<1> DEFINE Wrong == {m \in 0 .. n : at[m] \notin I[m]}
<1>3. Wrong = {}
  <2> SUFFICES ASSUME Wrong # {} PROVE FALSE
    OBVIOUS
  <2>1. Wrong \subseteq Nat
    OBVIOUS
  <2>2. PICK m \in Wrong : \A k \in Wrong : m <= k
    <3> HIDE DEF Wrong
    <3> QED BY <2>1, LeastNat
  <2>3. m # 0
    BY <1>2
  <2>4. at[m - 1] \in I[m - 1]
    BY <2>2, <2>3
  <2>5. at[m] = body[m][at[m - 1]]
    BY <1>2, <2>2, <2>3
  <2> QED BY <2>2, <2>3, <2>4, <2>5
<1>4. RunLoop(body, n, x) = at[n]
  BY DEF RunLoop, at
<1> QED BY <1>3, <1>4

(* A loop whose every round maps I to I maps I to I.                       *)
LEMMA LoopResult ==
  ASSUME NEW n \in Nat, NEW I, NEW x \in I, NEW body,
         \A i \in 1 .. n : \A y \in I : body[i][y] \in I
  PROVE  RunLoop(body, n, x) \in I
<1> DEFINE J == [i \in 0 .. n |-> I]
<1>1. x \in J[0] /\ J[n] = I
  OBVIOUS
<1>2. \A i \in 1 .. n : \A y \in J[i - 1] : body[i][y] \in J[i]
  OBVIOUS
<1> HIDE DEF J
<1> QED BY <1>1, <1>2, LoopRounds
=============================================================================
