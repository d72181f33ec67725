----------------------------- MODULE PipeProofs -----------------------------
(***************************************************************************)
(* The growing circular buffer is a queue: push appends and pop takes the  *)
(* head, at every size and at every position of the wrap-around.  With it, *)
(* a pipe is a delay line, for every delay, buffer size and load.          *)
(***************************************************************************)
EXTENDS Pipe, SequenceTheorems, TLAPS

-----------------------------------------------------------------------------
(* The circular buffer.                                                    *)

\* A buffer as the constructor of records gives it.
Buffer(q, u, p, k, n) ==
  [queue |-> q, nextPush |-> u, nextPop |-> p, count |-> k, size |-> n]

\* The buffer of n slots q that holds k elements from position p on.
Buf(q, p, k, n) == Buffer(q, Wrap(p + k, n), p, k, n)

\* The parts of a buffer of elements of S.
Parts(S, q, p, k, n) ==
  /\ n \in Nat \ {0} /\ p \in 0 .. n - 1 /\ k \in 0 .. n - 1
  /\ q \in [0 .. n - 1 -> S]

\* Equations under a name: the provers rewrite with those in the open.
Holds(b, q, p, k, n) == b = Buf(q, p, k, n)
Written(q2, q, i, x) == q2 = [q EXCEPT ![i] = x]

\* One more element fills the buffer, or leaves a slot free.
Full(k, n) == k + 1 = n
Room(k, n) == k + 1 < n

\* A growth of b leaves the k elements from position p on, and room.
Grows(S, b, p, k) ==
  \E q, n : /\ Parts(S, q, p, k, n) /\ Room(k, n)
            /\ Holds(Grow(b), q, p, k, n)
            /\ Contents(Grow(b)) = Contents(b)

\* A well-formed buffer of elements of S.
IsBuffer(b, S) == \E q, p, k, n : Parts(S, q, p, k, n) /\ b = Buf(q, p, k, n)

(* Where a position at most once past the end wraps to.                    *)
LEMMA WrapOnce ==
  ASSUME NEW n \in Nat \ {0}, NEW x \in 0 .. 2 * n - 1
  PROVE  /\ Wrap(x, n) = IF x < n THEN x ELSE x - n
         /\ Wrap(x, n) \in 0 .. n - 1
  BY DEF Wrap

(* Two such positions meet only if they are a turn apart.                  *)
LEMMA WrapApart ==
  ASSUME NEW n \in Nat \ {0}, NEW x \in 0 .. 2 * n - 1, NEW y \in 0 .. 2 * n - 1,
         x < y, y < x + n
  PROVE  Wrap(x, n) # Wrap(y, n)
  BY WrapOnce

(* The position after a wrapped one is the next one wrapped.               *)
LEMMA WrapNext ==
  ASSUME NEW n \in Nat \ {0}, NEW x \in 0 .. 2 * n - 2
  PROVE  Wrap(Wrap(x, n) + 1, n) = Wrap(x + 1, n)
  <1>1. /\ x \in 0 .. 2 * n - 1 /\ x + 1 \in 0 .. 2 * n - 1
    OBVIOUS
  <1>2. /\ Wrap(x, n) = IF x < n THEN x ELSE x - n
        /\ Wrap(x, n) + 1 \in 0 .. 2 * n - 1
    BY <1>1, WrapOnce
  <1>3. /\ Wrap(x + 1, n) = IF x + 1 < n THEN x + 1 ELSE x + 1 - n
        /\ Wrap(Wrap(x, n) + 1, n) = IF Wrap(x, n) + 1 < n THEN Wrap(x, n) + 1
                                     ELSE Wrap(x, n) + 1 - n
    BY <1>1, <1>2, WrapOnce
  <1> QED
    BY <1>2, <1>3

(* A buffer of the set is well formed.                                     *)
LEMMA BufferIsWellFormed ==
  ASSUME NEW S, NEW b, IsBuffer(b, S)
  PROVE  WellFormed(b)
  <1>1. PICK q, p, k, n : Parts(S, q, p, k, n) /\ b = Buf(q, p, k, n)
    BY DEF IsBuffer
  <1>2. /\ n \in Nat \ {0} /\ p \in 0 .. n - 1 /\ k \in 0 .. n - 1
        /\ q \in [0 .. n - 1 -> S]
    BY <1>1 DEF Parts
  <1>3. p + k \in 0 .. 2 * n - 1
    BY <1>2
  <1>4. Wrap(p + k, n) \in 0 .. n - 1
    BY <1>2, <1>3, WrapOnce
  <1> QED
    BY <1>1, <1>2, <1>4 DEF WellFormed, Buf, Buffer

(* The contents are a sequence of count elements.                          *)
LEMMA ContentsSeq ==
  ASSUME NEW S, NEW q, NEW p, NEW k, NEW n, Parts(S, q, p, k, n)
  PROVE  /\ Contents(Buf(q, p, k, n)) = [i \in 1 .. k |-> q[Wrap(p + i - 1, n)]]
         /\ Contents(Buf(q, p, k, n)) \in Seq(S)
         /\ Len(Contents(Buf(q, p, k, n))) = k
  <1> DEFINE c == Contents(Buf(q, p, k, n))
  <1>1. /\ n \in Nat \ {0} /\ p \in 0 .. n - 1 /\ k \in 0 .. n - 1
        /\ q \in [0 .. n - 1 -> S]
    BY DEF Parts
  <1>2. c = [i \in 1 .. k |-> q[Wrap(p + i - 1, n)]]
    BY DEF Contents, Buf, Buffer
  <1>3. ASSUME NEW i \in 1 .. k
        PROVE  q[Wrap(p + i - 1, n)] \in S
    <2>1. p + i - 1 \in 0 .. 2 * n - 1
      BY <1>1
    <2>2. Wrap(p + i - 1, n) \in 0 .. n - 1
      BY <1>1, <2>1, WrapOnce
    <2> QED
      BY <1>1, <2>2
  <1>4. k \in Nat
    BY <1>1
  <1>5. c \in [1 .. k -> S]
    BY <1>2, <1>3
  <1> HIDE DEF c
  <1>6. c \in Seq(S) /\ Len(c) = k
    BY <1>4, <1>5
  <1> QED
    BY <1>2, <1>6 DEF c

(* The same of a buffer as a whole.                                        *)
LEMMA BufferContents ==
  ASSUME NEW S, NEW b, IsBuffer(b, S)
  PROVE  /\ b.count \in Nat
         /\ Contents(b) \in Seq(S)
         /\ Len(Contents(b)) = b.count
  <1>1. PICK q, p, k, n : Parts(S, q, p, k, n) /\ b = Buf(q, p, k, n)
    BY DEF IsBuffer
  <1>2. b.count = k /\ k \in Nat
    BY <1>1 DEF Buf, Buffer, Parts
  <1> QED
    BY <1>1, <1>2, ContentsSeq

(* A new buffer is empty.                                                  *)
LEMMA NewBufferIsEmpty ==
  ASSUME NEW S, Blank \in S, NEW n \in Nat \ {0}
  PROVE  /\ IsBuffer(NewBuffer(n), S)
         /\ NewBuffer(n).count = 0
         /\ Contents(NewBuffer(n)) = <<>>
  <1> DEFINE q == [i \in 0 .. n - 1 |-> Blank]
  <1>1. Parts(S, q, 0, 0, n)
    BY DEF Parts
  <1>2. Wrap(0 + 0, n) = 0
    <2>1. 0 + 0 = 0 /\ 0 \in 0 .. 2 * n - 1 /\ 0 < n
      OBVIOUS
    <2> QED
      BY <2>1, WrapOnce
  <1>3. NewBuffer(n) = Buf(q, 0, 0, n)
    BY <1>2 DEF NewBuffer, Buf, Buffer
  <1> HIDE DEF q
  <1>4. IsBuffer(NewBuffer(n), S)
    BY <1>1, <1>3 DEF IsBuffer
  <1>5. Contents(Buf(q, 0, 0, n)) \in Seq(S) /\ Len(Contents(Buf(q, 0, 0, n))) = 0
    BY <1>1, ContentsSeq
  <1> QED
    BY <1>3, <1>4, <1>5 DEF NewBuffer

(* Growing doubles the room and moves no element in the order.             *)
LEMMA GrowKeeps ==
  ASSUME NEW S, Blank \in S, NEW q, NEW p, NEW k, NEW n, Parts(S, q, p, k, n),
         Full(k, n), NEW b, Holds(b, q, p, k, n)
  PROVE  Grows(S, b, p, k)
  <1> DEFINE u == Wrap(p + k, n)
             w == IF u < p THEN u ELSE 0
             n2 == 2 * n
             q2 == [i \in 0 .. n2 - 1 |-> IF i < n THEN q[i]
                                          ELSE IF i < n + w THEN q[i - n]
                                          ELSE Blank]
             y == IF u < p THEN u + n ELSE u
             g == Grow(b)
  <1>1. /\ n \in Nat \ {0} /\ p \in 0 .. n - 1 /\ k \in 0 .. n - 1
        /\ q \in [0 .. n - 1 -> S] /\ k + 1 = n
    BY DEF Parts, Full
  <1>2. u = (IF p + k < n THEN p + k ELSE p + k - n) /\ u \in 0 .. n - 1
    <2>1. p + k \in 0 .. 2 * n - 1
      BY <1>1
    <2> QED
      BY <1>1, <2>1, WrapOnce
  <1>3. Wrap(p + k, n2) = p + k
    <2>1. n2 \in Nat \ {0} /\ p + k \in 0 .. 2 * n2 - 1 /\ p + k < n2
      BY <1>1
    <2> HIDE DEF n2
    <2> QED
      BY <2>1, WrapOnce
  <1>4. y = p + k
    BY <1>1, <1>2
  <1>5. Parts(S, q2, p, k, n2) /\ Room(k, n2)
    BY <1>1, <1>2 DEF Parts, Room
  <1>6. g = Buf(q2, p, k, n2)
    <2>1. b = Buffer(q, u, p, k, n)
      BY DEF Holds, Buf
    <2>2. /\ b.queue = q /\ b.nextPush = u /\ b.nextPop = p /\ b.count = k
          /\ b.size = n
      BY DEF Holds, Buf, Buffer
    <2>3. g = [b EXCEPT !.queue = q2, !.nextPush = y, !.size = n2]
      BY <2>2 DEF Grow
    <2> HIDE DEF g, q2, y, n2, u
    <2>4. PICK g3, q3, y3, n3, u3 :
            g3 = g /\ q3 = q2 /\ y3 = y /\ n3 = n2 /\ u3 = u
      OBVIOUS
    <2>5. g3 = Buffer(q3, y3, p, k, n3)
      <3>1. b = Buffer(q, u3, p, k, n)
        BY <2>1, <2>4
      <3>2. g3 = [b EXCEPT !.queue = q3, !.nextPush = y3, !.size = n3]
        BY <2>3, <2>4
      <3> QED
        BY <3>1, <3>2 DEF Buffer
    <2> QED
      BY <1>3, <1>4, <2>4, <2>5 DEF Buf
  <1>7. ASSUME NEW i \in 1 .. k
        PROVE  q2[Wrap(p + i - 1, n2)] = q[Wrap(p + i - 1, n)]
    <2>1. /\ n2 \in Nat \ {0} /\ p + i - 1 \in 0 .. 2 * n2 - 1
          /\ p + i - 1 \in 0 .. 2 * n - 1 /\ p + i - 1 < n2
      BY <1>1
    <2>2. Wrap(p + i - 1, n2) = p + i - 1
      <3> HIDE DEF n2
      <3> QED
        BY <2>1, WrapOnce
    <2>3. Wrap(p + i - 1, n) = IF p + i - 1 < n THEN p + i - 1 ELSE p + i - 1 - n
      BY <1>1, <2>1, WrapOnce
    <2>4. q2[p + i - 1] = q[IF p + i - 1 < n THEN p + i - 1 ELSE p + i - 1 - n]
      <3>1. CASE p + i - 1 < n
        BY <1>1, <2>1, <3>1
      <3>2. CASE p + i - 1 >= n
        <4>1. w = u /\ p + i - 1 < n + u
          BY <1>1, <1>2, <3>2
        <4>2. PICK z : z = p + i - 1 /\ z \in 0 .. n2 - 1
          BY <1>1, <2>1
        <4>3. z < n + w /\ ~(z < n)
          BY <1>1, <4>1, <4>2, <3>2
        <4>4. q2[z] = q[z - n]
          <5> HIDE DEF w, n2
          <5> QED
            BY <4>2, <4>3
        <4>5. PICK m : m = z - n /\ q2[z] = q[m]
          BY <4>4
        <4>6. m = (IF p + i - 1 < n THEN p + i - 1 ELSE p + i - 1 - n)
          BY <1>1, <3>2, <4>2, <4>3, <4>5
        <4> HIDE DEF q2
        <4> QED
          BY <4>2, <4>5, <4>6
      <3> QED
        BY <1>1, <3>1, <3>2
    <2> HIDE DEF q2, n2
    <2> QED
      BY <2>2, <2>3, <2>4
  <1> HIDE DEF q2, n2, g
  <1>8. Contents(Buf(q2, p, k, n2)) = [i \in 1 .. k |-> q2[Wrap(p + i - 1, n2)]]
    BY <1>5, ContentsSeq
  <1>9. Contents(b) = [i \in 1 .. k |-> q[Wrap(p + i - 1, n)]]
    BY ContentsSeq DEF Holds
  <1>10. Contents(g) = Contents(b)
    BY <1>6, <1>7, <1>8, <1>9
  <1> QED
    BY <1>5, <1>6, <1>10 DEF g, Holds, Grows

(* Writing to the free slot appends, as long as another one stays free.    *)
LEMMA WriteAppends ==
  ASSUME NEW S, NEW q, NEW p, NEW k, NEW n, Parts(S, q, p, k, n), Room(k, n),
         NEW x \in S, NEW q2, Written(q2, q, Wrap(p + k, n), x)
  PROVE  /\ Parts(S, q2, p, k + 1, n)
         /\ Wrap(Wrap(p + k, n) + 1, n) = Wrap(p + (k + 1), n)
         /\ Contents(Buf(q2, p, k + 1, n)) = Append(Contents(Buf(q, p, k, n)), x)
  <1> DEFINE d == Contents(Buf(q2, p, k + 1, n))
             c == Contents(Buf(q, p, k, n))
  <1>1. /\ n \in Nat \ {0} /\ p \in 0 .. n - 1 /\ k \in 0 .. n - 1
        /\ q \in [0 .. n - 1 -> S] /\ k + 1 < n
    BY DEF Parts, Room
  <1>2. Wrap(p + k, n) \in 0 .. n - 1
    <2>1. p + k \in 0 .. 2 * n - 1
      BY <1>1
    <2> QED
      BY <1>1, <2>1, WrapOnce
  <1>3. Parts(S, q2, p, k + 1, n)
    <2>1. n \in Nat \ {0} /\ p \in 0 .. n - 1 /\ k + 1 \in 0 .. n - 1
      BY <1>1
    <2>2. q2 \in [0 .. n - 1 -> S]
      BY <1>1 DEF Written
    <2> QED
      BY <2>1, <2>2 DEF Parts
  <1>4. Wrap(Wrap(p + k, n) + 1, n) = Wrap(p + (k + 1), n)
    <2>1. p + k \in 0 .. 2 * n - 2 /\ (p + k) + 1 = p + (k + 1)
      BY <1>1
    <2> QED
      BY <1>1, <2>1, WrapNext
  <1>5. ASSUME NEW i \in 1 .. k
        PROVE  q2[Wrap(p + i - 1, n)] = q[Wrap(p + i - 1, n)]
    <2>1. /\ p + i - 1 \in 0 .. 2 * n - 1 /\ p + k \in 0 .. 2 * n - 1
          /\ p + i - 1 < p + k /\ p + k < p + i - 1 + n
      BY <1>1
    <2>2. Wrap(p + i - 1, n) # Wrap(p + k, n)
      BY <1>1, <2>1, WrapApart
    <2>3. Wrap(p + i - 1, n) \in 0 .. n - 1
      BY <1>1, <2>1, WrapOnce
    <2> QED
      BY <1>1, <2>2, <2>3 DEF Written
  <1>6. q2[Wrap(p + (k + 1) - 1, n)] = x
    <2>1. p + (k + 1) - 1 = p + k
      BY <1>1
    <2> QED
      BY <1>1, <1>2, <2>1 DEF Written
  <1>7. /\ d = [i \in 1 .. k + 1 |-> q2[Wrap(p + i - 1, n)]]
        /\ d \in Seq(S) /\ Len(d) = k + 1
    <2>1. PICK k1 : k1 = k + 1
      OBVIOUS
    <2>2. Parts(S, q2, p, k1, n)
      BY <1>3, <2>1
    <2>3. /\ Contents(Buf(q2, p, k1, n)) = [i \in 1 .. k1 |-> q2[Wrap(p + i - 1, n)]]
          /\ Contents(Buf(q2, p, k1, n)) \in Seq(S)
          /\ Len(Contents(Buf(q2, p, k1, n))) = k1
      BY <2>2, ContentsSeq
    <2> QED
      BY <2>1, <2>3
  <1>8. /\ c = [i \in 1 .. k |-> q[Wrap(p + i - 1, n)]]
        /\ c \in Seq(S) /\ Len(c) = k
    BY ContentsSeq
  <1> HIDE DEF c, d
  <1>9. d[k + 1] = x
    BY <1>1, <1>6, <1>7
  <1>10. \A i \in 1 .. k : d[i] = c[i]
    BY <1>1, <1>5, <1>7, <1>8
  <1>11. d = Append(c, x)
    <2>1. c \in Seq(S) /\ Len(c) = k
      BY <1>8
    <2>2. /\ Append(c, x) \in Seq(S) /\ Len(Append(c, x)) = Len(c) + 1
          /\ \A i \in 1 .. Len(c) : Append(c, x)[i] = c[i]
          /\ Append(c, x)[Len(c) + 1] = x
      BY <2>1, AppendProperties
    <2>3. d \in Seq(S) /\ Len(d) = Len(Append(c, x))
      BY <1>7, <2>1, <2>2
    <2>4. ASSUME NEW i \in 1 .. Len(d)
          PROVE  d[i] = Append(c, x)[i]
      <3>1. Len(d) = k + 1
        BY <1>7
      <3>2. CASE i = k + 1
        BY <1>9, <2>1, <2>2, <3>2
      <3>3. CASE i # k + 1
        <4>1. i \in 1 .. k
          BY <1>1, <3>1, <3>3
        <4> QED
          BY <1>10, <2>1, <2>2, <4>1
      <3> QED
        BY <3>2, <3>3
    <2> QED
      BY <2>2, <2>3, <2>4, SeqEqual
  <1> QED
    BY <1>3, <1>4, <1>11 DEF c, d

(* push appends.                                                           *)
THEOREM PushAppends ==
  ASSUME NEW S, Blank \in S, NEW b, IsBuffer(b, S), NEW x \in S
  PROVE  /\ IsBuffer(Push(b, x), S)
         /\ Push(b, x).count = b.count + 1
         /\ Contents(Push(b, x)) = Append(Contents(b), x)
  <1> DEFINE c == IF b.count + 1 = b.size THEN Grow(b) ELSE b
  <1>1. PICK q0, p, k, n0 : Parts(S, q0, p, k, n0) /\ b = Buf(q0, p, k, n0)
    BY DEF IsBuffer
  <1>2. /\ b.count = k /\ b.size = n0 /\ k \in Nat /\ n0 \in Nat
        /\ k + 1 # n0 => k + 1 < n0
    BY <1>1 DEF Buf, Buffer, Parts
  <1>3. \E q, n : /\ Parts(S, q, p, k, n) /\ Room(k, n)
                  /\ c = Buf(q, p, k, n) /\ Contents(c) = Contents(b)
    <2>1. CASE k + 1 = n0
      <3>1. c = Grow(b)
        BY <1>2, <2>1
      <3>2. Grows(S, b, p, k)
        <4>1. Full(k, n0) /\ Parts(S, q0, p, k, n0) /\ Holds(b, q0, p, k, n0)
          BY <1>1, <2>1 DEF Full, Holds
        <4> QED
          BY <4>1, GrowKeeps
      <3> HIDE DEF c
      <3> QED
        BY <3>1, <3>2 DEF Holds, Grows
    <2>2. CASE k + 1 # n0
      <3>1. c = b /\ Room(k, n0)
        BY <1>2, <2>2 DEF Room
      <3> HIDE DEF c
      <3> QED
        BY <1>1, <3>1
    <2> QED
      BY <2>1, <2>2
  <1>4. Push(b, x) = [c EXCEPT !.queue[c.nextPush] = x,
                               !.nextPush = Wrap(c.nextPush + 1, c.size),
                               !.count = c.count + 1]
    BY DEF Push
  <1> HIDE DEF c
  <1>5. PICK q, n : /\ Parts(S, q, p, k, n) /\ Room(k, n)
                    /\ c = Buf(q, p, k, n) /\ Contents(c) = Contents(b)
    BY <1>3
  <1>5a. PICK q2 : Written(q2, q, Wrap(p + k, n), x)
    BY DEF Written
  <1>6. /\ Parts(S, q2, p, k + 1, n)
        /\ Wrap(Wrap(p + k, n) + 1, n) = Wrap(p + (k + 1), n)
        /\ Contents(Buf(q2, p, k + 1, n)) = Append(Contents(Buf(q, p, k, n)), x)
    <2>1. Parts(S, q, p, k, n) /\ Room(k, n)
      BY <1>5
    <2> QED
      BY <1>5a, <2>1, WriteAppends
  <1>7. Push(b, x) = Buf(q2, p, k + 1, n)
    <2>1. c = Buffer(q, Wrap(p + k, n), p, k, n)
      BY <1>5 DEF Buf
    <2>2. c.nextPush = Wrap(p + k, n) /\ c.size = n /\ c.count = k
      BY <2>1 DEF Buffer
    <2> DEFINE d == Push(b, x)
    <2>3. d = [c EXCEPT !.queue[Wrap(p + k, n)] = x,
                        !.nextPush = Wrap(Wrap(p + k, n) + 1, n), !.count = k + 1]
      BY <1>4, <2>2
    <2> HIDE DEF d
    <2>4. d = Buffer(q2, Wrap(Wrap(p + k, n) + 1, n), p, k + 1, n)
      BY <1>5a, <2>1, <2>3 DEF Buffer, Written
    <2> QED
      BY <1>6, <2>4 DEF Buf, d
  <1>8. IsBuffer(Push(b, x), S)
    BY <1>6, <1>7 DEF IsBuffer
  <1>9. Push(b, x).count = k + 1
    BY <1>7 DEF Buf, Buffer
  <1> QED
    BY <1>2, <1>5, <1>6, <1>7, <1>8, <1>9

(* pop takes the oldest element, the one back shows.                       *)
THEOREM PopTakesHead ==
  ASSUME NEW S, NEW b, IsBuffer(b, S), b.count > 0
  PROVE  /\ IsBuffer(Pop(b), S)
         /\ Pop(b).count = b.count - 1
         /\ Contents(Pop(b)) = Tail(Contents(b))
         /\ Back(b) = Contents(b)[1]
         /\ Contents(b) \in Seq(S) /\ Len(Contents(b)) = b.count
  <1>1. PICK q, p, k, n : Parts(S, q, p, k, n) /\ b = Buf(q, p, k, n)
    BY DEF IsBuffer
  <1>2. /\ b.count = k /\ b.queue = q /\ b.nextPop = p /\ b.size = n
        /\ b = Buffer(q, Wrap(p + k, n), p, k, n)
    BY <1>1 DEF Buf, Buffer
  <1>3. /\ n \in Nat \ {0} /\ p \in 0 .. n - 1 /\ k \in 1 .. n - 1
        /\ q \in [0 .. n - 1 -> S]
    BY <1>1, <1>2 DEF Parts
  <1> DEFINE p2 == Wrap(p + 1, n)
             k2 == k - 1
  <1>4. p2 = (IF p + 1 < n THEN p + 1 ELSE p + 1 - n) /\ p2 \in 0 .. n - 1
    <2>1. p + 1 \in 0 .. 2 * n - 1
      BY <1>3
    <2> QED
      BY <1>3, <2>1, WrapOnce
  <1>5. Pop(b) = [b EXCEPT !.nextPop = p2, !.count = k2]
    BY <1>2 DEF Pop
  <1> HIDE DEF p2
  <1>6. Parts(S, q, p2, k2, n)
    BY <1>3, <1>4 DEF Parts
  <1>7. ASSUME NEW j \in 0 .. k - 1
        PROVE  Wrap(p2 + j, n) = Wrap(p + (j + 1), n)
    <2>1. /\ p2 + j \in 0 .. 2 * n - 1 /\ p + (j + 1) \in 0 .. 2 * n - 1
      BY <1>3, <1>4
    <2>2. Wrap(p2 + j, n) = IF p2 + j < n THEN p2 + j ELSE p2 + j - n
      <3>1. PICK z : z = p2 + j /\ z \in 0 .. 2 * n - 1
        BY <2>1
      <3>2. Wrap(z, n) = IF z < n THEN z ELSE z - n
        BY <1>3, <3>1, WrapOnce
      <3> QED
        BY <1>3, <1>4, <3>1, <3>2
    <2>3. Wrap(p + (j + 1), n) = IF p + (j + 1) < n THEN p + (j + 1)
                                 ELSE p + (j + 1) - n
      <3>1. PICK z : z = p + (j + 1) /\ z \in 0 .. 2 * n - 1
        BY <2>1
      <3> QED
        BY <1>3, <3>1, WrapOnce
    <2> QED
      BY <1>3, <1>4, <2>2, <2>3
  <1>8. Pop(b) = Buf(q, p2, k2, n)
    <2>1. Wrap(p2 + k2, n) = Wrap(p + k, n)
      <3>1. k2 \in 0 .. k - 1 /\ k2 + 1 = k
        BY <1>3
      <3> HIDE DEF k2
      <3> QED
        BY <1>7, <3>1
    <2> DEFINE d == Pop(b)
    <2>2. d = [b EXCEPT !.nextPop = p2, !.count = k2]
      BY <1>5
    <2> HIDE DEF k2, d
    <2>3. d = Buffer(q, Wrap(p + k, n), p2, k2, n)
      <3>1. PICK d3, k3, p3, u3 : d3 = d /\ k3 = k2 /\ p3 = p2 /\ u3 = Wrap(p + k, n)
        OBVIOUS
      <3>2. b = Buffer(q, u3, p, k, n)
        BY <1>2, <3>1
      <3>3. d3 = [b EXCEPT !.nextPop = p3, !.count = k3]
        BY <2>2, <3>1
      <3>4. d3 = Buffer(q, u3, p3, k3, n)
        BY <3>2, <3>3 DEF Buffer
      <3> QED
        BY <3>1, <3>4
    <2> QED
      BY <2>1, <2>3 DEF Buf, d
  <1>9. IsBuffer(Pop(b), S)
    BY <1>6, <1>8 DEF IsBuffer
  <1>10. /\ Contents(Pop(b)) = [i \in 1 .. k2 |-> q[Wrap(p2 + i - 1, n)]]
         /\ Contents(Pop(b)) \in Seq(S) /\ Len(Contents(Pop(b))) = k2
    BY <1>6, <1>8, ContentsSeq
  <1>11. /\ Contents(b) = [i \in 1 .. k |-> q[Wrap(p + i - 1, n)]]
         /\ Contents(b) \in Seq(S) /\ Len(Contents(b)) = k
    BY <1>1, ContentsSeq
  <1>12. ASSUME NEW i \in 1 .. k2
         PROVE  Contents(Pop(b))[i] = Contents(b)[i + 1]
    <2>1. /\ i - 1 \in 0 .. k - 1 /\ p2 + (i - 1) = p2 + i - 1
          /\ p + ((i - 1) + 1) = p + (i + 1) - 1 /\ i + 1 \in 1 .. k
      BY <1>3, <1>4
    <2>2. Wrap(p2 + i - 1, n) = Wrap(p + (i + 1) - 1, n)
      BY <1>7, <2>1
    <2> QED
      BY <1>10, <1>11, <2>1, <2>2
  <1>13. Contents(Pop(b)) = Tail(Contents(b))
    <2>1. Contents(b) # <<>>
      <3>1. Len(Contents(b)) = k /\ k # 0 /\ Len(<<>>) = 0
        BY <1>3, <1>11
      <3> QED
        BY <3>1
    <2>2. /\ Tail(Contents(b)) \in Seq(S) /\ Len(Tail(Contents(b))) = k - 1
          /\ \A i \in 1 .. k - 1 : Tail(Contents(b))[i] = Contents(b)[i + 1]
      BY <1>11, <2>1, HeadTailProperties
    <2>3. \A i \in 1 .. Len(Contents(Pop(b))) :
             Contents(Pop(b))[i] = Tail(Contents(b))[i]
      BY <1>10, <1>12, <2>2
    <2> QED
      BY <1>10, <2>2, <2>3, SeqEqual
  <1>14. Back(b) = Contents(b)[1]
    <2>1. p + 1 - 1 = p /\ p \in 0 .. 2 * n - 1 /\ p < n /\ 1 \in 1 .. k
      BY <1>3
    <2>2. Wrap(p + 1 - 1, n) = p
      BY <1>3, <2>1, WrapOnce
    <2> QED
      BY <1>2, <1>11, <2>1, <2>2 DEF Back
  <1>15. Pop(b).count = k - 1
    BY <1>8 DEF Buf, Buffer
  <1> QED
    BY <1>2, <1>9, <1>11, <1>13, <1>14, <1>15

-----------------------------------------------------------------------------
(* The pipe.  The invariant adds to OneEventForHead that the packets in    *)
(* flight are due in the order of the buffer and at no time that has       *)
(* passed: so the event for the head is the only one needed, and time      *)
(* cannot pass it.                                                         *)

Item == [pkt : 0 .. MaxPkts, time : Nat]

Types ==
  /\ now \in Nat
  /\ entered \in 0 .. MaxPkts
  /\ delivered \in 0 .. MaxPkts
  /\ IsBuffer(inflight, Item)

\* The packets c, due in order between the time t and a delay from t.
InOrder(c, t) ==
  /\ \A i \in 1 .. Len(c) : /\ c[i].pkt \in 1 .. MaxPkts
                            /\ t <= c[i].time /\ c[i].time <= t + Delay
  /\ \A i, j \in 1 .. Len(c) : i <= j => c[i].time <= c[j].time

IInv == Types /\ InOrder(Contents(inflight), now) /\ OneEventForHead

-----------------------------------------------------------------------------
(* The bags of no event and of one event.                                  *)
LEMMA OneEventBag ==
  ASSUME NEW t
  PROVE  /\ DOMAIN EmptyBag = {}
         /\ DOMAIN SetToBag({t}) = {t}
         /\ EmptyBag (+) SetToBag({t}) = SetToBag({t})
         /\ SetToBag({t}) (-) SetToBag({t}) = EmptyBag
  <1>1. SetToBag({t}) = [e \in {t} |-> 1] /\ EmptyBag = [e \in {} |-> 1]
    BY DEF SetToBag, EmptyBag
  <1>2. EmptyBag (+) SetToBag({t}) = SetToBag({t})
    BY <1>1 DEF (+)
  <1>3. SetToBag({t}) (-) SetToBag({t}) = EmptyBag
    BY <1>1 DEF (-)
  <1> QED
    BY <1>1, <1>2, <1>3

(* A blank slot is an item.                                                *)
LEMMA BlankItem == Blank \in Item
  BY PipeAssumption DEF Blank, Item

(* A packet that enters is due last.                                       *)
LEMMA AppendInOrder ==
  ASSUME NEW c \in Seq(Item), NEW t \in Nat, InOrder(c, t), NEW n \in 1 .. MaxPkts
  PROVE  InOrder(Append(c, [pkt |-> n, time |-> t + Delay]), t)
  <1> DEFINE x == [pkt |-> n, time |-> t + Delay]
             d == Append(c, x)
  <1>1. x \in Item /\ x.pkt = n /\ x.time = t + Delay /\ Delay \in Nat
    BY PipeAssumption DEF Item
  <1> HIDE DEF x
  <1>2. /\ Len(d) = Len(c) + 1 /\ Len(c) \in Nat
        /\ \A i \in 1 .. Len(c) : d[i] = c[i]
        /\ d[Len(c) + 1] = x
    BY <1>1, AppendProperties
  <1> HIDE DEF d
  <1>3. ASSUME NEW i \in 1 .. Len(d)
        PROVE  (i \in 1 .. Len(c) /\ d[i] = c[i]) \/ (i = Len(c) + 1 /\ d[i] = x)
    BY <1>2
  <1>4. ASSUME NEW i \in 1 .. Len(c)
        PROVE  c[i].time \in Nat
    <2>1. c[i] \in Item
      BY ElementOfSeq
    <2> QED
      BY <2>1 DEF Item
  <1>5. ASSUME NEW i \in 1 .. Len(d)
        PROVE  /\ d[i].pkt \in 1 .. MaxPkts
               /\ t <= d[i].time /\ d[i].time <= t + Delay
    BY <1>1, <1>3 DEF InOrder
  <1>6. ASSUME NEW i \in 1 .. Len(d), NEW j \in 1 .. Len(d), i <= j
        PROVE  d[i].time <= d[j].time
    <2>1. CASE j = Len(c) + 1
      BY <1>1, <1>2, <1>5, <2>1
    <2>2. CASE j # Len(c) + 1
      <3>1. i \in 1 .. Len(c) /\ j \in 1 .. Len(c)
        BY <1>2, <1>6, <2>2
      <3> QED
        BY <1>2, <1>6, <3>1 DEF InOrder
    <2> QED
      BY <2>1, <2>2
  <1> QED
    BY <1>5, <1>6 DEF InOrder, d, x

(* The rest of what is due in order is.                                    *)
LEMMA TailInOrder ==
  ASSUME NEW c \in Seq(Item), NEW t \in Nat, InOrder(c, t), Len(c) > 0
  PROVE  InOrder(Tail(c), t)
  <1>1. c # <<>>
    OBVIOUS
  <1>2. /\ Len(Tail(c)) = Len(c) - 1 /\ Len(c) \in Nat
        /\ \A i \in 1 .. Len(Tail(c)) : Tail(c)[i] = c[i + 1]
    BY <1>1, HeadTailProperties
  <1> DEFINE d == Tail(c)
  <1> HIDE DEF d
  <1>3. ASSUME NEW i \in 1 .. Len(d)
        PROVE  i + 1 \in 1 .. Len(c) /\ d[i] = c[i + 1]
    BY <1>2 DEF d
  <1>4. \A i, j \in 1 .. Len(d) : i <= j => i + 1 <= j + 1
    BY <1>2 DEF d
  <1> QED
    BY <1>3, <1>4 DEF InOrder, d

(* What is due in order and later than t is due from t + 1 on.             *)
LEMMA LaterInOrder ==
  ASSUME NEW c \in Seq(Item), NEW t \in Nat, InOrder(c, t),
         Len(c) > 0 => c[1].time # t
  PROVE  InOrder(c, t + 1) /\ (Len(c) > 0 => t < c[1].time)
  <1>1. ASSUME NEW i \in 1 .. Len(c)
        PROVE  c[i].time \in Nat
    <2>1. c[i] \in Item
      BY ElementOfSeq
    <2> QED
      BY <2>1 DEF Item
  <1>2. Len(c) > 0 => 1 \in 1 .. Len(c) /\ c[1].time > t
    BY <1>1 DEF InOrder
  <1>3. ASSUME NEW i \in 1 .. Len(c)
        PROVE  t + 1 <= c[i].time /\ c[i].time <= (t + 1) + Delay
    <2>1. /\ 1 \in 1 .. Len(c) /\ 1 <= i /\ c[1].time <= c[i].time
          /\ c[i].time <= t + Delay /\ c[1].time > t
      BY <1>2 DEF InOrder
    <2> QED
      BY <1>1, <2>1, PipeAssumption
  <1> QED
    BY <1>2, <1>3 DEF InOrder

-----------------------------------------------------------------------------
(* The invariant holds at first.                                           *)
LEMMA InitIInv == Init => IInv
  <1> SUFFICES ASSUME Init PROVE IInv
    OBVIOUS
  <1>1. /\ IsBuffer(inflight, Item) /\ inflight.count = 0
        /\ Contents(inflight) = <<>>
    BY BlankItem, NewBufferIsEmpty, PipeAssumption DEF Init
  <1>2. InOrder(Contents(inflight), now)
    BY <1>1 DEF InOrder
  <1> QED
    BY <1>1, <1>2, PipeAssumption DEF Init, IInv, Types, OneEventForHead

(* What an arriving packet changes.                                        *)
LEMMA ReceiveStep ==
  ASSUME IInv, ReceivePacket
  PROVE  IInv' /\ Line!Enter
  <1> DEFINE x == [pkt |-> entered + 1, time |-> now + Delay]
             c == Contents(inflight)
  <1>1. /\ now \in Nat /\ entered \in 0 .. MaxPkts /\ delivered \in 0 .. MaxPkts
        /\ IsBuffer(inflight, Item) /\ InOrder(c, now) /\ OneEventForHead
        /\ Delay \in Nat /\ MaxPkts \in Nat
    BY PipeAssumption DEF IInv, Types
  <1>2. /\ entered < MaxPkts /\ entered' = entered + 1 /\ inflight' = Push(inflight, x)
        /\ pending' = IF inflight.count = 0 THEN pending (+) SetToBag({now + Delay})
                                            ELSE pending
        /\ now' = now /\ delivered' = delivered
    BY DEF ReceivePacket
  <1>3. x \in Item /\ entered + 1 \in 1 .. MaxPkts /\ x.time = now + Delay
    BY <1>1, <1>2 DEF Item
  <1>4. /\ IsBuffer(inflight', Item)
        /\ inflight'.count = inflight.count + 1
        /\ Contents(inflight') = Append(c, x)
    <2> HIDE DEF x
    <2> QED
      BY <1>1, <1>2, <1>3, BlankItem, PushAppends
  <1>5. c \in Seq(Item) /\ Len(c) = inflight.count /\ inflight.count \in Nat
    BY <1>1, BufferContents
  <1>6. InOrder(Contents(inflight'), now')
    <2>1. PICK n : n = entered + 1 /\ n \in 1 .. MaxPkts
      BY <1>3
    <2> HIDE DEF c
    <2> QED
      BY <1>1, <1>2, <1>4, <1>5, <2>1, AppendInOrder
  <1>7. OneEventForHead'
    <2>1. inflight'.count # 0 /\ inflight'.count > 0
      BY <1>4, <1>5
    <2>2. Back(inflight') = Contents(inflight')[1]
      BY <1>4, <2>1, PopTakesHead
    <2>3. CASE inflight.count = 0
      <3>1. Back(inflight') = x
        <4> HIDE DEF c, x
        <4> QED
          BY <1>3, <1>4, <1>5, <2>2, <2>3, AppendProperties
      <3>2. pending = EmptyBag
        BY <1>1, <2>3 DEF OneEventForHead
      <3>3. pending' = SetToBag({now + Delay})
        BY <1>2, <2>3, <3>2, OneEventBag
      <3> QED
        BY <1>3, <2>1, <3>1, <3>3 DEF OneEventForHead
    <2>4. CASE inflight.count # 0
      <3>1. inflight.count > 0
        BY <1>5, <2>4
      <3>2. Back(inflight) = c[1]
        BY <1>1, <3>1, PopTakesHead
      <3>3. Contents(inflight')[1] = c[1]
        <4>1. 1 \in 1 .. Len(c)
          BY <1>5, <3>1
        <4> HIDE DEF c, x
        <4> QED
          BY <1>3, <1>4, <1>5, <4>1, AppendProperties
      <3> QED
        BY <1>1, <1>2, <2>1, <2>2, <2>4, <3>2, <3>3 DEF OneEventForHead
    <2> QED
      BY <2>3, <2>4
  <1>8. Line!Enter
    BY <1>2, <1>3, <1>4 DEF Line!Enter
  <1> QED
    BY <1>1, <1>2, <1>3, <1>4, <1>6, <1>7, <1>8 DEF IInv, Types

(* What an event of the pipe changes.                                      *)
LEMMA EventStep ==
  ASSUME IInv, DoNextEvent
  PROVE  IInv' /\ Line!Deliver
  <1> DEFINE c == Contents(inflight)
             left == Pop(inflight)
             rest == pending (-) SetToBag({now})
  <1>1. /\ now \in Nat /\ entered \in 0 .. MaxPkts /\ delivered \in 0 .. MaxPkts
        /\ IsBuffer(inflight, Item) /\ InOrder(c, now) /\ OneEventForHead
    BY DEF IInv, Types
  <1>2. c \in Seq(Item) /\ Len(c) = inflight.count /\ inflight.count \in Nat
    BY <1>1, BufferContents
  <1>3. now \in DOMAIN pending
    BY DEF DoNextEvent
  <1>4. inflight.count # 0
    BY <1>1, <1>3, OneEventBag DEF OneEventForHead
  <1>5. /\ inflight' = left /\ delivered' = Back(inflight).pkt
        /\ pending' = IF left.count > 0 THEN rest (+) SetToBag({Back(left).time})
                      ELSE rest
        /\ now' = now /\ entered' = entered
    BY <1>4 DEF DoNextEvent, NextEventTime
  <1>6. /\ IsBuffer(left, Item) /\ left.count = inflight.count - 1
        /\ Contents(left) = Tail(c) /\ Back(inflight) = c[1]
    <2>1. inflight.count > 0
      BY <1>2, <1>4
    <2> HIDE DEF c
    <2> QED
      BY <1>1, <2>1, PopTakesHead DEF c
  <1>7. pending = SetToBag({c[1].time})
    BY <1>1, <1>4, <1>6 DEF OneEventForHead
  <1>8. c[1].time = now
    <2>1. PICK t : t = c[1].time
      OBVIOUS
    <2>2. DOMAIN SetToBag({t}) = {t}
      BY OneEventBag
    <2> QED
      BY <1>3, <1>7, <2>1, <2>2
  <1>9. rest = EmptyBag
    BY <1>7, <1>8, OneEventBag
  <1> HIDE DEF rest, left
  <1>10. OneEventForHead'
    <2>1. CASE left.count = 0
      BY <1>5, <1>9, <2>1 DEF OneEventForHead
    <2>2. CASE left.count # 0
      <3>1. left.count > 0
        BY <1>2, <1>4, <1>6, <2>2
      <3>2. pending' = SetToBag({Back(left).time})
        BY <1>5, <1>9, <3>1, OneEventBag
      <3> QED
        BY <1>5, <2>2, <3>2 DEF OneEventForHead
    <2> QED
      BY <2>1, <2>2
  <1>11. InOrder(Contents(inflight'), now')
    <2> HIDE DEF c
    <2>1. Len(c) > 0
      BY <1>2, <1>4
    <2> QED
      BY <1>1, <1>2, <1>5, <1>6, <2>1, TailInOrder
  <1>12. c[1].pkt \in 1 .. MaxPkts
    BY <1>1, <1>2, <1>4 DEF InOrder
  <1>13. delivered' \in 0 .. MaxPkts
    BY <1>5, <1>6, <1>12, PipeAssumption
  <1>14. Line!Deliver
    <2>1. c # <<>> /\ Head(c) = c[1]
      BY <1>2, <1>4
    <2> QED
      BY <1>5, <1>6, <1>8, <2>1 DEF Line!Deliver
  <1> QED
    BY <1>1, <1>5, <1>6, <1>10, <1>11, <1>13, <1>14 DEF IInv, Types

(* What the passing of time changes.                                       *)
LEMMA TickStep ==
  ASSUME IInv, Tick
  PROVE  IInv' /\ Line!Wait
  <1> DEFINE c == Contents(inflight)
  <1>1. /\ now \in Nat /\ entered \in 0 .. MaxPkts /\ delivered \in 0 .. MaxPkts
        /\ IsBuffer(inflight, Item) /\ InOrder(c, now) /\ OneEventForHead
    BY DEF IInv, Types
  <1>2. c \in Seq(Item) /\ Len(c) = inflight.count /\ inflight.count \in Nat
    BY <1>1, BufferContents
  <1>3. /\ now \notin DOMAIN pending /\ now' = now + 1 /\ inflight' = inflight
        /\ pending' = pending /\ entered' = entered /\ delivered' = delivered
    BY DEF Tick
  <1>4. ASSUME Len(c) > 0
        PROVE  c[1].time # now
    <2>1. inflight.count # 0 /\ inflight.count > 0
      BY <1>2, <1>4
    <2>2. Back(inflight) = c[1]
      BY <1>1, <2>1, PopTakesHead
    <2>3. pending = SetToBag({c[1].time})
      BY <1>1, <2>1, <2>2 DEF OneEventForHead
    <2> QED
      BY <1>3, <2>3, OneEventBag
  <1>5. InOrder(c, now + 1) /\ (Len(c) > 0 => now < c[1].time)
    <2> HIDE DEF c
    <2> QED
      BY <1>1, <1>2, <1>4, LaterInOrder
  <1>6. Line!Wait
    <2>1. c = <<>> \/ (Len(c) > 0 /\ Head(c) = c[1])
      BY <1>2
    <2> QED
      BY <1>3, <1>5, <2>1 DEF Line!Wait
  <1> QED
    BY <1>1, <1>3, <1>5, <1>6 DEF IInv, Types, OneEventForHead

(* Every step keeps the invariant and is a step of the delay line.         *)
LEMMA EveryStep ==
  ASSUME IInv, [Next]_vars
  PROVE  IInv' /\ [Line!Next]_(Line!lvars)
  <1>1. CASE ReceivePacket
    BY <1>1, ReceiveStep DEF Line!Next
  <1>2. CASE DoNextEvent
    BY <1>2, EventStep DEF Line!Next
  <1>3. CASE Tick
    BY <1>3, TickStep DEF Line!Next
  <1>4. CASE UNCHANGED vars
    BY <1>4 DEF vars, IInv, Types, OneEventForHead, Line!lvars
  <1> QED
    BY <1>1, <1>2, <1>3, <1>4 DEF Next

-----------------------------------------------------------------------------
(* The inductive invariant of the pipe.                                    *)
THEOREM PipeInvariant == Spec => []IInv
  <1>1. IInv /\ [Next]_vars => IInv'
    BY EveryStep
  <1> QED
    BY <1>1, InitIInv, PTL DEF Spec

(* The positions of the buffer fit its count, whatever enters.             *)
THEOREM BufferStaysWellFormed == Spec => []BufferWellFormed
  <1>1. IInv => BufferWellFormed
    BY BufferIsWellFormed DEF IInv, Types, BufferWellFormed
  <1> QED
    BY <1>1, PipeInvariant, PTL

(* The event list holds the event of the head and no other of the pipe.    *)
THEOREM HeadIsPending == Spec => []OneEventForHead
  <1>1. IInv => OneEventForHead
    BY DEF IInv
  <1> QED
    BY <1>1, PipeInvariant, PTL

(* A pipe loses no packet, keeps their order and delays each by Delay.     *)
THEOREM PipeIsDelayLine == Spec => LineSpec
  <1>1. Init => Line!Init
    <2> SUFFICES ASSUME Init PROVE Line!Init
      OBVIOUS
    <2>1. Contents(inflight) = <<>>
      BY BlankItem, NewBufferIsEmpty, PipeAssumption DEF Init
    <2> QED
      BY <2>1 DEF Init, Line!Init
  <1>2. IInv /\ [Next]_vars => [Line!Next]_(Line!lvars)
    BY EveryStep
  <1> QED
    BY <1>1, <1>2, PipeInvariant, PTL DEF Spec, LineSpec, Line!Spec
=============================================================================
