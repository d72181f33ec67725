-------------------------- MODULE LcpControlProofs --------------------------
(***************************************************************************)
(* Proofs about LcpControl, for flows of every length, every setting of    *)
(* the options and every round trip time: what the handlers do to the      *)
(* fields of the control, one lemma per operator, and from them that the   *)
(* invariants and action properties of MCControl hold.                     *)
(***************************************************************************)
EXTENDS MCControl, FiniteSetTheorems, LoopsProofs

-----------------------------------------------------------------------------
(* Numbers.                                                                *)

LEMMA MinOfTwo ==
  ASSUME NEW a \in Int, NEW b \in Int
  PROVE  Min({a, b}) = IF a <= b THEN a ELSE b
<1>1. \E x \in {a, b} : \A y \in {a, b} : x =< y
  OBVIOUS
<1>2. Min({a, b}) \in {a, b} /\ \A y \in {a, b} : Min({a, b}) =< y
  BY <1>1, Zenon DEF Min
<1> QED BY <1>2

LEMMA MaxOfTwo ==
  ASSUME NEW a \in Int, NEW b \in Int
  PROVE  Max({a, b}) = IF a >= b THEN a ELSE b
<1>1. \E x \in {a, b} : \A y \in {a, b} : x >= y
  OBVIOUS
<1>2. Max({a, b}) \in {a, b} /\ \A y \in {a, b} : Max({a, b}) >= y
  BY <1>1, Zenon DEF Max
<1> QED BY <1>2

(* A quotient of natural numbers is one.                                   *)
LEMMA QuotientNat ==
  ASSUME NEW a \in Nat, NEW b \in Nat \ {0}
  PROVE  a \div b \in Nat
OBVIOUS

LEMMA ProductNat ==
  ASSUME NEW a \in Nat, NEW b \in Nat
  PROVE  a * b \in Nat
OBVIOUS

-----------------------------------------------------------------------------
(* The window.                                                             *)

Good == { c \in Fields : c.cwnd \in Mss .. MaxCwnd }

Limit(w) == IF w > MaxCwnd THEN MaxCwnd ELSE IF w < Mss THEN Mss ELSE w

(* check_limits_cwnd leaves a window that lets a packet out and is not     *)
(* above the maximum, and leaves such a window alone.                      *)
LEMMA LimitsHold ==
  ASSUME NEW c \in Fields
  PROVE  /\ CheckLimits(c) = [c EXCEPT !.cwnd = Limit(c.cwnd)]
         /\ Limit(c.cwnd) \in Mss .. MaxCwnd
         /\ CheckLimits(c) \in Good
<1>1. c.cwnd \in Int /\ MaxCwnd \in Nat /\ Mss <= MaxCwnd /\ Mss = 25
  BY ControlAssumption DEF Fields, Mss
<1>2. Min({MaxCwnd, c.cwnd}) = IF MaxCwnd <= c.cwnd THEN MaxCwnd ELSE c.cwnd
  BY <1>1, MinOfTwo
<1> DEFINE m == Min({MaxCwnd, c.cwnd})
<1> HIDE DEF m
<1>3. Max({Mss, m}) = IF Mss >= m THEN Mss ELSE m
  BY <1>1, <1>2, MaxOfTwo DEF m
<1>8. Max({Mss, m}) = Limit(c.cwnd)
  BY <1>1, <1>2, <1>3 DEF Limit, m
<1>4. Limit(c.cwnd) \in Mss .. MaxCwnd
  BY <1>1 DEF Limit
<1>5. CheckLimits(c) = [c EXCEPT !.cwnd = Limit(c.cwnd)]
  BY <1>8 DEF CheckLimits, m
<1> DEFINE w == Limit(c.cwnd)
<1> HIDE DEF w
<1>6. w \in Int
  BY <1>1, <1>4 DEF w
<1>7. [c EXCEPT !.cwnd = w] \in Fields /\ [c EXCEPT !.cwnd = w].cwnd = w
  BY <1>6 DEF Fields
<1> QED BY <1>4, <1>5, <1>7 DEF Good, w

LEMMA GoodKeepsLimits ==
  ASSUME NEW c \in Good
  PROVE  CheckLimits(c) = c
<1>1. c \in Fields /\ c.cwnd \in Mss .. MaxCwnd /\ Mss = 25 /\ MaxCwnd \in Nat
  BY ControlAssumption DEF Good, Mss
<1>2. Limit(c.cwnd) = c.cwnd
  BY <1>1 DEF Limit
<1>3. [c EXCEPT !.cwnd = c.cwnd] = c
  BY <1>1 DEF Fields
<1> QED BY <1>1, <1>2, <1>3, LimitsHold

-----------------------------------------------------------------------------
(* What sending does.  The handlers send, time out and send again in loops *)
(* of any length; Follows holds from before a loop to after it.            *)

Sound ==
  { s \in Handling : /\ s.cc.cwnd \in Mss .. MaxCwnd
                     /\ s.out \subseteq [pkt : Packets, at : 0 .. now] }

Sending == [state |-> "flying", at |-> now]

Expired(e) == e.state = "flying" /\ e.at + Rto <= now

\* What can become of the entry of a packet.
Moved(e, f) ==
  \/ f = e
  \/ Expired(e) /\ f = [state |-> "timedOut", at |-> e.at]
  \/ (e.state \in {"unsent", "timedOut"} \/ Expired(e)) /\ f = Sending

\* And of the fields of the control, but for the window.
Carried(c, d) ==
  /\ c.ewmaIsNumber => d.ewmaIsNumber
  /\ c.qaOn <=> d.qaOn
  /\ d.qaEnd = c.qaEnd /\ d.qaBytes = c.qaBytes
  /\ \/ d.goodEpochs = c.goodEpochs /\ d.fastRounds = c.fastRounds
     \/ d.goodEpochs = 0 /\ d.fastRounds = 0
  /\ \/ /\ c.epochOn <=> d.epochOn
        /\ d.epochEnd = c.epochEnd /\ d.epochBytes = c.epochBytes
     \/ d.epochOn /\ d.epochEnd = now
  /\ c.epochOn \/ c.counter > 0 => d.epochOn \/ d.counter > 0

\* Only a packet that times out makes sending change the window.
Follows(s, t) ==
  /\ \A p \in Packets : Moved(s.sent[p], t.sent[p])
  /\ Carried(s.cc, t.cc)
  /\ \/ t.cc.cwnd = s.cc.cwnd
     \/ \E p \in Packets : s.sent[p].state = "flying" /\ t.sent[p] # s.sent[p]

LEMMA CarriedOn ==
  ASSUME NEW c, NEW d, NEW e, Carried(c, d), Carried(d, e)
  PROVE  Carried(c, e)
BY Zenon DEF Carried

LEMMA MovedOn ==
  ASSUME NEW e \in Entry, NEW f, NEW g, now \in Nat, Moved(e, f), Moved(f, g)
  PROVE  /\ Moved(e, g)
         /\ e.state = "flying" /\ f # e => g # e
         /\ f.state = "flying" /\ g # f => e.state = "flying" /\ g # e
<1>1. Rto \in Nat \ {0} /\ e.at \in Nat
  BY ControlAssumption DEF Entry
<1> QED BY <1>1 DEF Moved, Expired, Sending

LEMMA FollowsOn ==
  ASSUME NEW s \in Sound, NEW t \in Sound, NEW u \in Sound, now \in Nat,
         Follows(s, t), Follows(t, u)
  PROVE  Follows(s, u)
<1>1. \A p \in Packets : s.sent[p] \in Entry
  BY DEF Sound, Handling
<1>2. Carried(s.cc, u.cc)
  BY CarriedOn DEF Follows
<1>3. ASSUME NEW p \in Packets
      PROVE  /\ Moved(s.sent[p], u.sent[p])
             /\ s.sent[p].state = "flying" /\ t.sent[p] # s.sent[p] => u.sent[p] # s.sent[p]
             /\ t.sent[p].state = "flying" /\ u.sent[p] # t.sent[p]
                  => s.sent[p].state = "flying" /\ u.sent[p] # s.sent[p]
  BY <1>1, MovedOn DEF Follows
<1> QED BY <1>2, <1>3 DEF Follows

LEMMA CarriedSame ==
  ASSUME NEW c PROVE Carried(c, c)
BY Zenon DEF Carried

(* send_packets and resend_packet take a packet off the countdown and begin *)
(* the first epoch when it runs out.                                       *)
LEMMA TakeOffCarries ==
  ASSUME NEW c \in Fields, now \in Nat
  PROVE  /\ TakeOff(c) \in Fields /\ TakeOff(c).cwnd = c.cwnd
         /\ Carried(c, TakeOff(c))
<1>1. CASE c.counter <= 0
  BY <1>1, CarriedSame DEF TakeOff
<1>2. CASE ~(c.counter <= 0)
  <2> DEFINE d == [c EXCEPT !.counter = c.counter - Mss]
             e == [ResetEpoch(d) EXCEPT !.epochOn = TRUE]
  <2>1. d \in Fields /\ d.counter = c.counter - Mss /\ d.cwnd = c.cwnd
    BY DEF Fields, Mss
  <2>2. Carried(c, d) \/ d.counter <= 0
    <3>1. d.counter \in Int
      BY <2>1 DEF Fields
    <3>2. d = [c EXCEPT !.counter = d.counter]
      BY <2>1
    <3>3. CASE d.counter > 0
      <4> HIDE DEF d
      <4>1. /\ d.ewmaIsNumber = c.ewmaIsNumber /\ d.qaOn = c.qaOn /\ d.qaEnd = c.qaEnd
            /\ d.qaBytes = c.qaBytes /\ d.goodEpochs = c.goodEpochs
            /\ d.fastRounds = c.fastRounds /\ d.epochOn = c.epochOn
            /\ d.epochEnd = c.epochEnd /\ d.epochBytes = c.epochBytes
        BY <3>2 DEF Fields
      <4> QED BY <3>3, <4>1, Zenon DEF Carried
    <3> QED BY <3>1, <3>3
  <2>3. e \in Fields /\ e.cwnd = c.cwnd
    <3> HIDE DEF d
    <3>1. ResetEpoch(d) \in Fields /\ ResetEpoch(d).cwnd = d.cwnd
      BY <2>1 DEF ResetEpoch, Fields
    <3> QED BY <2>1, <3>1 DEF Fields
  <2>4. Carried(c, e)
    BY DEF ResetEpoch, Fields, Carried
  <2>5. TakeOff(c) = IF d.counter <= 0 THEN e ELSE d
    BY <1>2 DEF TakeOff
  <2> HIDE DEF d, e
  <2> QED BY <2>1, <2>2, <2>3, <2>4, <2>5
<1> QED BY <1>1, <1>2

LEMMA TransmitFollows ==
  ASSUME NEW s \in Sound, NEW p \in Packets, now \in Nat,
         s.sent[p].state \in {"unsent", "timedOut"}
  PROVE  Transmit(s, p) \in Sound /\ Follows(s, Transmit(s, p))
<1> DEFINE c == [s.cc EXCEPT !.unacked = @ + Mss]
           e == [s.sent EXCEPT ![p] = Sending]
           o == s.out \union {[pkt |-> p, at |-> now]}
           t == [cc |-> TakeOff(c), sent |-> e, out |-> o]
<1>1. s.cc \in Fields /\ s.sent \in [Packets -> Entry] /\ s.out \subseteq [pkt : Packets, at : 0 .. now]
      /\ s.cc.cwnd \in Mss .. MaxCwnd
  BY DEF Sound, Handling
<1>2. c \in Fields /\ c.cwnd = s.cc.cwnd /\ Carried(s.cc, c)
  BY <1>1 DEF Fields, Mss, Carried
<1>3. e \in [Packets -> Entry] /\ \A q \in Packets : Moved(s.sent[q], e[q])
  BY <1>1 DEF Entry, Sending, Moved
<1>4. o \subseteq [pkt : Packets, at : 0 .. now] /\ o \subseteq Copy
  BY <1>1 DEF Copy
<1>5. Transmit(s, p) = t
  BY DEF Transmit, Sending
<1> HIDE DEF c, e, o
<1>6. TakeOff(c) \in Fields /\ TakeOff(c).cwnd = s.cc.cwnd /\ Carried(s.cc, TakeOff(c))
  BY <1>2, TakeOffCarries, CarriedOn
<1> HIDE DEF TakeOff
<1>7. t \in Sound
  BY <1>1, <1>3, <1>4, <1>6 DEF Sound, Handling
<1>8. Follows(s, t)
  BY <1>3, <1>6 DEF Follows
<1> QED BY <1>5, <1>7, <1>8

LEMMA FollowsSame ==
  ASSUME NEW s \in Sound PROVE Follows(s, s)
BY CarriedSame DEF Follows, Moved

LEMMA ResendFollows ==
  ASSUME NEW s \in Sound, NEW p \in Packets, now \in Nat
  PROVE  Resend(s, p) \in Sound /\ Follows(s, Resend(s, p))
<1>1. CASE s.sent[p].state # "timedOut"
  BY <1>1, FollowsSame DEF Resend
<1>2. CASE s.sent[p].state = "timedOut" /\ s.cc.unacked >= s.cc.cwnd
  <2> DEFINE c == [s.cc EXCEPT !.rtxPending = TRUE]
             t == [s EXCEPT !.cc = c]
  <2>1. s \in Handling /\ s.cc \in Fields /\ s.cc.cwnd \in Mss .. MaxCwnd
        /\ s.out \subseteq [pkt : Packets, at : 0 .. now]
    BY DEF Sound, Handling
  <2>2. c \in Fields /\ c.cwnd = s.cc.cwnd /\ Carried(s.cc, c)
    BY <2>1 DEF Fields, Carried
  <2>3. Resend(s, p) = t
    BY <1>2 DEF Resend
  <2> HIDE DEF c
  <2>4. t \in Handling /\ t.cc = c /\ t.sent = s.sent /\ t.out = s.out
    BY <2>1, <2>2 DEF Handling
  <2>5. t \in Sound
    BY <2>1, <2>2, <2>4 DEF Sound
  <2>6. Follows(s, t)
    BY <2>2, <2>4 DEF Follows, Moved
  <2> QED BY <2>3, <2>5, <2>6
<1>3. CASE s.sent[p].state = "timedOut" /\ ~(s.cc.unacked >= s.cc.cwnd)
  BY <1>3, TransmitFollows DEF Resend
<1> QED BY <1>1, <1>2, <1>3

(* reduce_unacked stops at zero.                                           *)
LEMMA ReduceUnackedFields ==
  ASSUME NEW c \in Fields, NEW n \in Nat
  PROVE  /\ ReduceUnacked(c, n) \in Fields
         /\ ReduceUnacked(c, n) = [c EXCEPT !.unacked = ReduceUnacked(c, n).unacked]
<1> DEFINE u == Max({0, c.unacked - n})
<1>1. c.unacked - n \in Int
  BY DEF Fields
<1>2. u \in Nat
  BY <1>1, MaxOfTwo
<1>3. ReduceUnacked(c, n) = [c EXCEPT !.unacked = u]
  BY DEF ReduceUnacked
<1> HIDE DEF u
<1> QED BY <1>2, <1>3 DEF Fields

LEMMA UncountedFields ==
  ASSUME NEW c \in Fields
  PROVE  /\ Uncounted(c) \in Fields /\ Uncounted(c).cwnd = c.cwnd
         /\ Carried(c, Uncounted(c))
<1> DEFINE d == Uncounted(c)
<1>1. d \in Fields /\ d.goodEpochs = 0 /\ d.fastRounds = 0
  BY DEF Uncounted, Fields
<1>2. /\ d.ewmaIsNumber = c.ewmaIsNumber /\ d.qaOn = c.qaOn /\ d.qaEnd = c.qaEnd
      /\ d.qaBytes = c.qaBytes /\ d.counter = c.counter /\ d.epochOn = c.epochOn
      /\ d.epochEnd = c.epochEnd /\ d.epochBytes = c.epochBytes /\ d.cwnd = c.cwnd
  BY DEF Uncounted, Fields
<1>3. Carried(c, d)
  <2> HIDE DEF d
  <2> QED BY <1>1, <1>2, Zenon DEF Carried
<1> QED BY <1>1, <1>2, <1>3

(* What Carried reads does not depend on the window or the bytes in flight. *)
LEMMA CarriedWindow ==
  ASSUME NEW c \in Fields, NEW w \in Int
  PROVE  [c EXCEPT !.cwnd = w] \in Fields /\ Carried(c, [c EXCEPT !.cwnd = w])
<1> DEFINE d == [c EXCEPT !.cwnd = w]
<1>1. /\ d.ewmaIsNumber = c.ewmaIsNumber /\ d.qaOn = c.qaOn /\ d.qaEnd = c.qaEnd
      /\ d.qaBytes = c.qaBytes /\ d.counter = c.counter /\ d.epochOn = c.epochOn
      /\ d.epochEnd = c.epochEnd /\ d.epochBytes = c.epochBytes
      /\ d.goodEpochs = c.goodEpochs /\ d.fastRounds = c.fastRounds
  BY DEF Fields
<1>2. Carried(c, d)
  <2> HIDE DEF d
  <2> QED BY <1>1, Zenon DEF Carried
<1> QED BY <1>2 DEF Fields

LEMMA CarriedUnacked ==
  ASSUME NEW c \in Fields, NEW u \in Nat
  PROVE  /\ [c EXCEPT !.unacked = u] \in Fields /\ Carried(c, [c EXCEPT !.unacked = u])
         /\ [c EXCEPT !.unacked = u].cwnd = c.cwnd
<1> DEFINE d == [c EXCEPT !.unacked = u]
<1>1. /\ d.ewmaIsNumber = c.ewmaIsNumber /\ d.qaOn = c.qaOn /\ d.qaEnd = c.qaEnd
      /\ d.qaBytes = c.qaBytes /\ d.counter = c.counter /\ d.epochOn = c.epochOn
      /\ d.epochEnd = c.epochEnd /\ d.epochBytes = c.epochBytes
      /\ d.goodEpochs = c.goodEpochs /\ d.fastRounds = c.fastRounds
  BY DEF Fields
<1>2. Carried(c, d)
  <2> HIDE DEF d
  <2> QED BY <1>1, Zenon DEF Carried
<1> QED BY <1>2 DEF Fields

(* A packet that times out, with what it does to the window.               *)
LEMMA TimeOutFollows ==
  ASSUME NEW s \in Sound, NEW p \in Packets, now \in Nat
  PROVE  TimeOut(s, p) \in Sound /\ Follows(s, TimeOut(s, p))
<1>1. CASE ~Expired(s.sent[p])
  BY <1>1, FollowsSame DEF TimeOut, Expired
<1>2. CASE Expired(s.sent[p])
  <2> DEFINE c == Uncounted(s.cc)
             d == IF options.rtoReduces THEN [c EXCEPT !.cwnd = @ - Mss] ELSE c
             l == CheckLimits(d)
             r == ReduceUnacked(l, Mss)
             e == [s.sent EXCEPT ![p].state = "timedOut"]
             t == [s EXCEPT !.cc = r, !.sent = e]
  <2>1. s \in Handling /\ s.cc \in Fields /\ s.sent \in [Packets -> Entry]
        /\ s.out \subseteq [pkt : Packets, at : 0 .. now] /\ Mss \in Nat
    BY DEF Sound, Handling, Mss
  <2>2. c \in Fields /\ Carried(s.cc, c)
    BY <2>1, UncountedFields
  <2>3. d \in Fields /\ Carried(c, d)
    <3> HIDE DEF c
    <3>1. c.cwnd - Mss \in Int
      BY <2>1, <2>2 DEF Fields
    <3> QED BY <2>2, <3>1, CarriedWindow, CarriedSame
  <2>4. l \in Good /\ Carried(d, l)
    <3> HIDE DEF d
    <3>1. Limit(d.cwnd) \in Int /\ l \in Good /\ l = [d EXCEPT !.cwnd = Limit(d.cwnd)]
      BY <2>3, LimitsHold, ControlAssumption DEF Mss
    <3> HIDE DEF l
    <3> QED BY <2>3, <3>1, CarriedWindow
  <2>5. r \in Fields /\ r.cwnd \in Mss .. MaxCwnd /\ Carried(l, r)
    <3> HIDE DEF l
    <3>1. r \in Fields /\ r = [l EXCEPT !.unacked = r.unacked]
      BY <2>1, <2>4, ReduceUnackedFields DEF Good
    <3>2. PICK u \in Nat : r = [l EXCEPT !.unacked = u]
      BY <3>1 DEF Fields
    <3>3. l \in Fields /\ l.cwnd \in Mss .. MaxCwnd
      BY <2>4 DEF Good
    <3> HIDE DEF r
    <3>4. Carried(l, r) /\ r.cwnd = l.cwnd
      BY <3>2, <3>3, CarriedUnacked
    <3> QED BY <3>1, <3>3, <3>4
  <2>6. Carried(s.cc, r)
    <3> HIDE DEF c, d, l, r
    <3> QED BY <2>2, <2>3, <2>4, <2>5, CarriedOn
  <2>7. e \in [Packets -> Entry] /\ e[p] = [state |-> "timedOut", at |-> s.sent[p].at]
        /\ \A q \in Packets : Moved(s.sent[q], e[q])
    <3>1. [s.sent[p] EXCEPT !.state = "timedOut"] = [state |-> "timedOut", at |-> s.sent[p].at]
      BY <2>1 DEF Entry
    <3>2. e[p] = [state |-> "timedOut", at |-> s.sent[p].at]
          /\ \A q \in Packets \ {p} : e[q] = s.sent[q]
      BY <2>1, <3>1
    <3>3. e \in [Packets -> Entry]
      BY <2>1, <3>1 DEF Entry
    <3> HIDE DEF e
    <3> QED BY <1>2, <3>2, <3>3 DEF Moved
  <2>8. TimeOut(s, p) = t
    BY <1>2, <2>1 DEF TimeOut, Expired, Handling
  <2> HIDE DEF r, e
  <2>9. t \in Handling /\ t.cc = r /\ t.sent = e /\ t.out = s.out
    BY <2>1, <2>5, <2>7 DEF Handling
  <2>10. t \in Sound
    BY <2>1, <2>5, <2>9 DEF Sound
  <2>11. s.sent[p].state = "flying" /\ e[p] # s.sent[p]
    BY <1>2, <2>7 DEF Expired
  <2>12. Follows(s, t)
    BY <2>6, <2>7, <2>9, <2>11 DEF Follows
  <2> QED BY <2>8, <2>10, <2>12
<1> QED BY <1>1, <1>2

LEMMA PktsNat == Pkts \in Nat /\ Packets = 1 .. Pkts
BY ControlAssumption DEF Packets

\* What a loop that begins in s can reach.
From(s) == { t \in Sound : Follows(s, t) }

LEMMA RetransmitPacketFollows ==
  ASSUME NEW s \in Sound, now \in Nat
  PROVE  RetransmitPacket(s) \in Sound /\ Follows(s, RetransmitPacket(s))
<1> DEFINE c == [s.cc EXCEPT !.rtxPending = FALSE]
           x == [s EXCEPT !.cc.rtxPending = FALSE]
<1>1. s \in Handling /\ s.cc \in Fields /\ s.cc.cwnd \in Mss .. MaxCwnd
      /\ s.out \subseteq [pkt : Packets, at : 0 .. now]
  BY DEF Sound, Handling
<1>2. c \in Fields /\ c.cwnd = s.cc.cwnd /\ Carried(s.cc, c)
  BY <1>1 DEF Fields, Carried
<1>3. x \in Handling /\ x.cc = c /\ x.sent = s.sent /\ x.out = s.out
  BY <1>1, <1>2 DEF Handling
<1> HIDE DEF x, c
<1>4. x \in Sound
  BY <1>1, <1>2, <1>3 DEF Sound
<1>5. x \in From(s)
  BY <1>2, <1>3, <1>4 DEF From, Follows, Moved
<1>6. \A i \in 1 .. Pkts : \A y \in From(s) : RetransmitLoop[i][y] \in From(s)
  <2> TAKE i \in 1 .. Pkts
  <2> TAKE y \in From(s)
  <2>1. y \in Sound /\ Follows(s, y) /\ y \in Handling /\ i \in Packets
    BY PktsNat DEF From, Sound
  <2> DEFINE z == TimeOut(y, i)
  <2>2. z \in Sound /\ Follows(y, z)
    BY <2>1, TimeOutFollows
  <2> HIDE DEF z
  <2>3. Resend(z, i) \in Sound /\ Follows(z, Resend(z, i))
    BY <2>1, <2>2, ResendFollows
  <2>4. Resend(z, i) \in From(s)
    BY <2>1, <2>2, <2>3, FollowsOn DEF From
  <2>5. RetransmitLoop[i][y] = Resend(z, i)
    BY <2>1 DEF RetransmitLoop, z
  <2> QED BY <2>4, <2>5
<1>7. RunLoop(RetransmitLoop, Pkts, x) \in From(s)
  BY <1>5, <1>6, PktsNat, LoopResult
<1> QED BY <1>7 DEF RetransmitPacket, From, x

(* The loop over new packets reaches each once: the entries of those to    *)
(* come are still unsent.                                                  *)
LEMMA SendLoopFollows ==
  ASSUME NEW s \in Sound, NEW new, now \in Nat,
         new \subseteq { p \in Packets : s.sent[p].state = "unsent" }
  PROVE  RunLoop(SendLoop(new), Pkts, s) \in From(s)
<1> DEFINE I == [i \in 0 .. Pkts |->
                   { t \in From(s) : \A p \in i + 1 .. Pkts : t.sent[p] = s.sent[p] }]
<1>1. s \in I[0]
  BY FollowsSame, PktsNat DEF From
<1>2. \A i \in 1 .. Pkts : \A y \in I[i - 1] : SendLoop(new)[i][y] \in I[i]
  <2> TAKE i \in 1 .. Pkts
  <2> TAKE y \in I[i - 1]
  <2>0. i \in Packets /\ i - 1 \in 0 .. Pkts /\ i \in 0 .. Pkts /\ Pkts \in Nat
    BY PktsNat
  <2>1. y \in Sound /\ y \in Handling /\ Follows(s, y) /\ y \in From(s)
        /\ \A p \in i .. Pkts : y.sent[p] = s.sent[p]
    BY <2>0 DEF From, Sound
  <2>2. SendLoop(new)[i][y] = IF i \in new THEN Transmit(y, i) ELSE y
    BY <2>0, <2>1 DEF SendLoop
  <2>3. CASE i \notin new
    BY <2>0, <2>1, <2>2, <2>3
  <2>4. CASE i \in new
    <3> DEFINE z == Transmit(y, i)
    <3>1. y.sent[i].state = "unsent"
      BY <2>0, <2>1, <2>4
    <3>2. z \in Sound /\ Follows(y, z)
      BY <2>0, <2>1, <3>1, TransmitFollows
    <3>3. \A p \in i + 1 .. Pkts : z.sent[p] = s.sent[p]
      <4>1. z.sent = [y.sent EXCEPT ![i] = Sending] /\ y.sent \in [Packets -> Entry]
        BY <2>1 DEF Transmit, Sending, Handling
      <4>2. \A p \in i + 1 .. Pkts : p \in Packets /\ p # i /\ p \in i .. Pkts
        BY <2>0, PktsNat
      <4> HIDE DEF z
      <4> QED BY <2>1, <4>1, <4>2
    <3> HIDE DEF z
    <3>4. z \in From(s)
      BY <2>1, <3>2, FollowsOn DEF From
    <3>5. SendLoop(new)[i][y] = z
      BY <2>2, <2>4 DEF z
    <3> QED BY <2>0, <3>3, <3>4, <3>5
  <2> QED BY <2>3, <2>4
<1>3. RunLoop(SendLoop(new), Pkts, s) \in I[Pkts]
  <2> HIDE DEF I
  <2> QED BY <1>1, <1>2, PktsNat, LoopRounds
<1> QED BY <1>3, PktsNat

LEMMA SendPacketsFollows ==
  ASSUME NEW s \in Sound, now \in Nat
  PROVE  SendPackets(s) \in Sound /\ Follows(s, SendPackets(s))
<1> DEFINE t == IF s.cc.rtxPending THEN RetransmitPacket(s) ELSE s
           unsent == { p \in Packets : t.sent[p].state = "unsent" }
           room == Max({0, (t.cc.cwnd - t.cc.unacked) \div Mss})
           new == { p \in unsent : p < Min(unsent) + room }
           u == RunLoop(SendLoop(new), Pkts, t)
<1>1. t \in Sound /\ Follows(s, t)
  BY RetransmitPacketFollows, FollowsSame
<1>2. new \subseteq { p \in Packets : t.sent[p].state = "unsent" }
  OBVIOUS
<1>3. SendPackets(s) = u
  BY DEF SendPackets
<1> HIDE DEF t, new
<1>4. u \in From(t)
  BY <1>1, <1>2, SendLoopFollows
<1> HIDE DEF u
<1> QED BY <1>1, <1>3, <1>4, FollowsOn DEF From

-----------------------------------------------------------------------------
(* What an ACK does to the fields of the control: quick adapt, the ACK by  *)
(* itself, and the epoch that may end with it.                             *)

\* Quick adapt has cut the window of c to what its period delivered.
Delivered(c) == (96 * c.qaBytes) \div 100

Cut(c, d) ==
  /\ c.qaOn /\ ~d.qaOn /\ now >= c.qaEnd
  /\ d.counter = Delivered(c) /\ ~d.epochOn /\ d.epochEnd = now
  /\ d.qaBytes = 0
  /\ c.ewmaIsNumber => d.ewmaIsNumber

\* It has not: at most a period of measurement begins.
Uncut(c, d) ==
  /\ c.qaOn => d.qaOn
  /\ d.qaOn => (c.qaOn /\ d.qaEnd = c.qaEnd) \/ d.qaEnd = now + TargetRtt
  /\ d.qaBytes \in {c.qaBytes, 0}
  /\ d.counter = c.counter
  /\ c.epochOn <=> d.epochOn

\* The row of good epochs goes on or ends.
Rounds(c, d) ==
  /\ c.goodEpochs <= c.fastRounds => d.goodEpochs <= d.fastRounds
  /\ options.type = "aimd" /\ c.goodEpochs = c.fastRounds => d.goodEpochs = d.fastRounds

LEMMA WindowAndCounter ==
  ASSUME NEW r \in Fields, NEW w \in Int
  PROVE  LET e == [r EXCEPT !.cwnd = w, !.counter = w]
         IN  /\ e \in Fields /\ e.cwnd = w /\ e.counter = w
             /\ e.epochEnd = r.epochEnd /\ e.goodEpochs = r.goodEpochs
             /\ e.fastRounds = r.fastRounds /\ e.ewmaIsNumber = r.ewmaIsNumber
BY DEF Fields

LEMMA QuickAdaptFields ==
  ASSUME NEW c \in Good, NEW d, d = QuickAdapt(c), now \in Nat
  PROVE  /\ d \in Fields /\ d.cwnd = Delivered(c) /\ d.counter = Delivered(c)
         /\ Delivered(c) \in Nat
         /\ d.epochOn = FALSE /\ d.qaOn = FALSE /\ d.epochEnd = now
         /\ d.goodEpochs = 0 /\ d.fastRounds = 0
         /\ d.ewmaIsNumber = c.ewmaIsNumber
<1> DEFINE w == Delivered(c)
           u == Uncounted(c)
           r == ResetEpoch(u)
<1>1. c \in Fields /\ c.qaBytes \in Nat
  BY DEF Good, Fields
<1>2. w \in Nat
  BY <1>1 DEF Delivered
<1>3. u \in Fields /\ u.goodEpochs = 0 /\ u.fastRounds = 0 /\ u.ewmaIsNumber = c.ewmaIsNumber
  BY <1>1 DEF Uncounted, Fields
<1>4. d = [[r EXCEPT !.cwnd = w, !.counter = w]
             EXCEPT !.epochOn = FALSE, !.qaOn = FALSE, !.qaEnd = now]
  BY DEF QuickAdapt, Delivered
<1> HIDE DEF u
<1>5. r \in Fields /\ r.goodEpochs = u.goodEpochs /\ r.fastRounds = u.fastRounds
      /\ r.ewmaIsNumber = u.ewmaIsNumber /\ r.epochEnd = now
  BY <1>3 DEF ResetEpoch, Fields
<1> HIDE DEF w, r
<1> DEFINE e == [r EXCEPT !.cwnd = w, !.counter = w]
<1>7. e \in Fields /\ e.cwnd = w /\ e.counter = w
      /\ e.epochEnd = r.epochEnd /\ e.goodEpochs = r.goodEpochs
      /\ e.fastRounds = r.fastRounds /\ e.ewmaIsNumber = r.ewmaIsNumber
  <2>1. w \in Int
    BY <1>2
  <2> QED BY <2>1, <1>5, WindowAndCounter
<1>8. d = [e EXCEPT !.epochOn = FALSE, !.qaOn = FALSE, !.qaEnd = now]
  BY <1>4
<1> HIDE DEF e
<1>6. d \in Fields /\ d.cwnd = w /\ d.counter = w /\ d.epochOn = FALSE /\ d.qaOn = FALSE
      /\ d.epochEnd = r.epochEnd /\ d.goodEpochs = r.goodEpochs
      /\ d.fastRounds = r.fastRounds /\ d.ewmaIsNumber = r.ewmaIsNumber
  BY <1>7, <1>8 DEF Fields
<1> QED BY <1>2, <1>3, <1>5, <1>6 DEF w

(* The end of a period of measurement.                                     *)
LEMMA QaPeriodEndsCases ==
  ASSUME NEW c \in Good, NEW rtt \in Nat, now \in Nat, c.qaOn, now >= c.qaEnd,
         NEW d, d = QaPeriodEnds(c, rtt)
  PROVE  /\ d \in Good
         /\ Rounds(c, d)
         /\ \/ /\ Cut(c, d) /\ d.cwnd = Limit(Delivered(c))
               /\ d.goodEpochs = 0 /\ d.fastRounds = 0
            \/ /\ Uncut(c, d)
               /\ d.epochEnd = c.epochEnd /\ d.epochBytes = c.epochBytes
               /\ d.ewmaIsNumber = c.ewmaIsNumber
<1>1. c \in Fields /\ c.cwnd \in Mss .. MaxCwnd /\ TargetRtt \in Nat
  BY ControlAssumption DEF Good
<1>2. CASE QaTriggered(c, rtt)
  <2> DEFINE q == QuickAdapt(c)
             z == [q EXCEPT !.qaBytes = 0]
  <2>1. /\ q \in Fields /\ q.cwnd = Delivered(c) /\ q.counter = Delivered(c)
        /\ q.epochOn = FALSE /\ q.qaOn = FALSE /\ q.epochEnd = now
        /\ q.goodEpochs = 0 /\ q.fastRounds = 0
        /\ q.ewmaIsNumber = c.ewmaIsNumber
    BY QuickAdaptFields
  <2> HIDE DEF q
  <2>2. /\ z \in Fields /\ z.cwnd = q.cwnd /\ z.counter = q.counter /\ z.epochOn = q.epochOn
        /\ z.qaOn = q.qaOn /\ z.epochEnd = q.epochEnd /\ z.qaBytes = 0
        /\ z.goodEpochs = q.goodEpochs /\ z.fastRounds = q.fastRounds
        /\ z.ewmaIsNumber = q.ewmaIsNumber
    BY <2>1 DEF Fields
  <2>3. d = CheckLimits(z)
    BY <1>2 DEF QaPeriodEnds, q
  <2> HIDE DEF z
  <2>4. d = [z EXCEPT !.cwnd = Limit(z.cwnd)] /\ d \in Good
    BY <2>2, <2>3, LimitsHold
  <2>5. /\ d.cwnd = Limit(z.cwnd) /\ d.counter = z.counter /\ d.epochOn = z.epochOn
        /\ d.qaOn = z.qaOn /\ d.epochEnd = z.epochEnd /\ d.qaBytes = 0
        /\ d.goodEpochs = 0 /\ d.fastRounds = 0
        /\ d.ewmaIsNumber = z.ewmaIsNumber
    BY <2>1, <2>2, <2>4 DEF Fields
  <2>6. d.epochOn = FALSE /\ d.qaOn = FALSE /\ d.ewmaIsNumber = c.ewmaIsNumber
        /\ d.cwnd = Limit(Delivered(c)) /\ d.counter = Delivered(c) /\ d.epochEnd = now
    BY <2>1, <2>2, <2>5, Zenon
  <2>7. Cut(c, d)
    BY <2>5, <2>6 DEF Cut
  <2>8. Rounds(c, d)
    BY <2>5 DEF Rounds
  <2> QED BY <2>4, <2>5, <2>6, <2>7, <2>8
<1>3. CASE ~QaTriggered(c, rtt)
  <2> DEFINE z == [c EXCEPT !.qaEnd = now + TargetRtt, !.qaBytes = 0]
  <2>1. now + TargetRtt \in Nat
    BY <1>1
  <2>2. z \in Fields /\ z.cwnd = c.cwnd /\ z.qaEnd = now + TargetRtt /\ z.qaBytes = 0
        /\ z.counter = c.counter /\ z.epochOn = c.epochOn /\ z.qaOn = c.qaOn
        /\ z.epochEnd = c.epochEnd /\ z.epochBytes = c.epochBytes
        /\ z.goodEpochs = c.goodEpochs /\ z.fastRounds = c.fastRounds
        /\ z.ewmaIsNumber = c.ewmaIsNumber
    BY <1>1, <2>1 DEF Fields
  <2>3. [[c EXCEPT !.qaEnd = now + TargetRtt] EXCEPT !.qaBytes = 0] = z
    BY <1>1 DEF Fields
  <2>4. d = CheckLimits(z)
    BY <1>3, <2>3 DEF QaPeriodEnds
  <2> HIDE DEF z
  <2>5. z \in Good
    BY <1>1, <2>2 DEF Good
  <2>6. d = z
    BY <2>4, <2>5, GoodKeepsLimits
  <2>7. Uncut(c, d)
    BY <2>2, <2>6, Zenon DEF Uncut
  <2>8. Rounds(c, d)
    BY <2>2, <2>6 DEF Rounds
  <2> QED BY <2>2, <2>5, <2>6, <2>7, <2>8
<1> QED BY <1>2, <1>3

(* The part of adjust_window_aimd that is about quick adapt.               *)
LEMMA QaStepCases ==
  ASSUME NEW c \in Good, NEW ackedAt, NEW rtt \in Nat, now \in Nat,
         NEW d, d = QaStep(c, ackedAt, rtt)
  PROVE  /\ d \in Good
         /\ Rounds(c, d)
         /\ \/ /\ Cut(c, d) /\ d.cwnd = Limit(Delivered(c))
               /\ d.goodEpochs = 0 /\ d.fastRounds = 0
            \/ /\ Uncut(c, d)
               /\ d.epochEnd = c.epochEnd /\ d.epochBytes = c.epochBytes
               /\ d.ewmaIsNumber = c.ewmaIsNumber
<1>1. c \in Fields /\ c.cwnd \in Mss .. MaxCwnd /\ TargetRtt \in Nat
  BY ControlAssumption DEF Good
<1>2. CASE d = c
  BY <1>1, <1>2 DEF Uncut, Rounds
<1>3. CASE ~c.qaOn /\ d = [c EXCEPT !.qaOn = TRUE, !.qaEnd = now + TargetRtt]
  <2>1. now + TargetRtt \in Nat
    BY <1>1
  <2> DEFINE z == [c EXCEPT !.qaOn = TRUE, !.qaEnd = now + TargetRtt]
  <2>2. z \in Fields /\ z.cwnd = c.cwnd /\ z.qaEnd = now + TargetRtt /\ z.qaBytes = c.qaBytes
        /\ z.counter = c.counter /\ z.epochOn = c.epochOn /\ z.qaOn = TRUE
        /\ z.epochEnd = c.epochEnd /\ z.epochBytes = c.epochBytes
        /\ z.goodEpochs = c.goodEpochs /\ z.fastRounds = c.fastRounds
        /\ z.ewmaIsNumber = c.ewmaIsNumber
    BY <1>1, <2>1 DEF Fields
  <2> HIDE DEF z
  <2>3. d = z
    BY <1>3 DEF z
  <2>4. Uncut(c, d)
    BY <1>3, <2>2, <2>3, Zenon DEF Uncut
  <2>5. Rounds(c, d) /\ d \in Good
    BY <1>1, <2>2, <2>3 DEF Rounds, Good
  <2> QED BY <2>2, <2>3, <2>4, <2>5
<1>4. CASE c.qaOn /\ now >= c.qaEnd /\ d = QaPeriodEnds(c, rtt)
  BY <1>4, QaPeriodEndsCases
<1>5. c.qaOn \in BOOLEAN
  BY <1>1 DEF Fields
<1>6. \/ d = c
      \/ ~c.qaOn /\ d = [c EXCEPT !.qaOn = TRUE, !.qaEnd = now + TargetRtt]
      \/ c.qaOn /\ now >= c.qaEnd /\ d = QaPeriodEnds(c, rtt)
  BY <1>5, Zenon DEF QaStep
<1> QED BY <1>2, <1>3, <1>4, <1>6

\* The window before check_limits_cwnd has cut it.
Open == { c \in Fields : c.cwnd >= Mss }

LEMMA GoodIsOpen == Good \subseteq Open
BY ControlAssumption DEF Good, Open, Mss

(* additive_increase never lowers the window.                              *)
LEMMA AdditiveIncreaseGrows ==
  ASSUME NEW c \in Open, NEW bytes \in Nat
  PROVE  \E w \in Nat :
           /\ AdditiveIncrease(c, bytes) = [c EXCEPT !.cwnd = w]
           /\ w >= c.cwnd
           /\ c.fastRounds = 0 => w \in {c.cwnd, c.cwnd + (AiBytes * bytes) \div c.cwnd}
<1> DEFINE step == (AiBytes * bytes) \div c.cwnd
           times == IF options.useFi /\ c.goodEpochs >= FiThreshold THEN c.fastRounds ELSE 1
           w == c.cwnd + step * times
<1>1. c \in Fields /\ c.cwnd \in Nat \ {0} /\ AiBytes \in Nat
  BY ControlAssumption DEF Open, Fields, Mss
<1>2. step \in Nat
  BY <1>1, ProductNat, QuotientNat
<1>3. times \in Nat /\ (c.fastRounds = 0 => times \in {0, 1})
  BY <1>1 DEF Fields
<1>4. AdditiveIncrease(c, bytes) = [c EXCEPT !.cwnd = w]
  BY DEF AdditiveIncrease
<1> HIDE DEF step, times
<1>5. step * times \in Nat
  BY <1>2, <1>3, ProductNat
<1>6. c.fastRounds = 0 => step * times \in {0, step}
  BY <1>2, <1>3
<1>7. w \in Nat /\ w >= c.cwnd
  BY <1>1, <1>5
<1>8. c.fastRounds = 0 => w \in {c.cwnd, c.cwnd + step}
  BY <1>1, <1>2, <1>6
<1> HIDE DEF w
<1> QED BY <1>4, <1>7, <1>8 DEF step

\* d has what c has, but for the window and the row of good epochs.
Same(c, d) ==
  /\ c.qaOn <=> d.qaOn
  /\ c.epochOn <=> d.epochOn
  /\ c.ewmaIsNumber <=> d.ewmaIsNumber
  /\ d.qaEnd = c.qaEnd /\ d.qaBytes = c.qaBytes /\ d.counter = c.counter
  /\ d.epochEnd = c.epochEnd /\ d.epochBytes = c.epochBytes

LEMMA SameBut ==
  ASSUME NEW c \in Fields, NEW w \in Int
  PROVE  LET d == [c EXCEPT !.cwnd = w]
         IN  /\ d \in Fields /\ d.cwnd = w /\ Same(c, d)
             /\ d.goodEpochs = c.goodEpochs /\ d.fastRounds = c.fastRounds
<1> DEFINE d == [c EXCEPT !.cwnd = w]
<1>1. d \in Fields /\ d.cwnd = w /\ d.goodEpochs = c.goodEpochs /\ d.fastRounds = c.fastRounds
  BY DEF Fields
<1>2. /\ d.qaOn = c.qaOn /\ d.epochOn = c.epochOn /\ d.ewmaIsNumber = c.ewmaIsNumber
      /\ d.qaEnd = c.qaEnd /\ d.qaBytes = c.qaBytes /\ d.counter = c.counter
      /\ d.epochEnd = c.epochEnd /\ d.epochBytes = c.epochBytes
  BY DEF Fields
<1>3. Same(c, d)
  <2> HIDE DEF d
  <2> QED BY <1>2, Zenon DEF Same
<1> QED BY <1>1, <1>3

WithRounds(c, g, f) == [c EXCEPT !.goodEpochs = g, !.fastRounds = f]

LEMMA SameRounds ==
  ASSUME NEW c \in Fields, NEW g \in Nat, NEW f \in Nat
  PROVE  LET d == WithRounds(c, g, f)
         IN  /\ d \in Fields /\ d.cwnd = c.cwnd /\ Same(c, d)
             /\ d.goodEpochs = g /\ d.fastRounds = f
<1> USE DEF WithRounds
<1> DEFINE d == WithRounds(c, g, f)
<1>1. d \in Fields /\ d.cwnd = c.cwnd /\ d.goodEpochs = g /\ d.fastRounds = f
  BY DEF Fields
<1>2. /\ d.qaOn = c.qaOn /\ d.epochOn = c.epochOn /\ d.ewmaIsNumber = c.ewmaIsNumber
      /\ d.qaEnd = c.qaEnd /\ d.qaBytes = c.qaBytes /\ d.counter = c.counter
      /\ d.epochEnd = c.epochEnd /\ d.epochBytes = c.epochBytes
  BY DEF Fields
<1>3. Same(c, d)
  <2> HIDE DEF d
  <2> QED BY <1>2, Zenon DEF Same
<1> QED BY <1>1, <1>3

LEMMA SameOn ==
  ASSUME NEW c, NEW d, NEW e, Same(c, d), Same(d, e)
  PROVE  Same(c, e)
BY Zenon DEF Same

(* What an ACK does by itself.                                             *)
LEMMA AckStepCases ==
  ASSUME NEW c \in Good, NEW ecn, NEW rtt, NEW bytes \in Nat,
         NEW d, d = AckStep(c, ecn, rtt, bytes)
  PROVE  /\ d \in Fields /\ d.cwnd >= c.cwnd
         /\ Same(c, d) /\ Rounds(c, d)
         /\ c.fastRounds = 0 => d.cwnd \in {c.cwnd, c.cwnd + (AiBytes * bytes) \div c.cwnd}
<1>1. c \in Fields /\ c.cwnd \in Nat /\ c.goodEpochs \in Nat /\ c.fastRounds \in Nat
  BY DEF Good, Fields, Mss
<1>2. CASE d = c
  BY <1>1, <1>2 DEF Same, Rounds
<1>3. CASE d = AdditiveIncrease(c, bytes)
  <2>1. PICK w \in Nat : /\ d = [c EXCEPT !.cwnd = w]
                         /\ w >= c.cwnd
                         /\ c.fastRounds = 0 => w \in {c.cwnd, c.cwnd + (AiBytes * bytes) \div c.cwnd}
    BY <1>3, AdditiveIncreaseGrows, GoodIsOpen
  <2>2. w \in Int
    OBVIOUS
  <2>3. /\ d \in Fields /\ d.cwnd = w /\ Same(c, d)
        /\ d.goodEpochs = c.goodEpochs /\ d.fastRounds = c.fastRounds
    BY <1>1, <2>1, <2>2, SameBut
  <2> QED BY <2>1, <2>3 DEF Rounds
<1>4. CASE d = Uncounted(c)
  <2>1. d = WithRounds(c, 0, 0)
    BY <1>4 DEF Uncounted, WithRounds
  <2>2. d \in Fields
    BY <1>1, <2>1, SameRounds
  <2>3. Same(c, d)
    BY <1>1, <2>1, SameRounds
  <2>4. d.cwnd = c.cwnd /\ d.goodEpochs = 0 /\ d.fastRounds = 0
    BY <1>1, <2>1 DEF WithRounds, Fields
  <2> QED BY <1>1, <2>2, <2>3, <2>4 DEF Rounds
<1>5. CASE options.type # "aimd" /\ d = [c EXCEPT !.goodEpochs = 0]
  <2>1. d = WithRounds(c, 0, c.fastRounds)
    BY <1>1, <1>5 DEF Fields, WithRounds
  <2>2. d \in Fields
    BY <1>1, <2>1, SameRounds
  <2>3. Same(c, d)
    BY <1>1, <2>1, SameRounds
  <2>4. d.cwnd = c.cwnd /\ d.goodEpochs = 0
    BY <1>1, <2>1 DEF WithRounds, Fields
  <2> QED BY <1>1, <1>5, <2>2, <2>3, <2>4 DEF Rounds
<1>6. \/ d = c
      \/ d = AdditiveIncrease(c, bytes)
      \/ d = Uncounted(c)
      \/ options.type # "aimd" /\ d = [c EXCEPT !.goodEpochs = 0]
  BY Zenon DEF AckStep
<1> QED BY <1>2, <1>3, <1>4, <1>5, <1>6

(* The end of an epoch, congested or good: it ends the row of good epochs   *)
(* for both counters or makes both longer, and the next one begins later    *)
(* than at time 0.                                                         *)
LEMMA CongestedEpochCases ==
  ASSUME NEW c \in Open, NEW decrease \in Decreases, NEW d, d = CongestedEpoch(c, decrease)
  PROVE  d \in Fields /\ Same(c, d) /\ Rounds(c, d)
<1> DEFINE w == IF decrease.kind = "increase" THEN AdditiveIncrease(c, c.epochBytes)
                ELSE [c EXCEPT !.cwnd = (@ * decrease.percent) \div 100]
<1>1. c \in Fields /\ c.cwnd \in Nat /\ c.epochBytes \in Nat
  BY DEF Open, Fields, Mss
<1>2. w \in Fields /\ Same(c, w)
  <2>1. CASE decrease.kind = "increase"
    <3>1. PICK v \in Nat : AdditiveIncrease(c, c.epochBytes) = [c EXCEPT !.cwnd = v]
      BY <1>1, AdditiveIncreaseGrows
    <3>2. v \in Int
      OBVIOUS
    <3> QED BY <1>1, <2>1, <3>1, <3>2, SameBut
  <2>2. CASE decrease.kind # "increase"
    <3>1. decrease.percent \in Nat
      BY <2>2, ControlAssumption DEF Decreases
    <3> DEFINE v == (c.cwnd * decrease.percent) \div 100
    <3>2. v \in Int
      BY <1>1, <3>1, ProductNat, QuotientNat
    <3>3. w = [c EXCEPT !.cwnd = v]
      BY <2>2
    <3> HIDE DEF v, w
    <3> QED BY <1>1, <3>2, <3>3, SameBut
  <2> QED BY <2>1, <2>2
<1>3. d = WithRounds(w, 0, 0)
  BY DEF CongestedEpoch, Uncounted, WithRounds
<1> HIDE DEF w
<1>4. /\ d \in Fields /\ Same(w, d)
      /\ d.goodEpochs = 0 /\ d.fastRounds = 0
  BY <1>2, <1>3, SameRounds
<1> QED BY <1>2, <1>4, SameOn DEF Rounds

LEMMA GoodEpochCases ==
  ASSUME NEW c \in Open, NEW d, d = GoodEpoch(c)
  PROVE  d \in Fields /\ Same(c, d) /\ Rounds(c, d)
<1> DEFINE e == WithRounds(c, c.goodEpochs + 1, c.fastRounds + 1)
<1>1. c \in Fields /\ c.goodEpochs + 1 \in Nat /\ c.fastRounds + 1 \in Nat
      /\ c.cwnd >= Mss /\ c.goodEpochs \in Nat /\ c.fastRounds \in Nat
  BY DEF Open, Fields
<1>2. /\ e \in Fields /\ e.cwnd = c.cwnd /\ Same(c, e)
      /\ e.goodEpochs = c.goodEpochs + 1 /\ e.fastRounds = c.fastRounds + 1
  <2>1. e \in Fields
    BY <1>1, SameRounds
  <2>2. Same(c, e)
    BY <1>1, SameRounds
  <2>3. /\ e.cwnd = c.cwnd
        /\ e.goodEpochs = c.goodEpochs + 1 /\ e.fastRounds = c.fastRounds + 1
    BY <1>1 DEF WithRounds, Fields
  <2> QED BY <2>1, <2>2, <2>3
<1>3. d = IF options.aiPerEpoch THEN AdditiveIncrease(e, e.epochBytes) ELSE e
  BY DEF GoodEpoch, WithRounds
<1> HIDE DEF e
<1>4. Rounds(c, e) /\ e \in Open
  BY <1>1, <1>2 DEF Rounds, Open
<1>5. CASE ~options.aiPerEpoch
  BY <1>2, <1>3, <1>4, <1>5
<1>6. CASE options.aiPerEpoch
  <2>1. e.epochBytes \in Nat
    BY <1>2 DEF Fields
  <2>2. PICK v \in Nat : d = [e EXCEPT !.cwnd = v]
    BY <1>3, <1>4, <1>6, <2>1, AdditiveIncreaseGrows
  <2>3. v \in Int
    OBVIOUS
  <2>4. /\ d \in Fields /\ Same(e, d)
        /\ d.goodEpochs = e.goodEpochs /\ d.fastRounds = e.fastRounds
    BY <1>2, <2>2, <2>3, SameBut
  <2> QED BY <1>2, <1>4, <2>4, SameOn DEF Rounds
<1> QED BY <1>5, <1>6

\* d has what c has, but for the window, the row of good epochs, and what
\* belongs to the epoch.
Still(c, d) ==
  /\ c.qaOn <=> d.qaOn
  /\ c.epochOn <=> d.epochOn
  /\ d.qaEnd = c.qaEnd /\ d.qaBytes = c.qaBytes /\ d.counter = c.counter

(* processEpochEnd: an epoch that acknowledged some byte leaves the average *)
(* of the ECN fractions a number.                                          *)
LEMMA EpochEndsCases ==
  ASSUME NEW c \in Open, NEW rtt \in Nat \ {0}, NEW decrease \in Decreases,
         now \in Nat \ {0}, NEW d, d = EpochEnds(c, rtt, decrease)
  PROVE  /\ d \in Good
         /\ Still(c, d) /\ Rounds(c, d) /\ d.epochEnd > 0
         /\ c.ewmaIsNumber /\ c.epochBytes > 0 => d.ewmaIsNumber
<1> DEFINE congested == c.epochMarked \/ (options.useRtt /\ rtt > TargetRtt)
           x == IF congested THEN CongestedEpoch(c, decrease) ELSE GoodEpoch(c)
           l == CheckLimits(x)
           h == l.ewmaIsNumber /\ c.epochBytes > 0
           n == [l EXCEPT !.ewmaIsNumber = h]
           e == ResetEpoch(n)
<1>1. x \in Fields /\ Same(c, x) /\ Rounds(c, x)
  <2>1. CASE congested
    BY <2>1, CongestedEpochCases
  <2>2. CASE ~congested
    BY <2>2, GoodEpochCases
  <2> QED BY <2>1, <2>2
<1>2. d = IF options.epochs = "short" THEN [e EXCEPT !.epochEnd = c.epochEnd + rtt] ELSE e
  BY DEF EpochEnds
<1> HIDE DEF x
<1>3. l \in Good /\ Same(x, l) /\ l.goodEpochs = x.goodEpochs /\ l.fastRounds = x.fastRounds
  <2>1. l = [x EXCEPT !.cwnd = Limit(x.cwnd)] /\ l \in Good /\ Limit(x.cwnd) \in Int
    BY <1>1, LimitsHold, ControlAssumption DEF Mss
  <2> HIDE DEF l
  <2>2. PICK w \in Int : l = [x EXCEPT !.cwnd = w]
    BY <2>1
  <2> QED BY <1>1, <2>1, <2>2, SameBut
<1>4. Same(c, l) /\ Rounds(c, l)
  BY <1>1, <1>3, SameOn DEF Rounds
<1> HIDE DEF l
<1>5. h \in BOOLEAN
  OBVIOUS
<1> HIDE DEF h
<1>6. n \in Good /\ n.ewmaIsNumber = h /\ n.goodEpochs = l.goodEpochs /\ n.fastRounds = l.fastRounds
      /\ n.qaOn = l.qaOn /\ n.epochOn = l.epochOn /\ n.qaEnd = l.qaEnd
      /\ n.qaBytes = l.qaBytes /\ n.counter = l.counter
  BY <1>3, <1>5 DEF Good, Fields
<1> HIDE DEF n
<1>7. e \in Good /\ e.ewmaIsNumber = n.ewmaIsNumber /\ e.goodEpochs = n.goodEpochs
      /\ e.fastRounds = n.fastRounds /\ e.qaOn = n.qaOn /\ e.epochOn = n.epochOn
      /\ e.qaEnd = n.qaEnd /\ e.qaBytes = n.qaBytes /\ e.counter = n.counter
      /\ e.epochEnd = now
  BY <1>6 DEF ResetEpoch, Good, Fields
<1> HIDE DEF e
<1>8. d \in Good /\ d.ewmaIsNumber = e.ewmaIsNumber /\ d.goodEpochs = e.goodEpochs
      /\ d.fastRounds = e.fastRounds /\ d.qaOn = e.qaOn /\ d.epochOn = e.epochOn
      /\ d.qaEnd = e.qaEnd /\ d.qaBytes = e.qaBytes /\ d.counter = e.counter
      /\ d.epochEnd > 0
  <2>1. CASE options.epochs # "short"
    BY <1>2, <1>7, <2>1
  <2>2. CASE options.epochs = "short"
    <3>1. d = [e EXCEPT !.epochEnd = c.epochEnd + rtt]
      BY <1>2, <2>2
    <3>2. PICK t \in Nat \ {0} : t = c.epochEnd + rtt
      BY DEF Open, Fields
    <3>3. d = [e EXCEPT !.epochEnd = t]
      BY <3>1, <3>2
    <3> QED BY <1>7, <3>3 DEF Good, Fields
  <2> QED BY <2>1, <2>2
<1>9. Still(c, d)
  BY <1>4, <1>6, <1>7, <1>8, Zenon DEF Still, Same
<1>10. Rounds(c, d)
  BY <1>4, <1>6, <1>7, <1>8 DEF Rounds
<1>11. c.ewmaIsNumber /\ c.epochBytes > 0 => d.ewmaIsNumber
  <2>1. d.ewmaIsNumber <=> h
    BY <1>6, <1>7, <1>8, Zenon
  <2> QED BY <1>4, <2>1, Zenon DEF Same, h
<1> QED BY <1>8, <1>9, <1>10, <1>11

(* adjust_window: either quick adapt cuts the window, or everything but the *)
(* window and the epoch stays.  In the first case no epoch is on that could *)
(* end, and all the window can still do is grow by the ACK's increase.     *)
LEMMA AdjustWindowCases ==
  ASSUME NEW c \in Good, NEW ecn, NEW rtt \in Nat \ {0}, NEW bytes \in Nat,
         NEW ackedAt, NEW decrease \in Decreases, now \in Nat \ {0},
         NEW r, r = AdjustWindow(c, ecn, rtt, bytes, ackedAt, decrease)
  PROVE  /\ r \in Good
         /\ Rounds(c, r)
         /\ \/ /\ Cut(c, r)
               /\ LET w == Limit(Delivered(c))
                  IN  r.cwnd \in {w, Limit(w + (AiBytes * bytes) \div w)}
            \/ /\ Uncut(c, r)
               /\ \/ /\ r.epochEnd = c.epochEnd /\ r.epochBytes = c.epochBytes
                     /\ c.ewmaIsNumber => r.ewmaIsNumber
                  \/ /\ c.epochOn /\ ackedAt >= c.epochEnd /\ r.epochEnd > 0
                     /\ c.ewmaIsNumber /\ c.epochBytes > 0 => r.ewmaIsNumber
<1> DEFINE q == QaStep(c, ackedAt, rtt)
           a == AckStep(q, ecn, rtt, bytes)
           e == EpochStep(a, ackedAt, rtt, decrease)
<1>1. /\ q \in Good /\ Rounds(c, q)
      /\ \/ /\ Cut(c, q) /\ q.cwnd = Limit(Delivered(c))
            /\ q.goodEpochs = 0 /\ q.fastRounds = 0
         \/ /\ Uncut(c, q)
            /\ q.epochEnd = c.epochEnd /\ q.epochBytes = c.epochBytes
            /\ q.ewmaIsNumber = c.ewmaIsNumber
  BY QaStepCases
<1>2. r = CheckLimits(e)
  BY DEF AdjustWindow
<1> HIDE DEF q
<1>3. /\ a \in Fields /\ a.cwnd >= q.cwnd /\ Same(q, a) /\ Rounds(q, a)
      /\ q.fastRounds = 0 => a.cwnd \in {q.cwnd, q.cwnd + (AiBytes * bytes) \div q.cwnd}
  BY <1>1, AckStepCases
<1> HIDE DEF a
<1>4. a \in Open
  BY <1>1, <1>3, ControlAssumption DEF Good, Open, Fields, Mss
<1>5. e = IF a.epochOn /\ ackedAt >= a.epochEnd THEN EpochEnds(a, rtt, decrease) ELSE a
  BY DEF EpochStep
<1>6. Rounds(c, a)
  BY <1>1, <1>3 DEF Rounds
<1>7. CASE ~(a.epochOn /\ ackedAt >= a.epochEnd)
  <2>1. r = [a EXCEPT !.cwnd = Limit(a.cwnd)] /\ r \in Good /\ Limit(a.cwnd) \in Int
    BY <1>2, <1>3, <1>5, <1>7, LimitsHold, ControlAssumption DEF Mss
  <2>2. PICK w \in Int : r = [a EXCEPT !.cwnd = w] /\ w = Limit(a.cwnd)
    BY <2>1
  <2>3. Same(a, r) /\ r.goodEpochs = a.goodEpochs /\ r.fastRounds = a.fastRounds /\ r.cwnd = w
    BY <1>3, <2>2, SameBut
  <2>4. Same(q, r)
    BY <1>3, <2>3, SameOn
  <2>5. Rounds(c, r)
    BY <1>6, <2>3 DEF Rounds
  <2>6. CASE /\ Cut(c, q) /\ q.cwnd = Limit(Delivered(c))
             /\ q.goodEpochs = 0 /\ q.fastRounds = 0
    <3>1. Cut(c, r)
      BY <2>4, <2>6, Zenon DEF Same, Cut
    <3> DEFINE v == Limit(Delivered(c))
    <3>2. a.cwnd \in {v, v + (AiBytes * bytes) \div v}
      BY <1>3, <2>6
    <3>3. Limit(v) = v
      <4>1. v \in Mss .. MaxCwnd
        BY <1>1, <2>6 DEF Good
      <4> HIDE DEF v
      <4> QED BY <4>1, ControlAssumption DEF Limit, Mss
    <3> HIDE DEF v
    <3>4. r.cwnd \in {v, Limit(v + (AiBytes * bytes) \div v)}
      BY <2>2, <2>3, <3>2, <3>3
    <3> QED BY <2>1, <2>5, <3>1, <3>4 DEF v
  <2>7. CASE /\ Uncut(c, q)
             /\ q.epochEnd = c.epochEnd /\ q.epochBytes = c.epochBytes
             /\ q.ewmaIsNumber = c.ewmaIsNumber
    <3>1. Uncut(c, r) /\ r.epochEnd = c.epochEnd /\ r.epochBytes = c.epochBytes
          /\ (c.ewmaIsNumber => r.ewmaIsNumber)
      BY <2>4, <2>7, Zenon DEF Same, Uncut
    <3> QED BY <2>1, <2>5, <3>1
  <2> QED BY <1>1, <2>6, <2>7
<1>8. CASE a.epochOn /\ ackedAt >= a.epochEnd
  <2>1. /\ e \in Good /\ Still(a, e) /\ Rounds(a, e) /\ e.epochEnd > 0
        /\ a.ewmaIsNumber /\ a.epochBytes > 0 => e.ewmaIsNumber
    BY <1>4, <1>5, <1>8, EpochEndsCases
  <2> HIDE DEF e
  <2>2. r = e
    BY <1>2, <2>1, GoodKeepsLimits
  <2>3. Rounds(c, r)
    BY <1>6, <2>1, <2>2 DEF Rounds
  <2>4. ~Cut(c, q)
    BY <1>3, <1>8, Zenon DEF Same, Cut
  <2>5. /\ Uncut(c, q)
        /\ q.epochEnd = c.epochEnd /\ q.epochBytes = c.epochBytes
        /\ q.ewmaIsNumber = c.ewmaIsNumber
    BY <1>1, <2>4
  <2>6. Uncut(c, r)
    BY <1>3, <2>1, <2>2, <2>5, Zenon DEF Same, Still, Uncut
  <2>7. c.epochOn /\ a.epochEnd = c.epochEnd /\ a.epochBytes = c.epochBytes
        /\ (a.ewmaIsNumber <=> c.ewmaIsNumber)
    BY <1>3, <1>8, <2>5, Zenon DEF Same, Uncut
  <2>8. c.ewmaIsNumber /\ c.epochBytes > 0 => r.ewmaIsNumber
    BY <2>1, <2>2, <2>7, Zenon
  <2> QED BY <1>8, <2>1, <2>2, <2>3, <2>6, <2>7, <2>8
<1> QED BY <1>7, <1>8

-----------------------------------------------------------------------------
(* The inductive invariant.  EpochsLostOnlyWhenStarved needs that bytes are *)
(* counted by the packet, so that a period that delivers anything leaves a *)
(* positive countdown; EwmaIsNumber that an epoch which began at time 0    *)
(* and has counted nothing saw no packet acknowledged; QaCutsApart that a  *)
(* measurement ends a period after the last cut.                           *)

Whole == { Mss * k : k \in Nat }

AckedIn(st) == { p \in Packets : st[p].state = "acked" }

Fit(c, st, last) ==
  /\ c \in Good
  /\ c.goodEpochs <= c.fastRounds
  /\ options.type = "aimd" => c.goodEpochs = c.fastRounds
  /\ c.epochOn \/ c.counter > 0 \/ last.starved
  /\ c.ewmaIsNumber
  /\ c.qaBytes \in Whole
  /\ c.epochOn /\ c.epochEnd = 0 /\ c.epochBytes = 0 => AckedIn(st) = {}
  /\ c.qaOn => c.qaEnd >= last.at + TargetRtt

IInv ==
  /\ TypeOK
  /\ Fit(cc, sent, lastQa)
  /\ Acked # {} => now > 0
  /\ lastQa \in [at : Int, starved : BOOLEAN] /\ lastQa.at <= now

LEMMA WholeSum ==
  ASSUME NEW a \in Whole, NEW b \in Whole
  PROVE  a \in Nat /\ a + b \in Whole /\ 0 \in Whole
<1>1. PICK k \in Nat, l \in Nat : a = Mss * k /\ b = Mss * l
  BY DEF Whole
<1>2. a + b = Mss * (k + l) /\ k + l \in Nat /\ 0 = Mss * 0 /\ a \in Nat
  BY <1>1 DEF Mss
<1> QED BY <1>2 DEF Whole

(* A period that delivers anything leaves a countdown.                     *)
LEMMA DeliveredPositive ==
  ASSUME NEW c \in Fields, c.qaBytes \in Whole, c.qaBytes # 0
  PROVE  Delivered(c) > 0
<1>1. PICK k \in Nat : c.qaBytes = Mss * k
  BY DEF Whole
<1> QED BY <1>1 DEF Delivered, Mss

(* Sending, and whatever else only carries the fields on, keeps Fit.       *)
LEMMA FitCarried ==
  ASSUME NEW c, NEW st, NEW last, NEW d \in Good, NEW st2,
         Fit(c, st, last), Carried(c, d), AckedIn(st2) = AckedIn(st),
         AckedIn(st) = {} \/ now > 0, now \in Nat
  PROVE  Fit(d, st2, last)
<1>1. c \in Good /\ d.goodEpochs <= d.fastRounds
      /\ (options.type = "aimd" => d.goodEpochs = d.fastRounds)
  BY DEF Fit, Carried
<1>2. d.epochOn \/ d.counter > 0 \/ last.starved
  BY Zenon DEF Fit, Carried
<1>3. d.ewmaIsNumber
  BY Zenon DEF Fit, Carried
<1>4. d.qaBytes \in Whole
  BY DEF Fit, Carried
<1>5. d.epochOn /\ d.epochEnd = 0 /\ d.epochBytes = 0 => AckedIn(st2) = {}
  <2>1. CASE d.epochOn /\ d.epochEnd = now
    BY <2>1
  <2>2. CASE (c.epochOn <=> d.epochOn) /\ d.epochEnd = c.epochEnd /\ d.epochBytes = c.epochBytes
    BY <2>2, Zenon DEF Fit
  <2> QED BY <2>1, <2>2 DEF Carried
<1>6. d.qaOn => d.qaEnd >= last.at + TargetRtt
  <2>1. (c.qaOn <=> d.qaOn) /\ d.qaEnd = c.qaEnd /\ (c.qaOn => c.qaEnd >= last.at + TargetRtt)
    BY Zenon DEF Fit, Carried
  <2> QED BY <2>1, Zenon
<1> QED BY <1>1, <1>2, <1>3, <1>4, <1>5, <1>6, Zenon DEF Fit

\* What processAck counts.
Counted(c, d, bytes) ==
  /\ d.cwnd = c.cwnd /\ d.counter = c.counter
  /\ c.qaOn <=> d.qaOn
  /\ c.epochOn <=> d.epochOn
  /\ c.ewmaIsNumber <=> d.ewmaIsNumber
  /\ d.goodEpochs = c.goodEpochs /\ d.fastRounds = c.fastRounds
  /\ d.qaEnd = c.qaEnd /\ d.qaBytes = c.qaBytes + IF c.qaOn THEN bytes ELSE 0
  /\ d.epochEnd = c.epochEnd /\ d.epochBytes = c.epochBytes + IF c.epochOn THEN bytes ELSE 0

LEMMA CountCases ==
  ASSUME NEW c \in Good, NEW g \in Nat, NEW ecn \in BOOLEAN, NEW bytes \in Nat
  PROVE  LET d == Count(ReduceUnacked(c, g), ecn, bytes)
         IN  d \in Good /\ Counted(c, d, bytes)
<1> DEFINE u == ReduceUnacked(c, g)
           d == Count(u, ecn, bytes)
<1>1. c \in Fields
  BY DEF Good
<1>2. u \in Fields /\ u = [c EXCEPT !.unacked = u.unacked]
  BY <1>1, ReduceUnackedFields
<1>3. PICK n \in Nat : u = [c EXCEPT !.unacked = n]
  BY <1>2 DEF Fields
<1> HIDE DEF u
<1>4. /\ u.cwnd = c.cwnd /\ u.counter = c.counter
      /\ u.qaOn = c.qaOn /\ u.epochOn = c.epochOn /\ u.ewmaIsNumber = c.ewmaIsNumber
      /\ u.goodEpochs = c.goodEpochs /\ u.fastRounds = c.fastRounds
      /\ u.qaEnd = c.qaEnd /\ u.qaBytes = c.qaBytes
      /\ u.epochEnd = c.epochEnd /\ u.epochBytes = c.epochBytes
  BY <1>1, <1>3 DEF Fields
<1> DEFINE eb == u.epochBytes + IF u.epochOn THEN bytes ELSE 0
           em == u.epochMarked \/ (u.epochOn /\ ecn /\ bytes > 0)
           qb == u.qaBytes + IF u.qaOn THEN bytes ELSE 0
<1>5. eb \in Nat /\ qb \in Nat
  BY <1>2 DEF Fields
<1>6. em \in BOOLEAN
  BY <1>2 DEF Fields
<1>7. d = [u EXCEPT !.epochBytes = eb, !.epochMarked = em, !.qaBytes = qb]
  BY DEF Count
<1> HIDE DEF eb, em, qb
<1>8. d \in Fields
  BY <1>2, <1>5, <1>6, <1>7 DEF Fields
<1>9. /\ d.cwnd = u.cwnd /\ d.counter = u.counter
      /\ d.qaOn = u.qaOn /\ d.epochOn = u.epochOn /\ d.ewmaIsNumber = u.ewmaIsNumber
      /\ d.goodEpochs = u.goodEpochs /\ d.fastRounds = u.fastRounds
      /\ d.qaEnd = u.qaEnd /\ d.qaBytes = qb
      /\ d.epochEnd = u.epochEnd /\ d.epochBytes = eb
  BY <1>2, <1>7 DEF Fields
<1>10. qb = c.qaBytes + (IF c.qaOn THEN bytes ELSE 0)
       /\ eb = c.epochBytes + (IF c.epochOn THEN bytes ELSE 0)
  BY <1>4, Zenon DEF qb, eb
<1> HIDE DEF d
<1>11. Counted(c, d, bytes)
  BY <1>4, <1>9, <1>10, Zenon DEF Counted
<1>12. d \in Good
  BY <1>4, <1>8, <1>9 DEF Good
<1> QED BY <1>11, <1>12 DEF d, u

(* What an ACK acknowledges anew: packets, none of them before, and among   *)
(* them its own unless that was.                                           *)
LEMMA NewlyAckedCases ==
  ASSUME NEW p \in Packets, NEW got
  PROVE  LET new == NewlyAcked(p, got)
         IN  /\ new \in SUBSET (Packets \ Acked)
             /\ p \notin Acked => p \in new
             /\ IsFiniteSet(new) /\ Cardinality(new) \in Nat
             /\ Mss * Cardinality(new) \in Whole
             /\ Mss * Cardinality(new) = 0 <=> new = {}
             /\ GivenBack(new) \in Nat
<1> DEFINE new == NewlyAcked(p, got)
<1>1. new \in SUBSET (Packets \ Acked) /\ (p \notin Acked => p \in new)
  BY DEF NewlyAcked
<1> HIDE DEF new
<1>2. IsFiniteSet(new)
  <2>1. IsFiniteSet(Packets)
    BY PktsNat, FS_Interval
  <2> QED BY <1>1, <2>1, FS_Subset
<1>3. Cardinality(new) \in Nat /\ (Cardinality(new) = 0 <=> new = {})
  BY <1>2, FS_CardinalityType, FS_EmptySet
<1>4. Mss * Cardinality(new) \in Whole /\ (Mss * Cardinality(new) = 0 <=> new = {})
  BY <1>3 DEF Whole, Mss
<1>5. Max({1, Cardinality(new)}) \in Nat
  BY <1>3, MaxOfTwo
<1>6. GivenBack(new) \in Nat
  BY <1>5 DEF GivenBack, Mss
<1> QED BY <1>1, <1>2, <1>3, <1>4, <1>6 DEF new

(* An ACK that acknowledges nothing comes with time 0.                     *)
LEMMA AckedAtNothing == AckedAt({}) = 0
<1>1. {0} \union { sent[p].at : p \in {} } = {0, 0}
  OBVIOUS
<1>2. Max({0, 0}) = 0
  BY MaxOfTwo
<1> QED BY <1>1, <1>2 DEF AckedAt

\* The state of the control after adjust_window, from what processAck counted.
Adjusted(c, r, bytes, ackedAt) ==
  /\ Rounds(c, r)
  /\ \/ /\ Cut(c, r)
        /\ LET w == Limit(Delivered(c))
           IN  r.cwnd \in {w, Limit(w + (AiBytes * bytes) \div w)}
     \/ /\ Uncut(c, r)
        /\ \/ /\ r.epochEnd = c.epochEnd /\ r.epochBytes = c.epochBytes
              /\ c.ewmaIsNumber => r.ewmaIsNumber
           \/ /\ c.epochOn /\ ackedAt >= c.epochEnd /\ r.epochEnd > 0
              /\ c.ewmaIsNumber /\ c.epochBytes > 0 => r.ewmaIsNumber

\* An ACK, step by step: it acknowledges new, processAck counts c,
\* adjust_window makes that d, and sending carries it on.
AckDoes(new, p, c, d) ==
  /\ p \notin Acked => new # {}
  /\ Mss * Cardinality(new) \in Whole
  /\ Mss * Cardinality(new) = 0 <=> new = {}
  /\ Counted(cc, c, Mss * Cardinality(new))
  /\ d = c \/ Adjusted(c, d, Mss * Cardinality(new), AckedAt(new))
  /\ Carried(d, cc')
  /\ sent' \in [Packets -> Entry]
  /\ AckedIn(sent') = Acked \union new
  /\ \/ cc'.cwnd = d.cwnd
     \/ \E q \in Packets : /\ sent[q].state = "flying" /\ sent'[q] # sent[q]
                           /\ Moved(sent[q], sent'[q])
  /\ network' \subseteq [pkt : Packets, at : 0 .. now]

(* Sending neither acknowledges a packet nor takes that back.               *)
LEMMA MovedAcked ==
  ASSUME NEW f \in [Packets -> Entry], NEW g,
         \A p \in Packets : Moved(f[p], g[p])
  PROVE  AckedIn(g) = AckedIn(f)
<1>1. ASSUME NEW p \in Packets
      PROVE  g[p].state = "acked" <=> f[p].state = "acked"
  <2>1. f[p] \in Entry /\ Moved(f[p], g[p])
    OBVIOUS
  <2>2. CASE g[p] = f[p]
    BY <2>2
  <2>3. CASE Expired(f[p]) /\ g[p] = [state |-> "timedOut", at |-> f[p].at]
    <3>1. g[p].state = "timedOut" /\ f[p].state = "flying"
      BY <2>3 DEF Expired
    <3> QED BY <3>1
  <2>4. CASE (f[p].state \in {"unsent", "timedOut"} \/ Expired(f[p])) /\ g[p] = Sending
    <3>1. g[p].state = "flying" /\ f[p].state # "acked"
      BY <2>4 DEF Expired, Sending
    <3> QED BY <3>1
  <2> QED BY <2>1, <2>2, <2>3, <2>4 DEF Moved
<1> QED BY <1>1 DEF AckedIn

LEMMA AckSteps ==
  ASSUME IInv, NEW m \in network, NEW ecn \in BOOLEAN, AckArrives(m, ecn)
  PROVE  /\ now \in Nat \ {0} /\ cc' \in Good
         /\ \E new \in SUBSET (Packets \ Acked), c \in Good, d \in Good :
              AckDoes(new, m.pkt, c, d)
<1> DEFINE new == NewlyAcked(m.pkt, rcvd \union {m.pkt})
           bytes == Mss * Cardinality(new)
           c == Count(ReduceUnacked(cc, GivenBack(new)), ecn, bytes)
           acked == [p \in Packets |-> IF p \in new THEN [sent[p] EXCEPT !.state = "acked"]
                                                    ELSE sent[p]]
<1>1. /\ now \in Nat /\ cc \in Good /\ sent \in [Packets -> Entry]
      /\ network \subseteq [pkt : Packets, at : 0 .. now]
  BY ControlAssumption DEF IInv, TypeOK, Good
<1>2. m.pkt \in Packets /\ m.at \in Nat /\ now >= m.at + BaseRtt
  <2>1. m \in [pkt : Packets, at : 0 .. now]
    BY <1>1
  <2>2. m.pkt \in Packets /\ m.at \in Nat
    BY <1>1, <2>1
  <2>3. now >= m.at + BaseRtt
    BY Zenon DEF AckArrives
  <2> QED BY <2>2, <2>3
<1>3. now \in Nat \ {0} /\ now - m.at \in Nat \ {0}
  BY <1>1, <1>2, ControlAssumption
<1>4. /\ new \in SUBSET (Packets \ Acked) /\ (m.pkt \notin Acked => new # {})
      /\ bytes \in Whole /\ (bytes = 0 <=> new = {}) /\ GivenBack(new) \in Nat
  BY <1>2, NewlyAckedCases
<1> HIDE DEF new
<1>5. bytes \in Nat
  BY <1>4, WholeSum
<1> HIDE DEF bytes
<1>6. c \in Good /\ Counted(cc, c, bytes)
  BY <1>1, <1>4, <1>5, CountCases
<1> HIDE DEF c
<1>7. /\ acked \in [Packets -> Entry]
      /\ \A p \in Packets \ new : acked[p] = sent[p]
      /\ \A p \in new : acked[p].state = "acked"
  BY <1>1, <1>4 DEF Entry
<1>8. AckedIn(acked) = Acked \union new
  BY <1>4, <1>7 DEF AckedIn, Acked
<1> HIDE DEF acked
<1>9. SUFFICES ASSUME TRUE
               PROVE cc' \in Good /\ \E d \in Good : AckDoes(new, m.pkt, c, d)
  BY <1>3, <1>4, <1>6, Zenon
<1>10. CASE cc' = c /\ sent' = acked /\ network' = network \ {m}
  <2>1. Carried(c, cc')
    BY <1>10, CarriedSame
  <2>2. AckDoes(new, m.pkt, c, c)
    BY <1>1, <1>4, <1>6, <1>7, <1>8, <1>10, <2>1 DEF AckDoes, bytes
  <2> QED BY <1>6, <1>10, <2>2
<1>11. ASSUME NEW decrease \in Decreases,
              NEW d, d = AdjustWindow(c, ecn, now - m.at, bytes, AckedAt(new), decrease),
              NEW s, s = SendPackets([cc |-> d, sent |-> acked, out |-> network \ {m}]),
              Become([s EXCEPT !.cc.wake = @ \/ s.cc.unacked < s.cc.cwnd]),
              network' = s.out
       PROVE  cc' \in Good /\ AckDoes(new, m.pkt, c, d) /\ d \in Good
  <2>1. d \in Good /\ Adjusted(c, d, bytes, AckedAt(new))
    BY <1>3, <1>5, <1>6, <1>11, AdjustWindowCases DEF Adjusted
  <2> DEFINE x == [cc |-> d, sent |-> acked, out |-> network \ {m}]
  <2>2. x \in Sound
    <3>1. network \ {m} \subseteq Copy
      BY <1>1 DEF Copy
    <3> QED BY <1>1, <1>7, <2>1, <3>1 DEF Sound, Handling, Good
  <2>3. s \in Sound /\ Follows(x, s)
    BY <1>1, <1>11, <2>2, SendPacketsFollows
  <2>4. /\ s.cc \in Good /\ s.sent \in [Packets -> Entry]
        /\ s.out \subseteq [pkt : Packets, at : 0 .. now]
    BY <2>3 DEF Sound, Handling, Good
  <2>5. /\ \A p \in Packets : Moved(acked[p], s.sent[p])
        /\ Carried(d, s.cc)
        /\ \/ s.cc.cwnd = d.cwnd
           \/ \E p \in Packets : acked[p].state = "flying" /\ s.sent[p] # acked[p]
    BY <2>3 DEF Follows
  <2>12. /\ cc' = [s.cc EXCEPT !.wake = s.cc.wake \/ s.cc.unacked < s.cc.cwnd]
         /\ sent' = s.sent
    <3>1. s \in Handling
      BY <2>3 DEF Sound
    <3> QED BY <1>11, <3>1 DEF Become, Handling
  <2>6. cc' \in Good /\ cc'.cwnd = s.cc.cwnd /\ Carried(s.cc, cc')
    <3>1. s.cc \in Fields
      BY <2>4 DEF Good
    <3> DEFINE h == s.cc.wake \/ s.cc.unacked < s.cc.cwnd
    <3>2. h \in BOOLEAN
      BY <3>1 DEF Fields
    <3> HIDE DEF h
    <3>3. cc' = [s.cc EXCEPT !.wake = h]
      BY <2>12 DEF h
    <3>4. cc' \in Fields /\ cc'.cwnd = s.cc.cwnd
      BY <3>1, <3>2, <3>3 DEF Fields
    <3>5. /\ cc'.ewmaIsNumber = s.cc.ewmaIsNumber /\ cc'.qaOn = s.cc.qaOn
          /\ cc'.qaEnd = s.cc.qaEnd /\ cc'.qaBytes = s.cc.qaBytes
          /\ cc'.counter = s.cc.counter /\ cc'.epochOn = s.cc.epochOn
          /\ cc'.epochEnd = s.cc.epochEnd /\ cc'.epochBytes = s.cc.epochBytes
          /\ cc'.goodEpochs = s.cc.goodEpochs /\ cc'.fastRounds = s.cc.fastRounds
      BY <3>1, <3>2, <3>3 DEF Fields
    <3>6. Carried(s.cc, cc')
      BY <3>5, Zenon DEF Carried
    <3> QED BY <2>4, <3>4, <3>6 DEF Good
  <2>7. Carried(d, cc')
    BY <2>5, <2>6, CarriedOn
  <2>8. AckedIn(sent') = AckedIn(acked)
    BY <1>7, <2>5, <2>12, MovedAcked
  <2>9. \/ cc'.cwnd = d.cwnd
        \/ \E q \in Packets : /\ sent[q].state = "flying" /\ sent'[q] # sent[q]
                              /\ Moved(sent[q], sent'[q])
    <3>1. CASE s.cc.cwnd = d.cwnd
      BY <2>6, <3>1
    <3>2. ASSUME NEW p \in Packets, acked[p].state = "flying", s.sent[p] # acked[p]
          PROVE  /\ sent[p].state = "flying" /\ sent'[p] # sent[p]
                 /\ Moved(sent[p], sent'[p])
      <4>1. acked[p] = sent[p]
        BY <1>7, <3>2
      <4> QED BY <2>5, <2>12, <3>2, <4>1
    <3> QED BY <2>5, <3>1, <3>2
  <2>10. sent' \in [Packets -> Entry] /\ network' \subseteq [pkt : Packets, at : 0 .. now]
    BY <1>11, <2>4, <2>12
  <2>11. AckDoes(new, m.pkt, c, d)
    BY <1>4, <1>6, <1>8, <2>1, <2>7, <2>8, <2>9, <2>10 DEF AckDoes, bytes
  <2> QED BY <2>1, <2>6, <2>11
<1>12. \/ cc' = c /\ sent' = acked /\ network' = network \ {m}
       \/ \E decrease \in Decreases :
            LET d == AdjustWindow(c, ecn, now - m.at, bytes, AckedAt(new), decrease)
                s == SendPackets([cc |-> d, sent |-> acked, out |-> network \ {m}])
            IN  /\ Become([s EXCEPT !.cc.wake = @ \/ s.cc.unacked < s.cc.cwnd])
                /\ network' = s.out
  <2>1. \/ Become([cc |-> c, sent |-> acked]) /\ network' = network \ {m}
        \/ \E decrease \in Decreases :
            LET d == AdjustWindow(c, ecn, now - m.at, bytes, AckedAt(new), decrease)
                s == SendPackets([cc |-> d, sent |-> acked, out |-> network \ {m}])
            IN  /\ Become([s EXCEPT !.cc.wake = @ \/ s.cc.unacked < s.cc.cwnd])
                /\ network' = s.out
    BY Zenon DEF AckArrives, new, bytes, c, acked
  <2>2. Become([cc |-> c, sent |-> acked]) => cc' = c /\ sent' = acked
    BY DEF Become
  <2> QED BY <2>1, <2>2
<1> QED BY <1>10, <1>11, <1>12, Zenon

LEMMA NewBytesCounted ==
  ASSUME NEW new \in SUBSET (Packets \ Acked), AckedIn(sent') = Acked \union new
  PROVE  NewBytes = Mss * Cardinality(new)
<1>1. { p \in Packets : sent[p].state # "acked" /\ sent'[p].state = "acked" } = new
  BY DEF AckedIn, Acked
<1> QED BY <1>1, Zenon DEF NewBytes

(* What processAck has counted still fits: an epoch that has counted       *)
(* nothing since time 0 has seen nothing acknowledged.                     *)
LEMMA CountFits ==
  ASSUME IInv, NEW new \in SUBSET (Packets \ Acked), NEW c \in Good,
         Mss * Cardinality(new) \in Whole, Mss * Cardinality(new) = 0 <=> new = {},
         Counted(cc, c, Mss * Cardinality(new)), AckedIn(sent') = Acked \union new
  PROVE  Fit(c, sent', lastQa)
<1> DEFINE bytes == Mss * Cardinality(new)
<1>1. bytes \in Whole /\ (bytes = 0 <=> new = {}) /\ Counted(cc, c, bytes)
  OBVIOUS
<1> HIDE DEF bytes
<1>2. Fit(cc, sent, lastQa) /\ cc \in Fields
  BY DEF IInv, TypeOK
<1>3. c.goodEpochs <= c.fastRounds
      /\ (options.type = "aimd" => c.goodEpochs = c.fastRounds)
  BY <1>1, <1>2 DEF Fit, Counted
<1>4. c.epochOn \/ c.counter > 0 \/ lastQa.starved
  <2>1. cc.epochOn \/ cc.counter > 0 \/ lastQa.starved
    BY <1>2 DEF Fit
  <2>2. c.counter = cc.counter /\ (cc.epochOn <=> c.epochOn)
    BY <1>1 DEF Counted
  <2> QED BY <2>1, <2>2, Zenon
<1>5. c.ewmaIsNumber
  BY <1>1, <1>2, Zenon DEF Fit, Counted
<1>6. c.qaBytes \in Whole
  <2>1. cc.qaBytes \in Whole /\ c.qaBytes = cc.qaBytes + IF cc.qaOn THEN bytes ELSE 0
    BY <1>1, <1>2 DEF Fit, Counted
  <2>2. cc.qaBytes + bytes \in Whole /\ cc.qaBytes \in Nat
    BY <1>1, <2>1, WholeSum
  <2> QED BY <2>1, <2>2
<1>7. ASSUME c.epochOn, c.epochEnd = 0, c.epochBytes = 0
      PROVE  AckedIn(sent') = {}
  <2>1. cc.epochOn /\ cc.epochEnd = 0
    BY <1>1, <1>7, Zenon DEF Counted
  <2>2. c.epochBytes = cc.epochBytes + bytes
    BY <1>1, <2>1 DEF Counted
  <2>3. bytes \in Nat /\ cc.epochBytes \in Nat
    BY <1>1, <1>2, WholeSum DEF Fields
  <2>4. cc.epochBytes = 0 /\ bytes = 0
    BY <1>7, <2>2, <2>3
  <2>5. AckedIn(sent) = {}
    BY <1>2, <2>1, <2>4 DEF Fit
  <2> QED BY <1>1, <2>4, <2>5 DEF AckedIn, Acked
<1>8. c.qaOn => c.qaEnd >= lastQa.at + TargetRtt
  <2>1. cc.qaOn => cc.qaEnd >= lastQa.at + TargetRtt
    BY <1>2 DEF Fit
  <2>2. c.qaEnd = cc.qaEnd /\ (cc.qaOn <=> c.qaOn)
    BY <1>1 DEF Counted
  <2> QED BY <2>1, <2>2, Zenon
<1> QED BY <1>3, <1>4, <1>5, <1>6, <1>7, <1>8, Zenon DEF Fit

\* What MCNext notes of a step.
Noted == lastQa' = IF QaCuts THEN [at |-> now, starved |-> cc.qaBytes + NewBytes = 0] ELSE lastQa

(* Whether quick adapt cuts the window is decided in adjust_window.        *)
LEMMA CutsOrNot ==
  ASSUME NEW new, NEW p, NEW c, NEW d, AckDoes(new, p, c, d)
  PROVE  /\ QaCuts => Cut(c, d)
         /\ Cut(c, d) => QaCuts
         /\ ~QaCuts /\ ~Cut(c, d)
              => d = c \/ (Adjusted(c, d, Mss * Cardinality(new), AckedAt(new)) /\ Uncut(c, d))
<1>1. (cc.qaOn <=> c.qaOn) /\ (d.qaOn <=> cc'.qaOn)
  BY Zenon DEF AckDoes, Counted, Carried
<1>2. d = c \/ Cut(c, d) \/ (Adjusted(c, d, Mss * Cardinality(new), AckedAt(new)) /\ Uncut(c, d))
  BY Zenon DEF AckDoes, Adjusted
<1>3. Cut(c, d) => c.qaOn /\ ~d.qaOn
  BY Zenon DEF Cut
<1>4. Uncut(c, d) => (c.qaOn => d.qaOn)
  BY Zenon DEF Uncut
<1> QED BY <1>1, <1>2, <1>3, <1>4, Zenon DEF QaCuts

LEMMA AckFits ==
  ASSUME IInv, Noted, now \in Nat \ {0}, cc' \in Good,
         NEW new \in SUBSET (Packets \ Acked), NEW p \in Packets,
         NEW c \in Good, NEW d \in Good, AckDoes(new, p, c, d)
  PROVE  Fit(cc', sent', lastQa')
<1> DEFINE bytes == Mss * Cardinality(new)
<1>1. /\ bytes \in Whole /\ (bytes = 0 <=> new = {}) /\ Counted(cc, c, bytes)
      /\ AckedIn(sent') = Acked \union new /\ (p \notin Acked => new # {})
      /\ Carried(d, cc')
  BY DEF AckDoes
<1>2. Fit(c, sent', lastQa)
  BY <1>1, CountFits
<1>3. NewBytes = bytes
  BY <1>1, NewBytesCounted
<1> HIDE DEF bytes
<1>4. bytes \in Nat /\ c \in Fields /\ d \in Fields /\ cc \in Fields
  BY <1>1, WholeSum DEF Good, IInv, TypeOK
<1>5. Fit(d, sent', lastQa')
  <2>1. CASE QaCuts
    <3>1. Cut(c, d) /\ Rounds(c, d)
      BY <2>1, CutsOrNot, Zenon DEF AckDoes, Adjusted, Cut
    <3>2. lastQa' = [at |-> now, starved |-> cc.qaBytes + bytes = 0]
      BY <1>3, <2>1 DEF Noted
    <3>3. c.qaBytes = cc.qaBytes + bytes
      BY <1>1, <3>1 DEF Counted, Cut
    <3>4. d.counter > 0 \/ lastQa'.starved
      <4>1. CASE c.qaBytes = 0
        BY <3>2, <3>3, <4>1
      <4>2. CASE c.qaBytes # 0
        <5>1. c.qaBytes \in Whole
          BY <1>2 DEF Fit
        <5> QED BY <1>4, <3>1, <4>2, <5>1, DeliveredPositive DEF Cut
      <4> QED BY <4>1, <4>2
    <3>5. d.goodEpochs <= d.fastRounds /\ (options.type = "aimd" => d.goodEpochs = d.fastRounds)
      BY <1>2, <3>1 DEF Fit, Rounds
    <3>6. d.ewmaIsNumber /\ ~d.epochOn /\ ~d.qaOn
      BY <1>2, <3>1, Zenon DEF Fit, Cut
    <3>7. d.qaBytes \in Whole
      BY <1>1, <3>1, WholeSum DEF Cut
    <3> QED BY <3>4, <3>5, <3>6, <3>7, Zenon DEF Fit
  <2>2. CASE ~QaCuts /\ d = c
    BY <1>2, <2>2 DEF Noted
  <2>3. CASE ~QaCuts /\ Adjusted(c, d, bytes, AckedAt(new)) /\ Uncut(c, d) /\ ~Cut(c, d)
    <3>1. lastQa' = lastQa
      BY <2>3 DEF Noted
    <3>2. d.goodEpochs <= d.fastRounds /\ (options.type = "aimd" => d.goodEpochs = d.fastRounds)
      BY <1>2, <2>3 DEF Fit, Rounds, Adjusted
    <3>3. d.epochOn \/ d.counter > 0 \/ lastQa.starved
      <4>1. c.epochOn \/ c.counter > 0 \/ lastQa.starved
        BY <1>2 DEF Fit
      <4>2. d.counter = c.counter /\ (c.epochOn <=> d.epochOn)
        BY <2>3 DEF Uncut
      <4> QED BY <4>1, <4>2, Zenon
    <3>4. d.qaBytes \in Whole
      BY <1>1, <1>2, <2>3, WholeSum DEF Fit, Uncut
    <3>5. d.qaOn => d.qaEnd >= lastQa.at + TargetRtt
      <4>1. (c.qaOn => c.qaEnd >= lastQa.at + TargetRtt)
            /\ (d.qaOn => (c.qaOn /\ d.qaEnd = c.qaEnd) \/ d.qaEnd = now + TargetRtt)
        BY <1>2, <2>3, Zenon DEF Fit, Uncut
      <4>2. now + TargetRtt >= lastQa.at + TargetRtt
        BY ControlAssumption DEF IInv
      <4> QED BY <4>1, <4>2
    <3>6. d.ewmaIsNumber /\ (d.epochOn /\ d.epochEnd = 0 /\ d.epochBytes = 0 => AckedIn(sent') = {})
      <4>1. c.ewmaIsNumber /\ (c.epochOn <=> d.epochOn)
            /\ (c.epochOn /\ c.epochEnd = 0 /\ c.epochBytes = 0 => AckedIn(sent') = {})
        BY <1>2, <2>3, Zenon DEF Fit, Uncut
      <4>2. CASE /\ d.epochEnd = c.epochEnd /\ d.epochBytes = c.epochBytes
                 /\ c.ewmaIsNumber => d.ewmaIsNumber
        BY <4>1, <4>2, Zenon
      <4>3. CASE /\ c.epochOn /\ AckedAt(new) >= c.epochEnd /\ d.epochEnd > 0
                 /\ c.ewmaIsNumber /\ c.epochBytes > 0 => d.ewmaIsNumber
        <5>1. c.epochBytes > 0
          <6> SUFFICES ASSUME c.epochBytes = 0 PROVE FALSE
            BY <1>4 DEF Fields
          <6>1. c.epochBytes = cc.epochBytes + bytes
            BY <1>1, <4>3 DEF Counted
          <6>2. bytes = 0 /\ new = {}
            BY <1>1, <1>4, <6>1 DEF Fields
          <6>3. c.epochEnd = 0
            BY <1>4, <4>3, <6>2, AckedAtNothing DEF Fields
          <6>4. AckedIn(sent') = {}
            BY <4>1, <4>3, <6>3
          <6>5. Acked = {}
            BY <1>1, <6>4
          <6> QED BY <1>1, <6>2, <6>5
        <5> QED BY <4>1, <4>3, <5>1
      <4> QED BY <2>3, <4>2, <4>3 DEF Adjusted
    <3> QED BY <3>1, <3>2, <3>3, <3>4, <3>5, <3>6, Zenon DEF Fit
  <2>4. QaCuts \/ (~QaCuts /\ d = c)
        \/ (~QaCuts /\ Adjusted(c, d, bytes, AckedAt(new)) /\ Uncut(c, d) /\ ~Cut(c, d))
    BY CutsOrNot, Zenon DEF bytes
  <2> QED BY <2>1, <2>2, <2>3, <2>4
<1> QED BY <1>1, <1>5, FitCarried

-----------------------------------------------------------------------------
(* The invariant is inductive: one lemma per action.                       *)

LEMMA NumbersHold ==
  ASSUME TypeOK
  PROVE  /\ now \in Nat /\ cc \in Good /\ cc \in Fields
         /\ sent \in [Packets -> Entry]
         /\ network \subseteq Copy
  BY ControlAssumption DEF TypeOK, Good, Copy

LEMMA FreshSound ==
  LET x == [cc   |-> Fresh,
            sent |-> [p \in Packets |-> [state |-> "unsent", at |-> 0]],
            out  |-> {}]
  IN  /\ x \in Sound /\ Fresh \in Good
      /\ Fresh.counter > 0 /\ ~Fresh.epochOn /\ ~Fresh.qaOn /\ Fresh.ewmaIsNumber
      /\ Fresh.goodEpochs = 0 /\ Fresh.fastRounds = 0 /\ Fresh.qaBytes = 0
<1>1. StartCwnd \in Mss .. MaxCwnd /\ StartCwnd \in Int /\ StartCwnd > 0
  BY ControlAssumption DEF Mss
<1>2. Fresh \in Good /\ Fresh \in Fields
  BY <1>1 DEF Fresh, Fields, Good
<1>3. /\ Fresh.counter > 0 /\ ~Fresh.epochOn /\ ~Fresh.qaOn /\ Fresh.ewmaIsNumber
      /\ Fresh.goodEpochs = 0 /\ Fresh.fastRounds = 0 /\ Fresh.qaBytes = 0
  BY <1>1 DEF Fresh
<1>4. [p \in Packets |-> [state |-> "unsent", at |-> 0]] \in [Packets -> Entry]
  BY DEF Entry
<1> QED BY <1>2, <1>3, <1>4 DEF Sound, Handling, Good

LEMMA InitFits ==
  ASSUME MCInit
  PROVE  IInv
<1> DEFINE st == [p \in Packets |-> [state |-> "unsent", at |-> 0]]
           x == [cc |-> Fresh, sent |-> st, out |-> {}]
           s == SendPackets(x)
<1>1. now = 0 /\ options \in Settings /\ rcvd = {}
      /\ cc = s.cc /\ sent = s.sent /\ network = s.out
      /\ lastQa = [at |-> 0 - TargetRtt, starved |-> FALSE]
  BY DEF MCInit, Init
<1>2. x \in Sound /\ Fresh \in Good
  BY FreshSound
<1>3. s \in Sound /\ Follows(x, s)
  BY <1>1, <1>2, SendPacketsFollows
<1>4. AckedIn(st) = {}
  BY DEF AckedIn
<1>5. st \in [Packets -> Entry]
  BY DEF Entry
<1>6. Fit(Fresh, st, lastQa)
  <2>1. 0 \in Whole
    <3>1. 0 = Mss * 0
      BY DEF Mss
    <3> QED BY <3>1 DEF Whole
  <2> HIDE DEF st
  <2> QED BY <1>4, <2>1, FreshSound DEF Fit
<1> HIDE DEF st
<1>7. Carried(Fresh, s.cc) /\ \A p \in Packets : Moved(st[p], s.sent[p])
  BY <1>3 DEF Follows
<1> HIDE DEF s
<1>8. cc \in Good /\ sent \in [Packets -> Entry]
      /\ network \subseteq [pkt : Packets, at : 0 .. now]
  BY <1>1, <1>3 DEF Sound, Handling, Good
<1>9. AckedIn(sent) = {}
  BY <1>1, <1>4, <1>5, <1>7, MovedAcked
<1>10. Fit(cc, sent, lastQa)
  <2>1. now \in Nat /\ Carried(Fresh, cc) /\ AckedIn(sent) = AckedIn(st)
    BY <1>1, <1>4, <1>7, <1>9
  <2> QED BY <1>4, <1>6, <1>8, <2>1, FitCarried
<1>11. lastQa \in [at : Int, starved : BOOLEAN] /\ lastQa.at <= now
  BY <1>1, ControlAssumption
<1>12. TypeOK
  BY <1>1, <1>8, ControlAssumption DEF TypeOK, Good
<1> QED BY <1>9, <1>10, <1>11, <1>12 DEF IInv, Acked, AckedIn

(* A handler that only sends: the scanner and doNextEvent.                  *)
LEMMA HandlerFits ==
  ASSUME IInv, Noted, NEW x \in Sound, x.sent = sent, Carried(cc, x.cc),
         NEW y \in Sound, Follows(x, y), Handle(y)
  PROVE  IInv' /\ ~QaCuts
<1>1. /\ cc' = y.cc /\ sent' = y.sent /\ network' = y.out
      /\ now' = now /\ options' = options /\ rcvd' = rcvd
  BY DEF Handle, Become
<1>2. now \in Nat /\ sent \in [Packets -> Entry]
  BY NumbersHold DEF IInv
<1>3. cc' \in Good /\ sent' \in [Packets -> Entry]
      /\ network' \subseteq [pkt : Packets, at : 0 .. now]
  BY <1>1 DEF Sound, Handling, Good
<1>4. Carried(x.cc, y.cc) /\ \A p \in Packets : Moved(x.sent[p], y.sent[p])
  BY DEF Follows
<1>5. Carried(cc, cc')
  BY <1>1, <1>4, CarriedOn
<1>6. AckedIn(sent') = AckedIn(sent)
  BY <1>1, <1>2, <1>4, MovedAcked
<1>7. ~QaCuts
  BY <1>5, Zenon DEF QaCuts, Carried
<1>8. lastQa' = lastQa
  BY <1>7 DEF Noted
<1>9. AckedIn(sent) = {} \/ now > 0
  BY DEF IInv, Acked, AckedIn
<1>10. Fit(cc', sent', lastQa)
  <2>1. Fit(cc, sent, lastQa)
    BY DEF IInv
  <2> QED BY <1>2, <1>3, <1>5, <1>6, <1>9, <2>1, FitCarried
<1>11. TypeOK'
  BY <1>1, <1>3 DEF IInv, TypeOK, Good
<1>12. Fit(cc, sent, lastQa)'
  BY <1>1, <1>8, <1>10 DEF Fit
<1> QED BY <1>1, <1>6, <1>7, <1>8, <1>9, <1>11, <1>12 DEF IInv, Acked, AckedIn

LEMMA ScanFits ==
  ASSUME IInv, Noted, Scan
  PROVE  IInv' /\ ~QaCuts
<1> DEFINE x == [cc |-> cc, sent |-> sent, out |-> network]
<1>1. now \in Nat /\ cc \in Good /\ cc \in Fields /\ sent \in [Packets -> Entry]
      /\ network \subseteq Copy /\ network \subseteq [pkt : Packets, at : 0 .. now]
  BY NumbersHold DEF IInv, TypeOK
<1>2. x \in Sound
  BY <1>1 DEF Sound, Handling, Good
<1>3. x.cc = cc /\ x.sent = sent /\ Carried(cc, x.cc)
  BY CarriedSame
<1>4. Handle(RetransmitPacket(x))
  BY DEF Scan
<1> HIDE DEF x
<1>5. RetransmitPacket(x) \in Sound /\ Follows(x, RetransmitPacket(x))
  BY <1>1, <1>2, RetransmitPacketFollows
<1> QED BY <1>2, <1>3, <1>4, <1>5, HandlerFits

LEMMA WakeUpFits ==
  ASSUME IInv, Noted, WakeUp
  PROVE  IInv' /\ ~QaCuts
<1> DEFINE c == [cc EXCEPT !.wake = FALSE]
           x == [cc |-> c, sent |-> sent, out |-> network]
<1>1. now \in Nat /\ cc \in Good /\ cc \in Fields /\ sent \in [Packets -> Entry]
      /\ network \subseteq Copy /\ network \subseteq [pkt : Packets, at : 0 .. now]
  BY NumbersHold DEF IInv, TypeOK
<1>2. c \in Fields /\ c.cwnd = cc.cwnd /\ Carried(cc, c)
  BY <1>1 DEF Fields, Carried
<1>3. Handle(SendPackets(x))
  BY DEF WakeUp
<1> HIDE DEF c
<1>4. x \in Sound /\ x.cc = c /\ x.sent = sent
  BY <1>1, <1>2 DEF Sound, Handling, Good
<1> HIDE DEF x
<1>5. SendPackets(x) \in Sound /\ Follows(x, SendPackets(x))
  BY <1>1, <1>4, SendPacketsFollows
<1> QED BY <1>2, <1>3, <1>4, <1>5, HandlerFits

(* Steps that leave the control alone.                                     *)
LEMMA IdleFits ==
  ASSUME IInv, Noted, UNCHANGED <<options, cc, sent>>, now' \in {now, now + 1}, TypeOK'
  PROVE  IInv' /\ ~QaCuts
<1>1. ~QaCuts /\ lastQa' = lastQa
  BY DEF QaCuts, Noted
<1>2. Fit(cc, sent, lastQa)'
  BY <1>1 DEF IInv, Fit
<1>3. now \in Nat
  BY NumbersHold DEF IInv
<1> QED BY <1>1, <1>2, <1>3 DEF IInv, Acked

LEMMA LoseAckFits ==
  ASSUME IInv, Noted, NEW m \in network, LoseAck(m)
  PROVE  IInv' /\ ~QaCuts
<1>1. UNCHANGED <<now, options, cc, sent>> /\ TypeOK'
  BY DEF IInv, TypeOK, LoseAck
<1> QED BY <1>1, IdleFits

LEMMA TickFits ==
  ASSUME IInv, Noted, Tick
  PROVE  IInv' /\ ~QaCuts
<1>1. now' = now + 1 /\ UNCHANGED <<options, cc, sent, rcvd>> /\ network' \subseteq network
      /\ now < MaxTime
  BY DEF Tick
<1>2. TypeOK'
  <2>1. now \in 0 .. MaxTime /\ now' \in 0 .. MaxTime
    BY <1>1, ControlAssumption DEF IInv, TypeOK
  <2>2. network' \subseteq [pkt : Packets, at : 0 .. now']
    BY <1>1, <2>1 DEF IInv, TypeOK
  <2> QED BY <1>1, <2>1, <2>2 DEF IInv, TypeOK
<1> QED BY <1>1, <1>2, IdleFits

LEMMA AckArrivesFits ==
  ASSUME IInv, Noted, NEW m \in network, NEW ecn \in BOOLEAN, AckArrives(m, ecn)
  PROVE  IInv'
<1>1. m.pkt \in Packets /\ cc \in Fields
  BY DEF IInv, TypeOK
<1>2. now \in Nat \ {0} /\ cc' \in Good
  BY AckSteps
<1>3. PICK new \in SUBSET (Packets \ Acked), c \in Good, d \in Good : AckDoes(new, m.pkt, c, d)
  BY AckSteps
<1>4. Fit(cc', sent', lastQa')
  BY <1>1, <1>2, <1>3, AckFits
<1>5. now' = now /\ options' = options /\ rcvd' \subseteq Packets
  BY <1>1 DEF AckArrives, IInv, TypeOK
<1>6. TypeOK'
  BY <1>2, <1>3, <1>5 DEF TypeOK, IInv, AckDoes, Good
<1>7. lastQa' \in [at : Int, starved : BOOLEAN] /\ lastQa'.at <= now
  <2>1. CASE QaCuts
    BY <1>2, <2>1 DEF Noted
  <2>2. CASE ~QaCuts
    BY <2>2 DEF Noted, IInv
  <2> QED BY <2>1, <2>2
<1>8. Fit(cc, sent, lastQa)'
  BY <1>4, <1>5 DEF Fit
<1> QED BY <1>2, <1>5, <1>6, <1>7, <1>8 DEF IInv

LEMMA InvariantKept ==
  ASSUME IInv, [MCNext]_<<vars, lastQa>>
  PROVE  IInv'
<1>1. CASE UNCHANGED <<vars, lastQa>>
  BY <1>1 DEF vars, IInv, TypeOK, Fit, Acked
<1>2. CASE MCNext
  <2>1. Noted
    BY <1>2 DEF MCNext, Noted
  <2>2. ASSUME NEW m \in network, NEW ecn \in BOOLEAN, AckArrives(m, ecn)
        PROVE  IInv'
    BY <2>1, <2>2, AckArrivesFits
  <2>3. ASSUME NEW m \in network, LoseAck(m)
        PROVE  IInv'
    BY <2>1, <2>3, LoseAckFits
  <2>4. CASE Scan
    BY <2>1, <2>4, ScanFits
  <2>5. CASE WakeUp
    BY <2>1, <2>5, WakeUpFits
  <2>6. CASE Tick
    BY <2>1, <2>6, TickFits
  <2> QED BY <1>2, <2>2, <2>3, <2>4, <2>5, <2>6 DEF MCNext, Next
<1> QED BY <1>1, <1>2

-----------------------------------------------------------------------------
(* Where quick adapt leaves the window.                                    *)

LEMMA QuotientBelow ==
  ASSUME NEW a \in Nat, NEW b \in Nat \ {0}, NEW n \in Nat, a < n * b
  PROVE  a \div b < n
<1> DEFINE q == a \div b
<1>1. q \in Nat /\ b * q <= a
  BY QuotientNat
<1> HIDE DEF q
<1>2. SUFFICES ASSUME q >= n PROVE FALSE
  BY <1>1 DEF q
<1>3. b * (q - n) \in Nat
  BY <1>1, <1>2, ProductNat
<1>4. b * (q - n) = b * q - b * n
  BY <1>1
<1> QED BY <1>1, <1>3, <1>4

(* A packet of the period, at most, is what the increase of its last ACK   *)
(* adds to the new window; twice what it delivered was below the old one.  *)
LEMMA LandsBelow ==
  ASSUME NEW k \in Nat, NEW bytes \in Nat, bytes <= Mss * k, AiBytes <= Mss,
         NEW window \in Mss .. MaxCwnd, Mss * k < (50 * window) \div 100,
         NEW w, w = Limit((96 * (Mss * k)) \div 100)
  PROVE  /\ w \in Nat \ {0} /\ w <= window
         /\ w + (AiBytes * bytes) \div w <= window
<1>1. Mss = 25 /\ MaxCwnd \in Nat /\ AiBytes \in Nat /\ window \in Nat
  BY ControlAssumption DEF Mss
<1>2. 50 * k + 2 <= window /\ (96 * (Mss * k)) \div 100 = 24 * k
  BY <1>1
<1>3. w = IF k >= 2 THEN 24 * k ELSE 25
  BY <1>1, <1>2 DEF Limit
<1>4. w \in Nat \ {0} /\ w <= window
  BY <1>1, <1>2, <1>3
<1> DEFINE a == AiBytes * bytes
           step == a \div w
<1>5. a \in Nat /\ a <= 625 * k
  <2>1. (25 - AiBytes) * bytes \in Nat
    BY <1>1, ProductNat
  <2>2. (25 - AiBytes) * bytes = 25 * bytes - AiBytes * bytes
    BY <1>1
  <2>3. AiBytes * bytes \in Nat
    BY <1>1, ProductNat
  <2> QED BY <1>1, <2>1, <2>2, <2>3
<1>6. a < 27 * w /\ (k = 1 => a < 26 * w) /\ (k = 0 => a < 1 * w)
  <2> HIDE DEF a
  <2> QED BY <1>3, <1>5
<1> HIDE DEF a
<1>7. step \in Nat /\ step < 27
  BY <1>4, <1>5, <1>6, QuotientNat, QuotientBelow
<1>8. k = 1 => step < 26
  BY <1>4, <1>5, <1>6, QuotientBelow
<1>9. k = 0 => step < 1
  BY <1>4, <1>5, <1>6, QuotientBelow
<1> HIDE DEF step
<1>10. w + step <= window
  BY <1>1, <1>2, <1>3, <1>7, <1>8, <1>9
<1> QED BY <1>4, <1>10 DEF step, a

\* The bytes of the period that ends with this ACK.
PeriodBytes == cc.qaBytes + NewBytes

(* A step in which quick adapt cuts the window is an ACK at the end of a   *)
(* period, and leaves the window at what the period delivered, with at     *)
(* most the increase of that ACK, unless a packet times out in it.         *)
LEMMA CutSteps ==
  ASSUME IInv, MCNext, QaCuts
  PROVE  /\ now >= cc.qaEnd /\ cc.qaOn
         /\ PeriodBytes \in Whole /\ NewBytes \in Nat /\ NewBytes <= PeriodBytes
         /\ LET w == Limit((96 * PeriodBytes) \div 100)
            IN  \/ cc'.cwnd \in {w, Limit(w + (AiBytes * NewBytes) \div w)}
                \/ \E q \in Packets : /\ sent[q].state = "flying" /\ sent'[q] # sent[q]
                                      /\ Moved(sent[q], sent'[q])
<1>1. Noted
  BY DEF MCNext, Noted
<1>2. PICK m \in network, ecn \in BOOLEAN : AckArrives(m, ecn)
  BY <1>1, ScanFits, WakeUpFits, LoseAckFits, TickFits DEF MCNext, Next
<1>3. PICK new \in SUBSET (Packets \ Acked), c \in Good, d \in Good : AckDoes(new, m.pkt, c, d)
  BY <1>2, AckSteps
<1> DEFINE bytes == Mss * Cardinality(new)
<1>4. Cut(c, d) /\ Counted(cc, c, bytes) /\ bytes \in Whole
      /\ AckedIn(sent') = Acked \union new
  BY <1>3, CutsOrNot DEF AckDoes
<1>5. NewBytes = bytes
  BY <1>4, NewBytesCounted
<1>6. Adjusted(c, d, bytes, AckedAt(new))
  BY <1>3, <1>4, Zenon DEF AckDoes, Cut
<1> DEFINE w == Limit(Delivered(c))
<1>7. d.cwnd \in {w, Limit(w + (AiBytes * bytes) \div w)}
  BY <1>4, <1>6, Zenon DEF Adjusted, Cut, Uncut
<1>8. \/ cc'.cwnd = d.cwnd
      \/ \E q \in Packets : /\ sent[q].state = "flying" /\ sent'[q] # sent[q]
                            /\ Moved(sent[q], sent'[q])
  BY <1>3, Zenon DEF AckDoes
<1> HIDE DEF bytes
<1>9. c.qaOn /\ now >= c.qaEnd /\ (cc.qaOn <=> c.qaOn) /\ c.qaEnd = cc.qaEnd
      /\ c.qaBytes = cc.qaBytes + IF c.qaOn THEN bytes ELSE 0
  BY <1>4, Zenon DEF Cut, Counted
<1>10. c.qaBytes = PeriodBytes
  BY <1>5, <1>9 DEF PeriodBytes, Counted
<1>11. cc.qaBytes \in Whole
  BY DEF IInv, Fit
<1>12. PeriodBytes \in Whole /\ bytes \in Nat /\ bytes <= PeriodBytes
  <2>1. cc.qaBytes + bytes \in Whole /\ cc.qaBytes \in Nat /\ bytes \in Nat
    BY <1>4, <1>11, WholeSum
  <2> QED BY <1>5, <2>1 DEF PeriodBytes
<1>13. w = Limit((96 * PeriodBytes) \div 100)
  BY <1>10 DEF Delivered
<1> HIDE DEF w
<1> QED BY <1>5, <1>7, <1>8, <1>9, <1>12, <1>13

LEMMA LandsOnDelivered ==
  ASSUME IInv, MCNext, QaCuts,
         \A p \in Packets : sent[p].state = "flying" => sent'[p].state # "timedOut"
                              /\ (sent'[p].state = "flying" => sent'[p] = sent[p])
  PROVE  /\ cc'.cwnd >= Min({MaxCwnd, (96 * PeriodBytes) \div 100})
         /\ PeriodBytes < QaThreshold(cc) /\ AiBytes <= Mss => cc'.cwnd <= cc.cwnd
<1>1. sent \in [Packets -> Entry] /\ cc.cwnd \in Mss .. MaxCwnd /\ MaxCwnd \in Nat /\ AiBytes \in Nat
  BY ControlAssumption DEF IInv, TypeOK
<1>2. ASSUME NEW q \in Packets, sent[q].state = "flying", sent'[q] # sent[q],
             Moved(sent[q], sent'[q])
      PROVE  FALSE
  <2>1. sent'[q] = [state |-> "timedOut", at |-> sent[q].at] \/ sent'[q] = Sending
    BY <1>2 DEF Moved
  <2>2. sent'[q].state = "timedOut" \/ sent'[q].state = "flying"
    BY <2>1 DEF Sending
  <2> QED BY <1>2, <2>2
<1> DEFINE v == (96 * PeriodBytes) \div 100
           w == Limit(v)
           step == (AiBytes * NewBytes) \div w
<1>3. /\ PeriodBytes \in Whole /\ NewBytes \in Nat /\ NewBytes <= PeriodBytes
      /\ cc'.cwnd \in {w, Limit(w + step)}
  BY <1>2, CutSteps
<1>4. PICK k \in Nat : PeriodBytes = Mss * k
  BY <1>3 DEF Whole
<1>5. v \in Int
  BY <1>4 DEF Mss
<1> HIDE DEF v
<1>6. w \in Nat \ {0} /\ w <= MaxCwnd /\ (w >= v \/ w = MaxCwnd)
  BY <1>1, <1>5, ControlAssumption DEF Limit, Mss
<1> HIDE DEF w
<1>7. step \in Nat
  <2>1. AiBytes * NewBytes \in Nat
    BY <1>1, <1>3, ProductNat
  <2> QED BY <1>6, <2>1, QuotientNat
<1> HIDE DEF step
<1>8. cc'.cwnd >= w /\ (w + step <= cc.cwnd => cc'.cwnd <= cc.cwnd)
  BY <1>1, <1>3, <1>6, <1>7, ControlAssumption DEF Limit, Mss
<1>9. cc'.cwnd >= Min({MaxCwnd, v})
  <2>1. Min({MaxCwnd, v}) = IF MaxCwnd <= v THEN MaxCwnd ELSE v
    BY <1>1, <1>5, MinOfTwo
  <2>2. cc'.cwnd \in Int
    BY <1>3, <1>6, <1>7, <1>1, ControlAssumption DEF Limit, Mss
  <2> QED BY <1>1, <1>5, <1>6, <1>8, <2>1, <2>2
<1>10. ASSUME PeriodBytes < QaThreshold(cc), AiBytes <= Mss
       PROVE  cc'.cwnd <= cc.cwnd
  <2>1. Mss * k < (50 * cc.cwnd) \div 100 /\ NewBytes <= Mss * k
    BY <1>3, <1>4, <1>10 DEF QaThreshold
  <2>2. w = Limit((96 * (Mss * k)) \div 100)
    BY <1>4 DEF w, v
  <2>3. w + step <= cc.cwnd
    BY <1>1, <1>3, <1>10, <2>1, <2>2, LandsBelow DEF step
  <2> QED BY <1>8, <2>3
<1> QED BY <1>9, <1>10 DEF v

-----------------------------------------------------------------------------
(* The theorems.                                                           *)

(* Every state of LcpControl satisfies the inductive invariant.            *)
THEOREM ControlInvariant == MCSpec => []IInv
<1>1. MCInit => IInv
  BY InitFits
<1>2. IInv /\ [MCNext]_<<vars, lastQa>> => IInv'
  BY InvariantKept
<1> QED BY <1>1, <1>2, PTL DEF MCSpec

(* The fields of the control have their types, and the window that every   *)
(* handler leaves (processAck, rtx_timer_hook, doNextEvent) is between a   *)
(* packet and _maxcwnd.                                                    *)
THEOREM ControlTypes == MCSpec => []TypeOK
<1>1. IInv => TypeOK
  BY DEF IInv
<1> QED BY <1>1, ControlInvariant, PTL

(* processEpochEnd never divides by zero.                                  *)
THEOREM EwmaIsNumberAlways == MCSpec => []EwmaIsNumber
<1>1. IInv => EwmaIsNumber
  BY DEF IInv, Fit, EwmaIsNumber
<1> QED BY <1>1, ControlInvariant, PTL

(* Every path that ends a row of good epochs ends it for both counters,    *)
(* but for aimd_phantom at a congested ACK.                                *)
THEOREM RoundsMatchEpochsAlways == MCSpec => []RoundsMatchEpochs
<1>1. IInv => RoundsMatchEpochs
  BY DEF IInv, Fit, RoundsMatchEpochs
<1> QED BY <1>1, ControlInvariant, PTL

(* A flow loses its epochs only to a quick adapt whose period had          *)
(* acknowledged nothing.                                                   *)
THEOREM EpochsLostOnlyWhenStarvedAlways == MCSpec => []EpochsLostOnlyWhenStarved
<1>1. IInv => EpochsLostOnlyWhenStarved
  BY DEF IInv, Fit, EpochsLostOnlyWhenStarved
<1> QED BY <1>1, ControlInvariant, PTL

(* Two cuts of quick adapt are a measurement period apart.                 *)
THEOREM QaCutsApartAlways == MCSpec => QaCutsApart
<1>1. IInv /\ [MCNext]_<<vars, lastQa>>
        => [QaCuts => now >= lastQa.at + TargetRtt]_<<vars, lastQa>>
  <2> SUFFICES ASSUME IInv, MCNext, QaCuts
               PROVE  now >= lastQa.at + TargetRtt
    OBVIOUS
  <2>1. cc.qaOn /\ now >= cc.qaEnd
    BY CutSteps
  <2>2. cc.qaEnd >= lastQa.at + TargetRtt
    BY <2>1 DEF IInv, Fit
  <2>3. now \in Int /\ cc.qaEnd \in Int /\ lastQa.at + TargetRtt \in Int
    BY ControlAssumption DEF IInv, TypeOK, Fields
  <2> QED BY <2>1, <2>2, <2>3
<1> QED BY <1>1, ControlInvariant, PTL DEF MCSpec, QaCutsApart

(* Quick adapt leaves the window at what the period delivered, as far as   *)
(* _maxcwnd allows, and a period judged by its bytes does not raise it.    *)
THEOREM QaLandsOnDeliveredAlways == MCSpec => QaLandsOnDelivered
<1> DEFINE Lands ==
      QaCuts /\ (\A p \in Packets : sent[p].state = "flying" => sent'[p].state # "timedOut"
                                      /\ (sent'[p].state = "flying" => sent'[p] = sent[p]))
        => LET bytes == cc.qaBytes + NewBytes
           IN  /\ cc'.cwnd >= Min({MaxCwnd, (96 * bytes) \div 100})
               /\ bytes < QaThreshold(cc) /\ AiBytes <= Mss => cc'.cwnd <= cc.cwnd
<1>1. IInv /\ [MCNext]_<<vars, lastQa>> => [Lands]_vars
  <2> SUFFICES ASSUME IInv, MCNext
               PROVE  Lands
    BY DEF vars
  <2> QED BY LandsOnDelivered DEF PeriodBytes
<1> QED BY <1>1, ControlInvariant, PTL DEF MCSpec, QaLandsOnDelivered
=============================================================================
