--------------------------- MODULE LcpPacingProofs ---------------------------
(* Proofs about LcpPacing, for all delays, windows and flows: the pacer has *)
(* one event when it is pending and none otherwise, packets are apart, and  *)
(* a finished flow is silent.                                               *)
EXTENDS LcpPacing, FiniteSetTheorems, LoopsProofs

-----------------------------------------------------------------------------
(* The inductive invariant.                                                *)

Times == 0 .. Horizon
Least == Min(Delays)

FlowState ==
  [delay : Delays \cup {0}, nextIn : Times, since : Times,
   pending : [Times -> Nat], orphans : Nat, pacingDelay : Delays,
   updated : Times, token : BOOLEAN, rtxPending : BOOLEAN, window : Windows,
   fresh : Nat, owed : Nat, unacked : Nat, wake : BOOLEAN, finished : BOOLEAN,
   timeouts : Nat, sends : Nat]

NoEvent == [x \in Times |-> 0]
EventAt(t) == [x \in Times |-> IF x = t THEN 1 ELSE 0]

\* The pacer is not pending, is pending, or is inside its own event.
Idle(s) == s.delay = 0 /\ s.pending = NoEvent
Armed(s) == s.delay > 0 /\ s.pending = EventAt(s.nextIn)
Fired(s) == s.delay > 0 /\ s.pending = NoEvent

\* The ages of the last packets when n have just been sent.
Recent(A, n) == [i \in 1 .. 3 |-> IF i <= n THEN 0 ELSE A[i - n]]

\* B are the ages of the last packets.  A right to send is of an event of the
\* pacer after the last packet, and a delay after the last but one.
Apart(s, B) ==
  /\ B \in [1 .. 3 -> Times]
  /\ s.since <= B[1] /\ B[1] <= B[2] /\ B[2] <= B[3]
  /\ B[3] = Horizon \/ B[3] - B[1] >= Least
  /\ s.token => B[2] >= Least

\* So will be the right to send that the next event gives.
ApartNext(s, B) ==
  Armed(s) => s.nextIn + (IF s.token THEN s.since ELSE B[2]) >= Least

Spaced(s, B) == Apart(s, B) /\ ApartNext(s, B)

\* Without a pacer nothing has been sent that awaits anything.
Driven(s) ==
  ~s.finished /\ s.delay = 0 => s.unacked = 0 /\ s.owed = 0 /\ ~s.token

Stopped(s) == s.finished => s.delay = 0 /\ s.owed = 0 /\ ~s.wake

\* What holds of a flow inside a handler, and between two of them.
Sound(A) ==
  {s \in FlowState : /\ s.orphans = 0 /\ Spaced(s, Recent(A, s.sends))
                     /\ Idle(s) \/ Armed(s) \/ Fired(s)
                     /\ Driven(s) /\ Stopped(s)}

IInv ==
  /\ ages \in [1 .. 3 -> Times]
  /\ f \in Sound(ages) /\ ~Fired(f) /\ f.sends = 0

\* What a piece of a handler that is not the end of the flow keeps.
Follows(s, t) ==
  /\ t.finished = s.finished
  /\ s.delay > 0 => t.delay > 0
  /\ Fired(t) => Fired(s)

After(s, A) == {t \in Sound(A) : Follows(s, t)}

-----------------------------------------------------------------------------
(* Operators.                                                              *)

LEMMA MinOfTwo ==
  ASSUME NEW a \in Int, NEW b \in Int
  PROVE  Min({a, b}) = IF a <= b THEN a ELSE b
<1>1. \E x \in {a, b} : \A y \in {a, b} : x =< y
  OBVIOUS
<1>2. Min({a, b}) \in {a, b} /\ \A y \in {a, b} : Min({a, b}) =< y
  BY <1>1, Zenon DEF Min
<1> QED BY <1>2

LEMMA LeastDelay ==
  /\ Least \in Nat \ {0} /\ Horizon \in Nat /\ Least <= Horizon
  /\ Gate \in Nat /\ Gate + 1 <= Horizon
  /\ \A d \in Delays : d \in Nat \ {0} /\ d <= Horizon /\ Least <= d
<1>1. \E x \in Delays : \A y \in Delays : x =< y
  BY PacingAssumption, LeastNat
<1>2. Least \in Delays /\ \A y \in Delays : Least =< y
  BY <1>1, Zenon DEF Min, Least
<1> QED BY <1>2, PacingAssumption

\* The fields that the spacing of packets depends on.
LEMMA Parts ==
  ASSUME NEW A, NEW s \in Sound(A)
  PROVE  /\ s \in FlowState /\ s.orphans = 0 /\ Spaced(s, Recent(A, s.sends))
         /\ Idle(s) \/ Armed(s) \/ Fired(s)
         /\ Driven(s) /\ Stopped(s)
BY DEF Sound

LEMMA FollowsTrans ==
  ASSUME NEW r, NEW s, NEW t, Follows(r, s), Follows(s, t)
  PROVE  Follows(r, t)
BY DEF Follows

LEMMA RecentType ==
  ASSUME NEW A \in [1 .. 3 -> Times], NEW n \in Nat
  PROVE  Recent(A, n) \in [1 .. 3 -> Times]
<1> SUFFICES ASSUME NEW i \in 1 .. 3, ~(i <= n) PROVE i - n \in 1 .. 3
  BY LeastDelay DEF Recent, Times
<1> QED OBVIOUS

LEMMA RecentNext ==
  ASSUME NEW A \in [1 .. 3 -> Times], NEW n \in Nat
  PROVE  LET B == Recent(A, n)
             C == Recent(A, n + 1)
         IN  C[1] = 0 /\ C[2] = B[1] /\ C[3] = B[2]
BY DEF Recent

(* A packet leaves by a right to send: the last three are apart, and so is *)
(* what the next event will send.                                          *)
LEMMA JustSentSound ==
  ASSUME NEW A \in [1 .. 3 -> Times], NEW s \in Sound(A), s.token, ~s.finished
  PROVE  /\ JustSent(s) \in After(s, A)
         /\ JustSent(s).delay = s.delay /\ JustSent(s).delay > 0
         /\ JustSent(s).pending = s.pending
         /\ JustSent(s).nextIn = s.nextIn
         /\ JustSent(s).unacked = s.unacked + 1
<1> DEFINE t == JustSent(s)
           B == Recent(A, s.sends)
           C == Recent(A, s.sends + 1)
<1>1. s \in FlowState /\ Spaced(s, B) /\ s.orphans = 0 /\ s.delay > 0
      /\ (Armed(s) \/ Fired(s))
  BY Parts, LeastDelay DEF Driven, FlowState, Idle
<1>2. /\ t \in FlowState /\ t.delay = s.delay /\ t.pending = s.pending
      /\ t.nextIn = s.nextIn /\ t.since = 0 /\ ~t.token
      /\ t.sends = s.sends + 1 /\ t.finished = s.finished /\ t.orphans = 0
      /\ t.unacked = s.unacked + 1
  <2>1. s.unacked + 1 \in Nat /\ s.sends + 1 \in Nat /\ 0 \in Times
    <3>1. s.unacked \in Nat /\ s.sends \in Nat
      BY <1>1 DEF FlowState
    <3>2. 0 \in Times
      BY LeastDelay DEF Times
    <3> QED BY <3>1, <3>2
  <2>2. t \in FlowState
    BY <1>1, <2>1 DEF FlowState, JustSent
  <2> QED BY <1>1, <2>2 DEF FlowState, JustSent
<1>3. /\ B \in [1 .. 3 -> Times] /\ C \in [1 .. 3 -> Times]
      /\ C[1] = 0 /\ C[2] = B[1] /\ C[3] = B[2]
  <2>1. s.sends \in Nat /\ s.sends + 1 \in Nat
    BY <1>1 DEF FlowState
  <2>2. B \in [1 .. 3 -> Times] /\ C \in [1 .. 3 -> Times]
    BY <2>1, RecentType
  <2> QED BY <2>1, <2>2, RecentNext
<1> HIDE DEF t, B, C
<1>4. Spaced(t, C)
  <2>1. /\ B[1] \in Nat /\ B[2] \in Nat /\ s.since \in Nat /\ s.nextIn \in Nat
    BY <1>1, <1>3, LeastDelay DEF Times, FlowState
  <2>2. Apart(t, C)
    BY <1>1, <1>2, <1>3, <2>1, LeastDelay DEF Spaced, Apart
  <2>3. ApartNext(t, C)
    BY <1>1, <1>2, <1>3, <2>1, LeastDelay DEF Spaced, Apart, ApartNext, Armed
  <2> QED BY <2>2, <2>3 DEF Spaced
<1>5. t \in Sound(A)
  BY <1>1, <1>2, <1>4 DEF Sound, Armed, Fired, Driven, Stopped, C
<1>6. Follows(s, t)
  BY <1>1, <1>2 DEF Follows, Fired
<1> QED BY <1>1, <1>2, <1>5, <1>6 DEF After, t

(* What is no business of the pacer.                                       *)
LEMMA Accounts ==
  ASSUME NEW A, NEW s \in Sound(A), NEW t \in FlowState,
         t.delay = s.delay, t.nextIn = s.nextIn, t.since = s.since,
         t.pending = s.pending, t.orphans = s.orphans, t.token = s.token,
         t.finished = s.finished, t.sends = s.sends,
         s.delay = 0 => t.unacked <= s.unacked /\ t.owed <= s.owed,
         s.finished => ~t.wake
  PROVE  t \in After(s, A)
<1>1. Spaced(t, Recent(A, t.sends))
  BY Parts DEF Spaced, Apart, ApartNext, Armed
<1>2. t.orphans = 0 /\ (Idle(t) \/ Armed(t) \/ Fired(t)) /\ Follows(s, t)
  BY Parts DEF Idle, Armed, Fired, Follows
<1>3. Driven(t) /\ Stopped(t)
  BY Parts DEF Driven, Stopped, FlowState
<1> QED BY <1>1, <1>2, <1>3 DEF Sound, After

LEMMA ResendSound ==
  ASSUME NEW A \in [1 .. 3 -> Times], NEW s \in Sound(A)
  PROVE  /\ Resend(s) \in After(s, A)
         /\ Resend(s).delay = s.delay /\ s.unacked <= Resend(s).unacked
<1>1. s \in FlowState /\ (s.owed > 0 => ~s.finished)
  BY Parts DEF Stopped, FlowState
<1>2. CASE s.owed > 0 /\ Room(s) /\ s.token
  <2> DEFINE r == JustSent(s)
             t == [r EXCEPT !.owed = @ - 1]
             b == t.owed > 0
             u == [t EXCEPT !.rtxPending = b]
  <2>1. /\ r \in After(s, A) /\ r.delay = s.delay /\ r.delay > 0
        /\ r.unacked = s.unacked + 1 /\ r.owed = s.owed
    BY <1>1, <1>2, JustSentSound DEF FlowState, JustSent
  <2>2. r \in Sound(A) /\ r \in FlowState /\ r.owed - 1 \in Nat
    BY <1>1, <1>2, <2>1, Parts DEF After, FlowState
  <2> HIDE DEF r
  <2>3. t \in After(r, A) /\ t \in Sound(A) /\ t \in FlowState /\ t.delay = r.delay
        /\ t.unacked = r.unacked
    <3>1. t \in FlowState
      BY <2>2 DEF FlowState
    <3>2. t \in After(r, A)
      BY <2>1, <2>2, <3>1, Accounts, Parts DEF FlowState, Stopped
    <3> QED BY <2>2, <3>1, <3>2 DEF After, FlowState
  <2> HIDE DEF t
  <2>4. u \in After(t, A) /\ u.delay = t.delay /\ u.unacked = t.unacked
    <3> b \in BOOLEAN
      OBVIOUS
    <3> HIDE DEF b
    <3>1. u \in FlowState
      BY <2>3 DEF FlowState
    <3>2. u \in After(t, A)
      BY <2>3, <3>1, Accounts, Parts DEF FlowState, Stopped
    <3> QED BY <2>3, <3>2 DEF FlowState
  <2>5. u \in After(s, A)
    BY <2>1, <2>3, <2>4, FollowsTrans DEF After
  <2>6. Resend(s) = u
    BY <1>2 DEF Resend, r, t
  <2> HIDE DEF u, b
  <2> QED BY <1>1, <2>1, <2>3, <2>4, <2>5, <2>6 DEF FlowState
<1>3. CASE ~(s.owed > 0 /\ Room(s) /\ s.token)
  <2> DEFINE b == s.owed > 0
             u == [s EXCEPT !.rtxPending = b]
  <2>0. b \in BOOLEAN
    OBVIOUS
  <2> HIDE DEF b
  <2>1. u \in FlowState
    BY <1>1, <2>0 DEF FlowState
  <2>2. u \in After(s, A)
    BY <1>1, <2>1, Accounts, Parts DEF FlowState, Stopped
  <2>3. Resend(s) = u
    BY <1>3 DEF Resend, b
  <2> QED BY <1>1, <2>2, <2>3 DEF FlowState
<1> QED BY <1>2, <1>3

LEMMA SendFreshSound ==
  ASSUME NEW A \in [1 .. 3 -> Times], NEW s \in Sound(A), ~s.finished
  PROVE  /\ SendFresh(s) \in After(s, A)
         /\ SendFresh(s).delay = s.delay /\ s.unacked <= SendFresh(s).unacked
<1>1. s \in FlowState
  BY Parts
<1>2. CASE s.fresh > 0 /\ Room(s) /\ s.token
  <2> DEFINE r == JustSent(s)
             t == [r EXCEPT !.fresh = @ - 1]
  <2>1. /\ r \in After(s, A) /\ r.delay = s.delay /\ r.delay > 0
        /\ r.unacked = s.unacked + 1 /\ r.fresh = s.fresh
    BY <1>1, <1>2, JustSentSound DEF FlowState, JustSent
  <2>2. r \in Sound(A) /\ r \in FlowState /\ r.fresh - 1 \in Nat
    BY <1>1, <1>2, <2>1, Parts DEF After, FlowState
  <2> HIDE DEF r
  <2>3. t \in After(r, A) /\ t.delay = r.delay /\ t.unacked = r.unacked
    <3>1. t \in FlowState
      BY <2>2 DEF FlowState
    <3>2. t \in After(r, A)
      BY <2>1, <2>2, <3>1, Accounts, Parts DEF FlowState, Stopped
    <3> QED BY <2>2, <3>2 DEF FlowState
  <2>4. t \in After(s, A)
    BY <2>1, <2>3, FollowsTrans DEF After
  <2>5. SendFresh(s) = t
    BY <1>2 DEF SendFresh, r
  <2> HIDE DEF t
  <2> QED BY <1>1, <2>1, <2>3, <2>4, <2>5 DEF FlowState
<1>3. CASE ~(s.fresh > 0 /\ Room(s) /\ s.token)
  BY <1>1, <1>3 DEF SendFresh, After, Follows, FlowState
<1> QED BY <1>2, <1>3

-----------------------------------------------------------------------------
(* The pacer.                                                              *)

\* A flow whose pacer has no event.
Ready(A) ==
  {s \in FlowState : /\ s.orphans = 0 /\ s.pending = NoEvent /\ ~s.finished
                     /\ Apart(s, Recent(A, s.sends))}

LEMMA UnscheduleOne ==
  ASSUME NEW s \in FlowState
  PROVE  /\ s.pending = NoEvent => Unschedule(s) = s
         /\ \A n \in Times : s.pending = EventAt(n) =>
              Unschedule(s) = [s EXCEPT !.pending = NoEvent]
<1> DEFINE due == {t \in DOMAIN s.pending : s.pending[t] > 0}
<1>1. ASSUME s.pending = NoEvent PROVE Unschedule(s) = s
  <2>1. due = {}
    BY <1>1 DEF NoEvent
  <2> QED BY <2>1 DEF Unschedule
<1>2. ASSUME NEW n \in Times, s.pending = EventAt(n)
      PROVE  Unschedule(s) = [s EXCEPT !.pending = NoEvent]
  <2>1. due = {n}
    BY <1>2 DEF EventAt
  <2>2. n \in Int
    BY LeastDelay DEF Times
  <2>3. Min({n}) = n
    <3>1. \E x \in {n} : \A y \in {n} : x =< y
      BY <2>2
    <3> QED BY <3>1, Zenon DEF Min
  <2>4. [s.pending EXCEPT ![n] = @ - 1] = NoEvent
    <3> DEFINE g == [EventAt(n) EXCEPT ![n] = @ - 1]
    <3>1. g = [x \in Times |-> IF x = n THEN EventAt(n)[n] - 1 ELSE EventAt(n)[x]]
      BY DEF EventAt
    <3>2. \A x \in Times : (IF x = n THEN EventAt(n)[n] - 1 ELSE EventAt(n)[x]) = 0
      BY DEF EventAt
    <3>3. g = NoEvent
      BY <3>1, <3>2 DEF NoEvent
    <3> QED BY <1>2, <3>3
  <2>5. Unschedule(s) = [s EXCEPT !.pending[n] = @ - 1]
    BY <2>1, <2>3 DEF Unschedule
  <2> QED BY <2>4, <2>5 DEF FlowState
<1> QED BY <1>1, <1>2

LEMMA ArmSound ==
  ASSUME NEW A \in [1 .. 3 -> Times], NEW s \in Ready(A), s.delay > 0,
         NEW d \in Times, d + s.since >= Least
  PROVE  /\ Arm(s, d) \in Sound(A) /\ Armed(Arm(s, d)) /\ ~Arm(s, d).finished
         /\ Arm(s, d).delay = s.delay /\ Arm(s, d).unacked = s.unacked
<1> DEFINE t == Arm(s, d)
           B == Recent(A, s.sends)
<1>1. s \in FlowState /\ s.orphans = 0 /\ s.pending = NoEvent /\ ~s.finished /\ Apart(s, B)
  BY DEF Ready
<1>2. [s.pending EXCEPT ![d] = @ + 1] = EventAt(d) /\ EventAt(d) \in [Times -> Nat]
  BY <1>1 DEF NoEvent, EventAt
<1>3. t = [s EXCEPT !.nextIn = d, !.pending = EventAt(d)]
  BY <1>1, <1>2 DEF Arm, FlowState
<1>4. t \in FlowState
  BY <1>1, <1>2, <1>3 DEF FlowState
<1>5. /\ t.delay = s.delay /\ t.nextIn = d /\ t.since = s.since /\ t.token = s.token
      /\ t.finished = s.finished /\ t.sends = s.sends /\ t.orphans = 0
      /\ t.unacked = s.unacked /\ t.pending = EventAt(d)
  BY <1>1, <1>3 DEF FlowState
<1> HIDE DEF t
<1>6. B \in [1 .. 3 -> Times] /\ s.sends \in Nat /\ s.since \in Times
  BY <1>1, RecentType DEF FlowState
<1> HIDE DEF B
<1>7. Spaced(t, B)
  <2>1. B[1] \in Nat /\ B[2] \in Nat /\ s.since \in Nat /\ d \in Nat /\ Least \in Nat
    BY <1>6, LeastDelay DEF Times
  <2>2. Apart(t, B)
    BY <1>1, <1>5 DEF Apart
  <2>3. t.nextIn + (IF t.token THEN t.since ELSE B[2]) >= Least
    BY <1>1, <1>5, <2>1 DEF Apart
  <2> QED BY <2>2, <2>3 DEF Spaced, ApartNext
<1>8. Armed(t)
  BY <1>5 DEF Armed
<1>9. Driven(t) /\ Stopped(t)
  BY <1>1, <1>5, LeastDelay DEF Driven, Stopped, FlowState
<1> QED BY <1>1, <1>4, <1>5, <1>7, <1>8, <1>9 DEF Sound, B, t

LEMMA NoEventIsNone ==
  ASSUME NEW n \in Times
  PROVE  NoEvent # EventAt(n)
<1>1. NoEvent[n] = 0 /\ EventAt(n)[n] = 1
  BY DEF NoEvent, EventAt
<1> QED BY <1>1

LEMMA RearmSound ==
  ASSUME NEW A \in [1 .. 3 -> Times], NEW t \in Sound(A), t.delay > 0
  PROVE  /\ Rearm(t) \in Sound(A) /\ Armed(Rearm(t)) /\ ~Rearm(t).finished
         /\ Rearm(t).delay = t.delay /\ Rearm(t).unacked = t.unacked
<1>1. /\ t \in FlowState /\ t.orphans = 0 /\ Apart(t, Recent(A, t.sends)) /\ ~t.finished
      /\ t.pending = NoEvent \/ t.pending = EventAt(t.nextIn)
  BY Parts, LeastDelay DEF Idle, Armed, Fired, Spaced, Stopped, FlowState
<1> DEFINE u == [t EXCEPT !.since = 0, !.pending = NoEvent]
<1>2. [Unschedule(t) EXCEPT !.since = 0] = u
  BY <1>1, UnscheduleOne DEF FlowState
<1>3. NoEvent \in [Times -> Nat] /\ 0 \in Times
  BY LeastDelay DEF NoEvent, Times
<1>4. /\ u \in FlowState /\ u.orphans = 0 /\ u.pending = NoEvent /\ ~u.finished
      /\ u.since = 0 /\ u.delay = t.delay /\ u.unacked = t.unacked
      /\ u.sends = t.sends /\ u.token = t.token
  BY <1>1, <1>3 DEF FlowState
<1> HIDE DEF u
<1>5. Apart(u, Recent(A, u.sends))
  <2> DEFINE B == Recent(A, u.sends)
  <2>1. Apart(t, B)
    BY <1>1, <1>4
  <2>2. 0 <= B[1]
    BY <2>1, LeastDelay DEF Apart, Times
  <2> HIDE DEF B
  <2>3. Apart(u, B)
    BY <2>1, <2>2, <1>4 DEF Apart
  <2> QED BY <2>3 DEF B
<1>6. u \in Ready(A)
  BY <1>4, <1>5 DEF Ready
<1>7. t.delay \in Times /\ t.delay + u.since >= Least
  <2>1. t.delay \in Delays
    BY <1>1 DEF FlowState
  <2> QED BY <2>1, <1>4, LeastDelay DEF Times
<1>8. Rearm(t) = Arm(u, t.delay)
  BY <1>2 DEF Rearm
<1> QED BY <1>4, <1>6, <1>7, <1>8, ArmSound

LEMMA FireNowSound ==
  ASSUME NEW A \in [1 .. 3 -> Times], NEW s \in Ready(A), s.delay > 0, s.since >= Least
  PROVE  /\ FireNow(s) \in Sound(A) /\ Armed(FireNow(s)) /\ ~FireNow(s).finished
         /\ s.unacked <= FireNow(s).unacked
<1> DEFINE t == [s EXCEPT !.token = TRUE]
           u == IF t.rtxPending THEN Resend(t) ELSE t
           v == SendFresh(u)
<1>1. /\ s \in FlowState /\ s.orphans = 0 /\ s.pending = NoEvent /\ ~s.finished
      /\ Apart(s, Recent(A, s.sends))
  BY DEF Ready
<1>2. /\ t \in FlowState /\ t.orphans = 0 /\ t.pending = NoEvent /\ ~t.finished
      /\ t.since = s.since /\ t.delay = s.delay /\ t.unacked = s.unacked
      /\ t.sends = s.sends /\ t.nextIn = s.nextIn
  BY <1>1 DEF FlowState
<1> HIDE DEF t
<1>3. t \in Sound(A)
  <2> DEFINE B == Recent(A, t.sends)
  <2>1. Apart(s, B) /\ s.since \in Nat /\ B[1] \in Nat /\ B[2] \in Nat
    BY <1>1, <1>2, LeastDelay DEF Apart, Times, FlowState
  <2> HIDE DEF B
  <2>2. Apart(t, B)
    BY <2>1, <1>2, LeastDelay DEF Apart
  <2>3. ~Armed(t) /\ Fired(t)
    BY <1>2, NoEventIsNone DEF Armed, Fired, FlowState
  <2>4. Driven(t) /\ Stopped(t)
    BY <1>2, LeastDelay DEF Driven, Stopped, FlowState
  <2> QED BY <1>2, <2>2, <2>3, <2>4 DEF Sound, Spaced, ApartNext, B
<1>4. u \in After(t, A) /\ u.delay = t.delay /\ t.unacked <= u.unacked
  BY <1>2, <1>3, ResendSound DEF After, Follows, FlowState
<1>5. u \in Sound(A) /\ ~u.finished /\ u \in FlowState
  BY <1>2, <1>4, Parts DEF After, Follows
<1> HIDE DEF u
<1>6. v \in Sound(A) /\ v \in FlowState /\ v.delay = u.delay /\ u.unacked <= v.unacked
  BY <1>5, SendFreshSound, Parts DEF After
<1> HIDE DEF v
<1>7. FireNow(s) = Rearm(v)
  BY DEF FireNow, v, u, t
<1>8. s.unacked <= v.unacked
  BY <1>1, <1>2, <1>4, <1>5, <1>6 DEF FlowState
<1> QED BY <1>2, <1>4, <1>6, <1>7, <1>8, RearmSound

(* Whatever the time since the last packet: the pacer is pending again, and *)
(* what it lets go first is far enough from the last packets.              *)
LEMMA ScheduleSendSound ==
  ASSUME NEW A \in [1 .. 3 -> Times], NEW s \in Ready(A), NEW d \in Delays
  PROVE  /\ ScheduleSend(s, d) \in Sound(A) /\ Armed(ScheduleSend(s, d))
         /\ ~ScheduleSend(s, d).finished
         /\ s.unacked <= ScheduleSend(s, d).unacked
<1> DEFINE t == [s EXCEPT !.delay = d]
           u == [t EXCEPT !.nextIn = 0]
<1>1. /\ s \in FlowState /\ s.orphans = 0 /\ s.pending = NoEvent /\ ~s.finished
      /\ Apart(s, Recent(A, s.sends))
  BY DEF Ready
<1>2. /\ t \in FlowState /\ t.orphans = 0 /\ t.pending = NoEvent /\ ~t.finished
      /\ t.since = s.since /\ t.delay = d /\ t.unacked = s.unacked
      /\ t.sends = s.sends /\ t.token = s.token
  BY <1>1 DEF FlowState
<1>3. t \in Ready(A) /\ t.delay > 0
  <2> HIDE DEF t
  <2>1. Apart(t, Recent(A, t.sends))
    BY <1>1, <1>2 DEF Apart
  <2> QED BY <1>2, <2>1, LeastDelay DEF Ready
<1>4. s.since \in Nat /\ s.since <= Horizon /\ d \in Nat /\ d <= Horizon /\ Least <= d
      /\ Least \in Nat /\ Horizon \in Nat
  <2>1. s.since \in Times
    BY <1>1 DEF FlowState
  <2> QED BY <2>1, LeastDelay DEF Times
<1> HIDE DEF t
<1>5. CASE s.since >= d
  <2>1. /\ u \in FlowState /\ u.orphans = 0 /\ u.pending = NoEvent /\ ~u.finished
        /\ u.since = t.since /\ u.delay = t.delay /\ u.unacked = t.unacked
        /\ u.sends = t.sends /\ u.token = t.token
    <3>1. 0 \in Times
      BY LeastDelay DEF Times
    <3> QED BY <1>2, <3>1 DEF FlowState
  <2> HIDE DEF u
  <2>2. u \in Ready(A)
    BY <1>3, <2>1 DEF Ready, Apart
  <2>3. u.since >= Least
    BY <1>4, <1>2, <1>5, <2>1
  <2>4. ScheduleSend(s, d) = FireNow(u)
    BY <1>5 DEF ScheduleSend, t, u
  <2> QED BY <1>2, <1>3, <2>1, <2>2, <2>3, <2>4, FireNowSound
<1>6. CASE ~(s.since >= d)
  <2>1. d - s.since \in Times /\ (d - s.since) + t.since >= Least
    BY <1>4, <1>2, <1>6 DEF Times
  <2>2. ScheduleSend(s, d) = Arm(t, d - s.since)
    BY <1>6 DEF ScheduleSend, t
  <2>3. s.unacked <= s.unacked
    BY <1>1 DEF FlowState
  <2> QED BY <1>2, <1>3, <2>1, <2>2, <2>3, ArmSound
<1> QED BY <1>5, <1>6

LEMMA ArmedNotFired ==
  ASSUME NEW s \in FlowState, Armed(s)
  PROVE  ~Fired(s)
BY NoEventIsNone DEF Armed, Fired, FlowState

LEMMA CancelFields ==
  ASSUME NEW A \in [1 .. 3 -> Times], NEW s \in Sound(A)
  PROVE  LET t == Cancel(s) IN
         /\ t \in FlowState /\ t.delay = 0 /\ t.pending = NoEvent
         /\ t.orphans = 0 /\ t.since = s.since /\ t.token = s.token
         /\ t.sends = s.sends /\ t.finished = s.finished /\ t.unacked = s.unacked
         /\ t.owed = s.owed /\ t.wake = s.wake /\ t.fresh = s.fresh
<1>1. /\ s \in FlowState /\ s.orphans = 0
      /\ s.pending = NoEvent \/ s.pending = EventAt(s.nextIn)
  BY Parts DEF Idle, Armed, Fired
<1>2. Cancel(s) = [s EXCEPT !.pending = NoEvent, !.delay = 0, !.nextIn = 0]
  BY <1>1, UnscheduleOne DEF Cancel, FlowState
<1>3. NoEvent \in [Times -> Nat] /\ 0 \in Times
  BY LeastDelay DEF NoEvent, Times
<1> QED BY <1>1, <1>2, <1>3 DEF FlowState

LEMMA NewPacerSound ==
  ASSUME NEW A \in [1 .. 3 -> Times], NEW s \in Sound(A), s.delay = 0
  PROVE  /\ NewPacer(s) \in After(s, A) /\ NewPacer(s).delay = 0
         /\ NewPacer(s).unacked = s.unacked /\ NewPacer(s).fresh = s.fresh
<1> DEFINE t == NewPacer(s)
           B == Recent(A, s.sends)
<1>1. /\ s \in FlowState /\ s.orphans = 0 /\ s.pending = NoEvent
      /\ Driven(s) /\ Stopped(s) /\ Apart(s, B)
  BY Parts, LeastDelay DEF Idle, Armed, Fired, FlowState, Spaced
<1>2. {x \in DOMAIN s.pending : s.pending[x] > 0} = {}
  BY <1>1 DEF NoEvent
<1>3. [x \in DOMAIN s.pending |-> 0] = NoEvent
  BY <1>1 DEF NoEvent
<1>4. t = [s EXCEPT !.since = 0, !.nextIn = 0, !.delay = 0, !.pending = NoEvent,
                    !.orphans = 0]
  <2>1. t = [s EXCEPT !.since = 0, !.nextIn = 0, !.delay = 0, !.pending = NoEvent,
                      !.orphans = @ + Cardinality({})]
    BY <1>2, <1>3, Zenon DEF NewPacer
  <2>2. s.orphans + Cardinality({}) = 0
    BY <1>1, FS_EmptySet
  <2> QED BY <2>1, <2>2
<1>5. NoEvent \in [Times -> Nat] /\ 0 \in Times
  BY LeastDelay DEF NoEvent, Times
<1>6. /\ t \in FlowState /\ t.delay = 0 /\ t.pending = NoEvent /\ t.orphans = 0
      /\ t.since = 0 /\ t.token = s.token /\ t.sends = s.sends
      /\ t.finished = s.finished /\ t.unacked = s.unacked /\ t.owed = s.owed
      /\ t.wake = s.wake /\ t.fresh = s.fresh
  BY <1>1, <1>4, <1>5 DEF FlowState
<1> HIDE DEF t
<1>7. Apart(t, B)
  <2>1. B[1] \in Times
    BY <1>1 DEF Apart
  <2>2. 0 <= B[1]
    BY <2>1, LeastDelay DEF Times
  <2> HIDE DEF B
  <2> QED BY <1>1, <1>6, <2>2 DEF Apart
<1>8. ~Armed(t) /\ ~Fired(t) /\ Idle(t)
  BY <1>6 DEF Armed, Fired, Idle
<1>9. Driven(t) /\ Stopped(t)
  BY <1>1, <1>6 DEF Driven, Stopped
<1> QED BY <1>6, <1>7, <1>8, <1>9 DEF After, Follows, Sound, Spaced, ApartNext, B, t

(* Moved, fired or replaced, the pacer is as a handler may find it.        *)
LEMMA UpdatePacingDelaySound ==
  ASSUME NEW A \in [1 .. 3 -> Times], NEW s \in Sound(A), NEW d \in Delays
  PROVE  LET t == UpdatePacingDelay(s, d) IN
         /\ t \in After(s, A) /\ s.unacked <= t.unacked
         /\ s.delay = 0 => t.delay = 0 /\ t.unacked = s.unacked /\ t.fresh = s.fresh
<1> DEFINE r == [s EXCEPT !.pacingDelay = d, !.updated = 0]
<1>1. s \in FlowState
  BY Parts
<1>2. CASE s.updated <= Gate
  BY <1>1, <1>2 DEF UpdatePacingDelay, After, Follows, FlowState
<1>3. /\ r \in FlowState /\ r.delay = s.delay /\ r.unacked = s.unacked
      /\ r.fresh = s.fresh /\ r.finished = s.finished
  <2>1. 0 \in Times
    BY LeastDelay DEF Times
  <2> QED BY <1>1, <2>1 DEF FlowState
<1>4. r \in After(s, A) /\ r \in Sound(A)
  <2>1. /\ r.nextIn = s.nextIn /\ r.since = s.since /\ r.pending = s.pending
        /\ r.orphans = s.orphans /\ r.token = s.token /\ r.sends = s.sends
        /\ r.owed = s.owed /\ r.wake = s.wake
    BY <1>1 DEF FlowState
  <2>2. s.owed <= s.owed /\ s.unacked <= s.unacked /\ (s.finished => ~s.wake)
    BY <1>1, Parts DEF FlowState, Stopped
  <2> HIDE DEF r
  <2> QED BY <1>3, <2>1, <2>2, Accounts DEF After
<1>5. CASE ~(s.updated <= Gate) /\ s.delay > 0
  <2> DEFINE c == Cancel(r)
             t == ScheduleSend(c, d)
  <2>1. t = UpdatePacingDelay(s, d)
    BY <1>5 DEF UpdatePacingDelay
  <2> HIDE DEF r
  <2>2. c \in Ready(A) /\ c.unacked = s.unacked
    <3>1. Apart(r, Recent(A, r.sends)) /\ ~r.finished
      BY <1>3, <1>4, <1>5, Parts, LeastDelay DEF Spaced, Stopped, FlowState
    <3> HIDE DEF c
    <3>2. /\ c \in FlowState /\ c.pending = NoEvent
          /\ c.orphans = 0 /\ c.since = r.since /\ c.token = r.token
          /\ c.sends = r.sends /\ c.finished = r.finished /\ c.unacked = r.unacked
      BY <1>4, CancelFields DEF c
    <3> QED BY <1>3, <3>1, <3>2 DEF Ready, Apart
  <2> HIDE DEF c
  <2>3. t \in Sound(A) /\ Armed(t) /\ ~t.finished /\ c.unacked <= t.unacked
    BY <2>2, ScheduleSendSound
  <2> HIDE DEF t
  <2>4. t.delay > 0 /\ ~Fired(t) /\ ~s.finished /\ t.finished \in BOOLEAN
    <3>1. ~Fired(t) /\ t.finished \in BOOLEAN
      BY <2>3, Parts, ArmedNotFired DEF FlowState
    <3> QED BY <1>1, <1>5, <2>3, <3>1, Parts, LeastDelay DEF Armed, Stopped, FlowState
  <2>5. t \in After(s, A)
    BY <1>1, <2>3, <2>4 DEF After, Follows, FlowState
  <2> QED BY <1>5, <2>1, <2>2, <2>3, <2>5, <1>1, LeastDelay DEF FlowState
<1>6. CASE ~(s.updated <= Gate) /\ ~(s.delay > 0)
  <2>1. UpdatePacingDelay(s, d) = NewPacer(r)
    BY <1>6 DEF UpdatePacingDelay
  <2>2. s.delay = 0
    BY <1>1, <1>6, LeastDelay DEF FlowState
  <2> HIDE DEF r
  <2>3. NewPacer(r) \in After(s, A)
    BY <1>3, <1>4, <2>2, NewPacerSound, FollowsTrans DEF After
  <2> QED BY <1>1, <1>3, <1>4, <2>1, <2>2, <2>3, NewPacerSound DEF FlowState
<1> QED BY <1>2, <1>5, <1>6

-----------------------------------------------------------------------------
(* The handlers of the flow.                                               *)

LEMMA TimeOutSound ==
  ASSUME NEW A \in [1 .. 3 -> Times], NEW s \in Sound(A), ~s.finished,
         NEW d \in Delays \cup {0}, NEW w \in Windows
  PROVE  TimeOut(s, d, w) \in After(s, A)
<1>1. s \in FlowState
  BY Parts
<1>2. CASE d = 0 \/ s.unacked = 0 \/ s.timeouts = 0
  BY <1>2 DEF TimeOut, After, Follows
<1>3. CASE ~(d = 0 \/ s.unacked = 0 \/ s.timeouts = 0)
  <2> DEFINE v == Min({s.window, w})
             r == [s EXCEPT !.window = v, !.timeouts = @ - 1]
             t == UpdatePacingDelay(r, d)
             u == [t EXCEPT !.unacked = @ - 1, !.owed = @ + 1]
  <2>1. TimeOut(s, d, w) = u
    BY <1>3 DEF TimeOut
  <2>2. v \in Windows /\ s.timeouts - 1 \in Nat /\ s.delay > 0 /\ s.unacked > 0
    <3>1. s.window \in Windows /\ s.window \in Int /\ w \in Int
      <4>1. s.window \in Windows
        BY <1>1 DEF FlowState
      <4>2. Windows \subseteq Int
        BY PacingAssumption
      <4> QED BY <4>1, <4>2
    <3>2. v \in Windows
      BY <3>1, MinOfTwo
    <3>3. s.delay > 0
      BY <1>1, <1>3, Parts, LeastDelay DEF Driven, FlowState
    <3>4. s.timeouts - 1 \in Nat /\ s.unacked > 0
      BY <1>1, <1>3 DEF FlowState
    <3> QED BY <3>2, <3>3, <3>4
  <2> HIDE DEF v
  <2>3. /\ r \in FlowState /\ r.delay = s.delay /\ r.unacked = s.unacked
        /\ r.nextIn = s.nextIn /\ r.since = s.since /\ r.pending = s.pending
        /\ r.orphans = s.orphans /\ r.token = s.token /\ r.sends = s.sends
        /\ r.owed = s.owed /\ r.wake = s.wake /\ r.finished = s.finished
    BY <1>1, <2>2 DEF FlowState
  <2> HIDE DEF r
  <2>4. r \in After(s, A) /\ r \in Sound(A)
    <3>1. s.owed <= s.owed /\ s.unacked <= s.unacked /\ (s.finished => ~s.wake)
      BY <1>1, Parts DEF FlowState, Stopped
    <3> QED BY <2>3, <3>1, Accounts DEF After
  <2>5. t \in After(r, A) /\ r.unacked <= t.unacked
    BY <2>4, <1>3, UpdatePacingDelaySound
  <2> HIDE DEF t
  <2>6. /\ t \in Sound(A) /\ t \in FlowState /\ t.delay > 0 /\ ~t.finished
        /\ t.unacked - 1 \in Nat /\ t.owed + 1 \in Nat
    <3>1. t \in Sound(A) /\ t \in FlowState /\ t.delay > 0 /\ ~t.finished
      BY <2>2, <2>3, <2>5, Parts DEF After, Follows
    <3>2. t.unacked \in Nat /\ t.owed \in Nat /\ s.unacked \in Nat
      BY <1>1, <3>1 DEF FlowState
    <3> QED BY <3>1, <3>2, <2>2, <2>3, <2>5
  <2>7. /\ u \in FlowState /\ u.delay = t.delay /\ u.finished = t.finished
        /\ u.nextIn = t.nextIn /\ u.since = t.since /\ u.pending = t.pending
        /\ u.orphans = t.orphans /\ u.token = t.token /\ u.sends = t.sends
    BY <2>6 DEF FlowState
  <2> HIDE DEF u
  <2>8. u \in After(t, A)
    <3>1. t.delay # 0
      BY <2>6, LeastDelay DEF FlowState
    <3> QED BY <2>6, <2>7, <3>1, Accounts
  <2>9. u \in After(s, A)
    BY <2>4, <2>5, <2>8, FollowsTrans DEF After
  <2> QED BY <2>1, <2>9
<1> QED BY <1>2, <1>3

LEMMA RetransmitPacketSound ==
  ASSUME NEW A \in [1 .. 3 -> Times], NEW s \in Sound(A), ~s.finished,
         NEW d \in Delays \cup {0}, NEW w \in Windows
  PROVE  RetransmitPacket(s, d, w) \in After(s, A)
<1> DEFINE r == [s EXCEPT !.rtxPending = FALSE]
           t == TimeOut(r, d, w)
<1>1. s \in FlowState
  BY Parts
<1>2. /\ r \in FlowState /\ r.delay = s.delay /\ r.unacked = s.unacked
      /\ r.nextIn = s.nextIn /\ r.since = s.since /\ r.pending = s.pending
      /\ r.orphans = s.orphans /\ r.token = s.token /\ r.sends = s.sends
      /\ r.owed = s.owed /\ r.wake = s.wake /\ r.finished = s.finished
  BY <1>1 DEF FlowState
<1> HIDE DEF r
<1>3. r \in After(s, A) /\ r \in Sound(A)
  <2>1. s.owed <= s.owed /\ s.unacked <= s.unacked
    BY <1>1 DEF FlowState
  <2> QED BY <1>2, <2>1, Accounts DEF After
<1>4. t \in After(r, A) /\ t \in Sound(A)
  BY <1>2, <1>3, TimeOutSound DEF After
<1> HIDE DEF t
<1>5. Resend(t) \in After(t, A)
  BY <1>4, ResendSound
<1>6. Resend(t) \in After(s, A)
  BY <1>3, <1>4, <1>5, FollowsTrans DEF After
<1> QED BY <1>6 DEF RetransmitPacket, t, r

LEMMA SendAllowedSound ==
  ASSUME NEW A \in [1 .. 3 -> Times], NEW s \in Sound(A), ~s.finished,
         NEW d \in Delays \cup {0}, NEW w \in Windows
  PROVE  SendAllowed(s, d, w) \in After(s, A)
<1> DEFINE t == IF s.rtxPending THEN RetransmitPacket(s, d, w) ELSE s
<1>1. t \in After(s, A) /\ t \in Sound(A) /\ ~t.finished
  BY RetransmitPacketSound DEF After, Follows
<1> HIDE DEF t
<1>2. SendFresh(t) \in After(t, A)
  BY <1>1, SendFreshSound
<1>3. SendFresh(t) \in After(s, A)
  BY <1>1, <1>2, FollowsTrans DEF After
<1> QED BY <1>3 DEF SendAllowed, t

LEMMA SendPacketsSound ==
  ASSUME NEW A \in [1 .. 3 -> Times], NEW s \in Sound(A), ~s.finished,
         NEW d \in Delays \cup {0}, NEW w \in Windows
  PROVE  SendPackets(s, d, w) \in After(s, A)
<1> DEFINE t == SendAllowed(s, d, w)
           u == ScheduleSend(t, t.pacingDelay)
<1>1. t \in After(s, A)
  BY SendAllowedSound
<1>2. SendPackets(s, d, w) \in {t, u} /\ (t.delay # 0 => SendPackets(s, d, w) = t)
  BY DEF SendPackets
<1> HIDE DEF t
<1>3. t \in Sound(A) /\ t \in FlowState /\ ~t.finished /\ t.finished = s.finished
  BY <1>1, Parts DEF After, Follows
<1>4. ASSUME t.delay = 0
      PROVE  u \in After(s, A)
  <2>1. t \in Ready(A)
    BY <1>3, <1>4, Parts, LeastDelay DEF Ready, Idle, Armed, Fired, Spaced
  <2>2. t.pacingDelay \in Delays
    BY <1>3 DEF FlowState
  <2>3. u \in Sound(A) /\ Armed(u) /\ ~u.finished
    BY <2>1, <2>2, ScheduleSendSound
  <2> HIDE DEF u
  <2>4. u \in FlowState /\ u.delay > 0 /\ ~Fired(u) /\ u.finished = t.finished
    BY <1>3, <2>3, Parts, ArmedNotFired DEF Armed, FlowState
  <2> QED BY <1>3, <2>3, <2>4 DEF After, Follows
<1> QED BY <1>1, <1>2, <1>4

LEMMA RecentNone ==
  ASSUME NEW A \in [1 .. 3 -> Times]
  PROVE  Recent(A, 0) = A
<1>1. Recent(A, 0) = [i \in 1 .. 3 |-> A[i]]
  <2>1. \A i \in 1 .. 3 : (IF i <= 0 THEN 0 ELSE A[i - 0]) = A[i]
    OBVIOUS
  <2> QED BY <2>1, Zenon DEF Recent
<1> QED BY <1>1

(* Every handler that leaves the flow sound keeps the invariant.           *)
LEMMA StepKeeps ==
  ASSUME IInv, NEW s \in Sound(ages), ~Fired(s), Step(s)
  PROVE  IInv'
<1> DEFINE t == [s EXCEPT !.sends = 0]
           B == Recent(ages, s.sends)
<1>1. /\ s \in FlowState /\ s.orphans = 0 /\ Spaced(s, B)
      /\ Idle(s) \/ Armed(s)
      /\ Driven(s) /\ Stopped(s)
  BY Parts
<1>2. f' = t /\ ages' = B
  BY DEF Step, Recent
<1>3. /\ t \in FlowState /\ t.delay = s.delay /\ t.nextIn = s.nextIn /\ t.since = s.since
      /\ t.pending = s.pending /\ t.orphans = 0 /\ t.token = s.token
      /\ t.finished = s.finished /\ t.sends = 0 /\ t.unacked = s.unacked
      /\ t.owed = s.owed /\ t.wake = s.wake
  BY <1>1 DEF FlowState
<1>4. B \in [1 .. 3 -> Times] /\ Recent(B, 0) = B
  <2>1. B \in [1 .. 3 -> Times]
    BY <1>1, RecentType DEF IInv, FlowState
  <2> QED BY <2>1, RecentNone
<1> HIDE DEF t, B
<1>5. Spaced(t, B)
  BY <1>1, <1>3 DEF Spaced, Apart, ApartNext, Armed
<1>6. (Idle(t) \/ Armed(t)) /\ Driven(t) /\ Stopped(t)
  BY <1>1, <1>3 DEF Idle, Armed, Driven, Stopped
<1>7. t \in Sound(B) /\ ~Fired(t)
  <2>1. ~Fired(t)
    BY <1>3 DEF Fired
  <2> QED BY <2>1, <1>3, <1>4, <1>5, <1>6 DEF Sound
<1> QED BY <1>2, <1>3, <1>4, <1>7 DEF IInv

LEMMA InitIInv == Init => IInv
<1> SUFFICES ASSUME Init PROVE IInv
  OBVIOUS
<1>1. PICK d \in Delays, w \in Windows :
        f = [delay |-> 0, nextIn |-> 0, since |-> 0,
             pending |-> [t \in 0 .. Horizon |-> 0], orphans |-> 0,
             pacingDelay |-> d, updated |-> Gate + 1, token |-> FALSE,
             rtxPending |-> FALSE, window |-> w, fresh |-> FlowPkts, owed |-> 0,
             unacked |-> 0, wake |-> TRUE, finished |-> FALSE,
             timeouts |-> MaxTimeouts, sends |-> 0]
  BY DEF Init
<1>2. /\ 0 \in Times /\ Gate + 1 \in Times /\ Horizon \in Times
      /\ FlowPkts \in Nat /\ MaxTimeouts \in Nat
      /\ NoEvent \in [Times -> Nat] /\ NoEvent = [t \in 0 .. Horizon |-> 0]
  BY LeastDelay, PacingAssumption DEF Times, NoEvent
<1>3. f \in FlowState
  BY <1>1, <1>2 DEF FlowState
<1>4. ages \in [1 .. 3 -> Times] /\ ages[1] = Horizon /\ ages[2] = Horizon /\ ages[3] = Horizon
  BY <1>2 DEF Init
<1>5. /\ f.delay = 0 /\ f.pending = NoEvent /\ f.orphans = 0 /\ f.since = 0 /\ ~f.token
      /\ f.unacked = 0 /\ f.owed = 0 /\ ~f.finished /\ f.sends = 0
  BY <1>1, <1>2
<1>6. Spaced(f, ages)
  BY <1>4, <1>5, LeastDelay DEF Spaced, Apart, ApartNext, Armed
<1>7. Idle(f) /\ ~Fired(f) /\ Driven(f) /\ Stopped(f)
  BY <1>5 DEF Idle, Fired, Driven, Stopped
<1> QED BY <1>3, <1>4, <1>5, <1>6, <1>7, RecentNone DEF IInv, Sound

LEMMA IInvParts ==
  ASSUME IInv
  PROVE  /\ ages \in [1 .. 3 -> Times] /\ f \in Sound(ages) /\ f \in FlowState
         /\ Idle(f) \/ Armed(f)
         /\ Spaced(f, ages) /\ Driven(f) /\ Stopped(f) /\ f.orphans = 0
         /\ f.sends = 0 /\ ~Fired(f)
BY Parts, RecentNone DEF IInv

LEMMA DoNextEventIInv ==
  ASSUME IInv, NEW d \in Delays \cup {0}, NEW w \in Windows, DoNextEvent(d, w)
  PROVE  IInv'
<1> DEFINE r == [f EXCEPT !.wake = FALSE]
           s == SendPackets(r, d, w)
<1>1. f \in FlowState /\ f \in Sound(ages) /\ ~f.finished /\ ages \in [1 .. 3 -> Times]
  BY IInvParts DEF DoNextEvent, Stopped
<1>2. /\ r \in FlowState /\ r.delay = f.delay /\ r.unacked = f.unacked
      /\ r.nextIn = f.nextIn /\ r.since = f.since /\ r.pending = f.pending
      /\ r.orphans = f.orphans /\ r.token = f.token /\ r.sends = f.sends
      /\ r.owed = f.owed /\ ~r.wake /\ r.finished = f.finished
  BY <1>1 DEF FlowState
<1>3. Step(s)
  BY DEF DoNextEvent
<1> HIDE DEF r
<1>4. r \in After(f, ages) /\ r \in Sound(ages) /\ ~Fired(r)
  <2>1. f.owed <= f.owed /\ f.unacked <= f.unacked
    BY <1>1 DEF FlowState
  <2> QED BY <1>1, <1>2, <2>1, Accounts, IInvParts DEF After, Follows
<1>5. s \in After(r, ages)
  BY <1>1, <1>2, <1>4, SendPacketsSound
<1>6. s \in Sound(ages) /\ ~Fired(s)
  BY <1>4, <1>5 DEF After, Follows
<1> HIDE DEF s
<1> QED BY <1>3, <1>6, StepKeeps

LEMMA RtxTimeoutIInv ==
  ASSUME IInv, NEW d \in Delays, NEW w \in Windows, RtxTimeout(d, w)
  PROVE  IInv'
<1> DEFINE s == RetransmitPacket(f, d, w)
<1>1. f \in Sound(ages) /\ ~f.finished /\ Step(s) /\ ages \in [1 .. 3 -> Times] /\ ~Fired(f)
  BY IInvParts DEF RtxTimeout
<1>2. s \in After(f, ages)
  BY <1>1, RetransmitPacketSound
<1>3. s \in Sound(ages) /\ ~Fired(s)
  BY <1>1, <1>2 DEF After, Follows
<1> HIDE DEF s
<1> QED BY <1>1, <1>3, StepKeeps

(* The flow ends: whatever the pacer had pending is gone.                  *)
LEMMA FinishFlowSound ==
  ASSUME NEW A \in [1 .. 3 -> Times], NEW s \in Sound(A)
  PROVE  FinishFlow(s) \in Sound(A) /\ ~Fired(FinishFlow(s))
<1> DEFINE c == Cancel(s)
           t == FinishFlow(s)
           B == Recent(A, s.sends)
<1>1. /\ c \in FlowState /\ c.delay = 0 /\ c.pending = NoEvent
      /\ c.orphans = 0 /\ c.since = s.since /\ c.token = s.token
      /\ c.sends = s.sends
  BY CancelFields
<1> HIDE DEF c
<1>2. t = [c EXCEPT !.finished = TRUE, !.owed = 0, !.rtxPending = FALSE, !.wake = FALSE]
  BY DEF FinishFlow, c
<1>3. /\ t \in FlowState /\ t.delay = 0 /\ t.pending = NoEvent
      /\ t.orphans = 0 /\ t.since = s.since /\ t.token = s.token
      /\ t.sends = s.sends /\ t.finished /\ t.owed = 0 /\ ~t.wake
  BY <1>1, <1>2 DEF FlowState
<1> HIDE DEF t
<1>4. Apart(t, B)
  BY <1>3, Parts DEF Spaced, Apart
<1>5. ~Armed(t) /\ ~Fired(t) /\ Idle(t) /\ Driven(t) /\ Stopped(t)
  BY <1>3 DEF Armed, Fired, Idle, Driven, Stopped
<1> QED BY <1>3, <1>4, <1>5 DEF Sound, Spaced, ApartNext, B, t

LEMMA WakeLaterSound ==
  ASSUME NEW A, NEW s \in Sound(A), ~s.finished
  PROVE  WakeLater(s) \in After(s, A)
<1> DEFINE b == s.wake \/ (Room(s) /\ ~s.finished /\ (s.owed > 0 \/ s.unacked > 0))
           t == [s EXCEPT !.wake = b]
<1>1. s \in FlowState /\ b \in BOOLEAN
  <2>1. s \in FlowState
    BY Parts
  <2> QED BY <2>1 DEF FlowState
<1> HIDE DEF b
<1>2. /\ t \in FlowState /\ t.delay = s.delay /\ t.unacked = s.unacked
      /\ t.nextIn = s.nextIn /\ t.since = s.since /\ t.pending = s.pending
      /\ t.orphans = s.orphans /\ t.token = s.token /\ t.sends = s.sends
      /\ t.owed = s.owed /\ t.finished = s.finished
  BY <1>1 DEF FlowState
<1>3. WakeLater(s) = t
  BY <1>1 DEF WakeLater, b
<1> HIDE DEF t
<1>4. s.owed <= s.owed /\ s.unacked <= s.unacked
  BY <1>1 DEF FlowState
<1> QED BY <1>2, <1>3, <1>4, Accounts

\* The flow once receivePacket has counted the packet and moved the pacer.
Acked(d) == UpdatePacingDelay([f EXCEPT !.unacked = @ - 1], d)

LEMMA AckedSound ==
  ASSUME IInv, NEW d \in Delays, f.unacked > 0
  PROVE  /\ Acked(d) \in After(f, ages)
         /\ f.finished => /\ Acked(d).delay = 0 /\ Acked(d).fresh = f.fresh
                          /\ Acked(d).unacked <= f.unacked
<1> DEFINE r == [f EXCEPT !.unacked = @ - 1]
<1>1. /\ f \in FlowState /\ f \in Sound(ages) /\ ages \in [1 .. 3 -> Times]
      /\ f.unacked \in Nat /\ f.unacked - 1 \in Nat /\ f.owed \in Nat
  <2>1. f \in FlowState /\ f \in Sound(ages) /\ ages \in [1 .. 3 -> Times]
    BY IInvParts
  <2>2. f.unacked \in Nat /\ f.owed \in Nat
    BY <2>1 DEF FlowState
  <2> QED BY <2>1, <2>2
<1>2. /\ r \in FlowState /\ r.delay = f.delay /\ r.unacked = f.unacked - 1
      /\ r.nextIn = f.nextIn /\ r.since = f.since /\ r.pending = f.pending
      /\ r.orphans = f.orphans /\ r.token = f.token /\ r.sends = f.sends
      /\ r.owed = f.owed /\ r.wake = f.wake /\ r.finished = f.finished
      /\ r.fresh = f.fresh
  BY <1>1 DEF FlowState
<1>3. Acked(d) = UpdatePacingDelay(r, d)
  BY DEF Acked
<1> HIDE DEF r
<1>4. r \in After(f, ages) /\ r \in Sound(ages)
  <2>1. r.owed <= f.owed /\ r.unacked <= f.unacked /\ (f.finished => ~r.wake)
    BY <1>1, <1>2, IInvParts DEF Stopped
  <2> QED BY <1>1, <1>2, <2>1, Accounts DEF After
<1>5. /\ Acked(d) \in After(r, ages)
      /\ r.delay = 0 => /\ Acked(d).delay = 0 /\ Acked(d).unacked = r.unacked
                        /\ Acked(d).fresh = r.fresh
  BY <1>1, <1>3, <1>4, UpdatePacingDelaySound
<1>6. Acked(d) \in After(f, ages)
  BY <1>4, <1>5, FollowsTrans DEF After
<1>7. f.finished => f.delay = 0
  BY IInvParts DEF Stopped
<1> QED BY <1>1, <1>2, <1>5, <1>6, <1>7

LEMMA ReceiveAckIInv ==
  ASSUME IInv, NEW d \in Delays, NEW w \in Windows, ReceiveAck(d, w)
  PROVE  IInv'
<1> DEFINE s == Acked(d)
<1>1. /\ s \in Sound(ages) /\ ~Fired(s) /\ ages \in [1 .. 3 -> Times] /\ s \in FlowState
  BY AckedSound, IInvParts, Parts DEF ReceiveAck, After, Follows
<1>2. CASE s.finished /\ Step(s)
  BY <1>1, <1>2, StepKeeps
<1>3. CASE ~s.finished /\ Step(FinishFlow(s))
  BY <1>1, <1>3, FinishFlowSound, StepKeeps
<1>4. CASE ~s.finished /\ \E late \in {0, d} :
             Step(WakeLater(SendPackets([s EXCEPT !.window = w], late, w)))
  <2> PICK late \in {0, d} : Step(WakeLater(SendPackets([s EXCEPT !.window = w], late, w)))
    BY <1>4
  <2> DEFINE r == [s EXCEPT !.window = w]
             t == SendPackets(r, late, w)
             u == WakeLater(t)
  <2>0. Step(u)
    OBVIOUS
  <2> HIDE DEF s
  <2>1. /\ r \in FlowState /\ r.delay = s.delay /\ r.unacked = s.unacked
        /\ r.nextIn = s.nextIn /\ r.since = s.since /\ r.pending = s.pending
        /\ r.orphans = s.orphans /\ r.token = s.token /\ r.sends = s.sends
        /\ r.owed = s.owed /\ r.wake = s.wake /\ r.finished = s.finished
    BY <1>1 DEF FlowState
  <2> HIDE DEF r
  <2>2. r \in After(s, ages) /\ r \in Sound(ages) /\ ~Fired(r) /\ ~r.finished
    <3>1. s.owed <= s.owed /\ s.unacked <= s.unacked
      BY <1>1 DEF FlowState
    <3> QED BY <1>1, <1>4, <2>1, <3>1, Accounts DEF After, Follows
  <2>3. t \in Sound(ages) /\ ~Fired(t) /\ ~t.finished
    BY <1>1, <2>2, SendPacketsSound DEF After, Follows
  <2> HIDE DEF t
  <2>4. u \in Sound(ages) /\ ~Fired(u)
    BY <2>3, WakeLaterSound DEF After, Follows
  <2> HIDE DEF u
  <2> QED BY <2>0, <2>4, StepKeeps
<1> QED BY <1>2, <1>3, <1>4 DEF ReceiveAck, Acked

LEMMA PacerTickIInv ==
  ASSUME IInv, NEW d \in Delays \cup {0}, NEW w \in Windows, PacerTick(d, w)
  PROVE  IInv' /\ ~f.finished
<1> DEFINE r == [f EXCEPT !.pending[0] = @ - 1, !.token = TRUE]
           s == SendAllowed(r, d, w)
           t == Rearm(s)
           B == Recent(ages, f.sends)
<1>1. /\ f \in FlowState /\ f \in Sound(ages) /\ ages \in [1 .. 3 -> Times]
      /\ f.pending[0] > 0 /\ Step(t) /\ 0 \in Times
  BY IInvParts, LeastDelay DEF PacerTick, Times
<1>2. Armed(f) /\ f.nextIn = 0 /\ ~f.finished
  <2>1. Armed(f)
    BY <1>1, IInvParts DEF Idle, NoEvent
  <2>2. f.nextIn = 0
    BY <1>1, <2>1 DEF Armed, EventAt
  <2>3. ~f.finished
    BY <2>1, IInvParts DEF Armed, Stopped
  <2> QED BY <2>1, <2>2, <2>3
<1>3. [f.pending EXCEPT ![0] = @ - 1] = NoEvent /\ NoEvent \in [Times -> Nat]
  <2> DEFINE g == [EventAt(0) EXCEPT ![0] = @ - 1]
  <2>1. g = [x \in Times |-> IF x = 0 THEN EventAt(0)[0] - 1 ELSE EventAt(0)[x]]
    BY DEF EventAt
  <2>2. \A x \in Times : (IF x = 0 THEN EventAt(0)[0] - 1 ELSE EventAt(0)[x]) = 0
    BY DEF EventAt
  <2>3. g = NoEvent
    BY <2>1, <2>2 DEF NoEvent
  <2> QED BY <1>2, <2>3 DEF Armed, NoEvent
<1>4. r = [f EXCEPT !.pending = NoEvent, !.token = TRUE]
  BY <1>1, <1>3 DEF FlowState
<1>5. /\ r \in FlowState /\ r.delay = f.delay /\ r.pending = NoEvent /\ r.token
      /\ r.since = f.since /\ r.orphans = f.orphans /\ r.sends = f.sends
      /\ r.finished = f.finished /\ r.nextIn = f.nextIn
  BY <1>1, <1>3, <1>4 DEF FlowState
<1> HIDE DEF r
<1>6. r \in Sound(ages) /\ r.delay > 0
  <2>1. Spaced(f, B) /\ f.orphans = 0
    BY <1>1, Parts
  <2> HIDE DEF B
  <2>2. B[1] \in Nat /\ B[2] \in Nat /\ Least \in Nat /\ f.since \in Nat
    BY <2>1, <1>1, LeastDelay DEF Spaced, Apart, Times, FlowState
  <2>3. B[2] >= Least
    BY <1>2, <2>1, <2>2 DEF Spaced, Apart, ApartNext
  <2>4. Apart(r, B)
    BY <2>1, <2>3, <1>5 DEF Spaced, Apart
  <2>5. Fired(r) /\ ~Armed(r) /\ r.delay > 0
    BY <1>2, <1>5, NoEventIsNone DEF Armed, Fired, FlowState
  <2>6. Driven(r) /\ Stopped(r)
    BY <1>2, <1>5, <2>5 DEF Driven, Stopped
  <2> QED BY <1>5, <2>1, <2>4, <2>5, <2>6 DEF Sound, Spaced, ApartNext, B
<1>7. s \in Sound(ages) /\ s.delay > 0
  BY <1>1, <1>2, <1>5, <1>6, SendAllowedSound DEF After, Follows
<1> HIDE DEF s
<1>8. t \in Sound(ages) /\ ~Fired(t)
  BY <1>1, <1>7, RearmSound, Parts, ArmedNotFired
<1> HIDE DEF t
<1> QED BY <1>1, <1>2, <1>8, StepKeeps

LEMMA OlderFacts ==
  ASSUME NEW n \in Times
  PROVE  /\ Older(n, 1) \in Times /\ n <= Older(n, 1)
         /\ Older(n, 1) = n + 1 \/ Older(n, 1) = Horizon
         /\ \A m \in Times : n <= m => Older(n, 1) <= Older(m, 1)
<1>1. \A m \in Times : Older(m, 1) = IF m + 1 <= Horizon THEN m + 1 ELSE Horizon
  <2> TAKE m \in Times
  <2>1. m + 1 \in Int /\ Horizon \in Int
    BY LeastDelay DEF Times
  <2> QED BY <2>1, MinOfTwo DEF Older
<1>2. Horizon \in Nat
  BY LeastDelay
<1> QED BY <1>1, <1>2 DEF Times

(* Time brings the next event nearer and takes the last packets farther by *)
(* as much, up to the horizon.                                             *)
LEMMA TickIInv ==
  ASSUME IInv, Tick
  PROVE  IInv'
<1> DEFINE P == [t \in DOMAIN f.pending |-> IF t = Horizon THEN 0 ELSE f.pending[t + 1]]
           m == f.nextIn - (IF f.delay > 0 THEN 1 ELSE 0)
           e == Older(f.since, 1)
           u == Older(f.updated, 1)
           B == [i \in 1 .. 3 |-> Older(ages[i], 1)]
           t == [f EXCEPT !.pending = P, !.nextIn = m, !.since = e, !.updated = u]
<1>1. f' = t /\ ages' = B /\ f.pending[0] = 0
  BY DEF Tick
<1>2. /\ ages \in [1 .. 3 -> Times] /\ f \in FlowState /\ (Idle(f) \/ Armed(f))
      /\ Spaced(f, ages) /\ Driven(f) /\ Stopped(f) /\ f.orphans = 0 /\ f.sends = 0
  BY IInvParts
<1>3. Horizon \in Nat /\ Least \in Nat /\ Least <= Horizon
  BY LeastDelay
<1>4. /\ f.delay > 0 => /\ f.nextIn \in 1 .. Horizon /\ P = EventAt(m)
      /\ ~(f.delay > 0) => P = NoEvent
      /\ m \in Times
  <2>1. f.nextIn \in Times /\ DOMAIN f.pending = Times
    BY <1>2 DEF FlowState
  <2>2. CASE f.delay > 0
    <3>1. f.pending = EventAt(f.nextIn)
      BY <1>2, <2>2 DEF Idle, Armed
    <3>2. f.nextIn # 0
      <4>1. 0 \in Times
        BY <1>3 DEF Times
      <4> QED BY <1>1, <3>1, <4>1 DEF EventAt
    <3>3. f.nextIn \in 1 .. Horizon /\ m = f.nextIn - 1 /\ m \in Times
      BY <1>3, <2>1, <2>2, <3>2 DEF Times
    <3>4. P = [x \in Times |-> IF x = Horizon THEN 0 ELSE EventAt(f.nextIn)[x + 1]]
      BY <2>1, <3>1
    <3>5. \A x \in Times : (IF x = Horizon THEN 0 ELSE EventAt(f.nextIn)[x + 1])
                           = IF x = m THEN 1 ELSE 0
      BY <1>3, <3>3 DEF Times, EventAt
    <3> HIDE DEF m, P
    <3>6. P = EventAt(m)
      BY <3>4, <3>5 DEF EventAt
    <3> QED BY <2>2, <3>3, <3>6
  <2>3. CASE ~(f.delay > 0)
    <3>1. f.pending = NoEvent
      BY <1>2, <2>3 DEF Idle, Armed
    <3>2. \A x \in Times : x # Horizon => x + 1 \in Times
      BY <1>3 DEF Times
    <3>3. P = NoEvent
      BY <2>1, <3>1, <3>2 DEF NoEvent
    <3>4. m = f.nextIn
      BY <2>1, <2>3 DEF Times
    <3> QED BY <2>1, <2>3, <3>3, <3>4
  <2> QED BY <2>2, <2>3
<1>5. P \in [Times -> Nat]
  BY <1>4 DEF EventAt, NoEvent
<1>6. e \in Times /\ u \in Times
  BY <1>2, OlderFacts DEF FlowState
<1>7. B \in [1 .. 3 -> Times] /\ \A i \in 1 .. 3 : B[i] = Older(ages[i], 1)
  BY <1>2, OlderFacts
<1> HIDE DEF P, m, u
<1>8. /\ t \in FlowState /\ t.delay = f.delay /\ t.nextIn = m /\ t.since = e
      /\ t.pending = P /\ t.orphans = 0 /\ t.token = f.token
      /\ t.finished = f.finished /\ t.sends = 0 /\ t.unacked = f.unacked
      /\ t.owed = f.owed /\ t.wake = f.wake
  BY <1>2, <1>4, <1>5, <1>6 DEF FlowState
<1> HIDE DEF t
<1>9. Spaced(t, B)
  <2>1. /\ f.since \in Times /\ ages[1] \in Times /\ ages[2] \in Times /\ ages[3] \in Times
        /\ f.since <= ages[1] /\ ages[1] <= ages[2] /\ ages[2] <= ages[3]
        /\ ages[3] = Horizon \/ ages[3] - ages[1] >= Least
        /\ f.token => ages[2] >= Least
    BY <1>2 DEF Spaced, Apart, FlowState
  <2>2. /\ B[1] = Older(ages[1], 1) /\ B[2] = Older(ages[2], 1) /\ B[3] = Older(ages[3], 1)
    BY <1>7
  <2> HIDE DEF B, e
  <2>3. e <= B[1] /\ B[1] <= B[2] /\ B[2] <= B[3]
    BY <2>1, <2>2, OlderFacts DEF e
  <2>4. B[3] = Horizon \/ B[3] - B[1] >= Least
    <3>1. CASE ages[3] = Horizon
      BY <2>1, <2>2, <3>1, OlderFacts, <1>3 DEF Times
    <3>2. CASE ages[3] - ages[1] >= Least
      <4>1. /\ B[3] = ages[3] + 1 \/ B[3] = Horizon
            /\ B[1] = ages[1] + 1 \/ B[1] = Horizon
            /\ ages[3] <= B[3] /\ B[1] \in Times /\ B[3] \in Times
        BY <2>1, <2>2, OlderFacts
      <4>2. B[1] <= ages[1] + 1
        BY <2>1, <4>1, <2>2, <1>3, MinOfTwo DEF Older, Times
      <4> QED BY <2>1, <3>2, <4>1, <4>2, <1>3 DEF Times
    <3> QED BY <2>1, <3>1, <3>2
  <2>5. t.token => B[2] >= Least
    BY <2>1, <2>2, <1>8, OlderFacts, <1>3 DEF Times
  <2>6. Apart(t, B)
    BY <1>7, <1>8, <2>3, <2>4, <2>5 DEF Apart
  <2>7. ASSUME Armed(t)
        PROVE  t.nextIn + (IF t.token THEN t.since ELSE B[2]) >= Least
    <3>1. f.delay > 0 /\ f.nextIn \in 1 .. Horizon /\ m = f.nextIn - 1 /\ Armed(f)
      BY <2>7, <1>2, <1>4, <1>8 DEF Armed, Idle, m
    <3>2. f.nextIn + (IF f.token THEN f.since ELSE ages[2]) >= Least
      BY <1>2, <3>1 DEF Spaced, ApartNext
    <3>3. /\ e \in Times /\ (e = f.since + 1 \/ e = Horizon)
          /\ B[2] \in Times /\ (B[2] = ages[2] + 1 \/ B[2] = Horizon)
      BY <2>1, <2>2, OlderFacts DEF e
    <3> QED BY <2>1, <3>1, <3>2, <3>3, <1>3, <1>8 DEF Times
  <2> QED BY <2>6, <2>7 DEF Spaced, ApartNext
<1>10. (Idle(t) \/ Armed(t)) /\ ~Fired(t) /\ Driven(t) /\ Stopped(t)
  <2>1. Driven(t) /\ Stopped(t)
    BY <1>2, <1>8 DEF Driven, Stopped
  <2>2. Idle(t) \/ Armed(t)
    BY <1>2, <1>4, <1>8 DEF Idle, Armed
  <2>3. ~Fired(t)
    BY <1>8, <2>2, ArmedNotFired DEF Idle, Fired
  <2> QED BY <2>1, <2>2, <2>3
<1> HIDE DEF B
<1>11. t \in Sound(B)
  BY <1>7, <1>8, <1>9, <1>10, RecentNone DEF Sound
<1> QED BY <1>1, <1>7, <1>8, <1>10, <1>11 DEF IInv

LEMMA NextIInv == IInv /\ [Next]_vars => IInv'
<1> SUFFICES ASSUME IInv, [Next]_vars PROVE IInv'
  OBVIOUS
<1>1. CASE Wakes
  BY <1>1, DoNextEventIInv DEF Wakes
<1>2. ASSUME NEW d \in Delays, NEW w \in Windows, ReceiveAck(d, w)
      PROVE  IInv'
  BY <1>2, ReceiveAckIInv
<1>3. ASSUME NEW d \in Delays, NEW w \in Windows, RtxTimeout(d, w)
      PROVE  IInv'
  BY <1>3, RtxTimeoutIInv
<1>4. CASE Ticks
  BY <1>4, PacerTickIInv DEF Ticks
<1>5. CASE Tick
  BY <1>5, TickIInv
<1>6. CASE UNCHANGED vars
  BY <1>6 DEF vars, IInv, Sound, Spaced, Apart, ApartNext, Idle, Armed, Fired,
              Driven, Stopped, Recent, NoEvent, EventAt
<1> QED BY <1>1, <1>2, <1>3, <1>4, <1>5, <1>6 DEF Next

LEMMA IInvHolds == Spec => []IInv
<1> QED BY InitIInv, NextIInv, PTL DEF Spec

-----------------------------------------------------------------------------
(* For all delays and windows, however often the pacer is cancelled, moved, *)
(* fired at once or replaced in the middle of its own event: it has one     *)
(* event when it is pending and none otherwise, and it is pending while     *)
(* the flow awaits anything.                                               *)
THEOREM PacerHasOneEvent == Spec => []OnePacerEvent
<1>1. IInv => OnePacerEvent
  <2> SUFFICES ASSUME IInv PROVE OnePacerEvent
    OBVIOUS
  <2>1. f \in FlowState /\ (Idle(f) \/ Armed(f)) /\ Driven(f) /\ f.orphans = 0
    BY IInvParts
  <2>2. \A t \in DOMAIN f.pending :
          f.pending[t] = IF f.delay > 0 /\ t = f.nextIn THEN 1 ELSE 0
    BY <2>1, LeastDelay DEF Idle, Armed, NoEvent, EventAt
  <2>3. ~f.finished /\ (f.unacked > 0 \/ f.owed > 0) => f.delay > 0
    BY <2>1, LeastDelay DEF Driven, FlowState
  <2> QED BY <2>1, <2>2, <2>3 DEF OnePacerEvent
<1> QED BY <1>1, IInvHolds, PTL

(* For all delays and windows the first and the last of three packets in a *)
(* row are the least delay apart.                                          *)
THEOREM PacketsApart == Spec => []BurstBounded
<1>1. IInv => BurstBounded
  BY IInvParts DEF BurstBounded, Spaced, Apart, Least
<1> QED BY <1>1, IInvHolds, PTL

(* Late ACKs, timers and ticks after the end of a flow send nothing and do *)
(* not start its pacer again.                                              *)
THEOREM FinishedIsSilent == Spec => SilentAfterFinish
<1> DEFINE Silent == f.finished => f'.fresh = f.fresh /\ f'.delay = 0 /\ f'.unacked <= f.unacked
<1>1. IInv /\ [Next]_vars => [Silent]_vars
  <2> SUFFICES ASSUME IInv, Next, f.finished
               PROVE  f'.fresh = f.fresh /\ f'.delay = 0 /\ f'.unacked <= f.unacked
    OBVIOUS
  <2>1. f \in FlowState /\ f.delay = 0 /\ ~f.wake /\ f.unacked \in Nat
    BY IInvParts DEF Stopped, FlowState
  <2>2. ~Wakes /\ ~Ticks
    BY <2>1, PacerTickIInv DEF Wakes, Ticks, DoNextEvent
  <2>3. ~\E d \in Delays, w \in Windows : RtxTimeout(d, w)
    BY DEF RtxTimeout
  <2>4. ASSUME NEW d \in Delays, NEW w \in Windows, ReceiveAck(d, w)
        PROVE  f'.fresh = f.fresh /\ f'.delay = 0 /\ f'.unacked <= f.unacked
    <3> DEFINE s == Acked(d)
    <3>1. /\ s \in After(f, ages) /\ s.delay = 0 /\ s.fresh = f.fresh
          /\ s.unacked <= f.unacked
      BY <2>4, AckedSound DEF ReceiveAck
    <3>2. s \in FlowState /\ s.finished
      BY <3>1, Parts DEF After, Follows
    <3>3. Step(s)
      BY <2>4, <3>2 DEF ReceiveAck, Acked
    <3> HIDE DEF s
    <3>4. f' = [s EXCEPT !.sends = 0]
      BY <3>3 DEF Step
    <3> QED BY <3>1, <3>2, <3>4 DEF FlowState
  <2>5. CASE Tick
    BY <2>1, <2>5 DEF Tick, FlowState
  <2> QED BY <2>2, <2>3, <2>4, <2>5 DEF Next
<1>2. Spec => [][Silent]_vars
  BY <1>1, IInvHolds, PTL DEF Spec
<1> QED BY <1>2 DEF SilentAfterFinish
=============================================================================
