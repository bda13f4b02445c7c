---------------------------- MODULE CapWindowProofs ----------------------------
(***************************************************************************)
(* Theorems about CapWindow, for every capacity, interval and flow: the    *)
(* counter of a cap is the net outflow of its interval, and no window as   *)
(* long as an interval lets through more than twice the capacity beyond    *)
(* what came in.                                                           *)
(***************************************************************************)
EXTENDS CapWindow, SumProofs

Capacity(c) == IF c.capacity > 0 THEN c.capacity ELSE 0

TypeOK ==
  /\ cap \in Caps
  /\ now \in Times
  /\ out \in [Times -> Nat]
  /\ in \in [Times -> Nat]
  /\ settled \in Nat
  /\ operations \in Nat

\* Nothing has flowed in the seconds to come.
NothingAhead == \A t \in Times : t > now => out[t] = 0 /\ in[t] = 0

\* A setting takes effect later than now only where the interval starts later.
SettledByStart == settled > now => cap.start = settled

\* The interval of the counter began no later than now, and what it let through.
CounterIsNet ==
  cap.start > settled =>
    /\ CapEnforced(cap)
    /\ cap.start <= now
    /\ cap.current = Flow(out, cap.start, now) - Flow(in, cap.start, now)
    /\ cap.current <= Capacity(cap)

\* Nothing has flowed since the interval of the counter was over.
NothingSince ==
  CapEnforced(cap) =>
    \A t \in Times : t > settled /\ t >= cap.start + cap.interval => out[t] = 0 /\ in[t] = 0

\* The windows of length L from time d on that reach over s let through, before s, at
\* most C beyond what came in.
BoundedBefore(f, g, s, L, C, d) ==
  \A t \in Int :
    d + L <= t /\ t <= s /\ s <= t + L - 1 =>
      Flow(f, t, s - 1) <= C + Flow(g, t - L + 1, s - 1)

\* The windows that began by n let through at most twice as much.
Bounded(f, g, n, L, C, d) ==
  \A t \in Int :
    d + L <= t /\ t <= n =>
      Flow(f, t, t + L - 1) <= 2 * C + Flow(g, t - L + 1, t + L - 1)

\* Before the interval of the counter it was the capacity of the interval before.
WindowsBounded ==
  CapEnforced(cap) =>
    /\ BoundedBefore(out, in, cap.start, cap.interval, Capacity(cap), settled)
    /\ Bounded(out, in, now, cap.interval, Capacity(cap), settled)

IInv ==
  /\ TypeOK
  /\ NothingAhead
  /\ SettledByStart
  /\ CounterIsNet
  /\ NothingSince
  /\ WindowsBounded

-------------------------------------------------------------------------------
(* Flows over spans of time.                                                  *)

Span(from, to) == {t \in Times : from <= t /\ t <= to}

LEMMA SpanFinite ==
  \A from, to \in Int : IsFiniteSet(Span(from, to)) /\ Span(from, to) \subseteq Times
<1>1. IsFiniteSet(Times)
  BY FS_Interval, CapWindowAssumption DEF Times
<1> QED BY <1>1, FS_Subset DEF Span

LEMMA FlowIsSum ==
  \A flows, from, to : Flow(flows, from, to) = SumFunctionOnSet(flows, Span(from, to))
BY DEF Flow, Span

LEMMA FlowType ==
  ASSUME NEW flows \in [Times -> Nat], NEW from \in Int, NEW to \in Int
  PROVE  Flow(flows, from, to) \in Nat
<1>1. \A t \in Span(from, to) : flows[t] \in Nat BY DEF Span
<1> QED BY <1>1, SpanFinite, SumNatural, FlowIsSum

\* More seconds, no less flow.
LEMMA FlowWider ==
  ASSUME NEW flows \in [Times -> Nat], NEW a \in Int, NEW b \in Int,
         NEW from \in Int, NEW to \in Int, from <= a, b <= to
  PROVE  Flow(flows, a, b) <= Flow(flows, from, to)
<1>1. Span(a, b) \in SUBSET Span(from, to) BY DEF Span, Times
<1>2. \A t \in Span(from, to) : flows[t] \in Nat BY DEF Span
<1> QED BY <1>1, <1>2, SpanFinite, SumSubset, FlowIsSum

LEMMA FlowSplit ==
  ASSUME NEW flows \in [Times -> Nat], NEW from \in Int, NEW m \in Int, NEW to \in Int,
         from <= m, m <= to + 1
  PROVE  Flow(flows, from, to) = Flow(flows, from, m - 1) + Flow(flows, m, to)
<1> DEFINE S == Span(from, m - 1)
           T == Span(m, to)
<1>1. Span(from, to) = S \cup T /\ S \cap T = {} BY DEF Span, Times
<1>2. \A t \in S \cup T : flows[t] \in Int BY DEF Span
<1>3. IsFiniteSet(S) /\ IsFiniteSet(T) BY SpanFinite
<1>4. SumFunctionOnSet(flows, S \cup T) = SumFunctionOnSet(flows, S) + SumFunctionOnSet(flows, T)
  <2> HIDE DEF S, T
  <2> QED BY <1>1, <1>2, <1>3, SumDisjoint
<1> QED BY <1>1, <1>4, FlowIsSum

LEMMA FlowQuiet ==
  ASSUME NEW flows \in [Times -> Nat], NEW from \in Int, NEW to \in Int,
         \A t \in Times : from <= t /\ t <= to => flows[t] = 0
  PROVE  Flow(flows, from, to) = 0
<1>1. \A t \in Span(from, to) : flows[t] = 0 BY DEF Span
<1> QED BY <1>1, SpanFinite, SumZero, FlowIsSum

Counted(flows, after, n, x) ==
  /\ after \in [Times -> Nat]
  /\ after[n] = flows[n] + x
  /\ \A t \in Times : t # n => after[t] = flows[t]

\* A flow counts in the spans that contain its second.
LEMMA FlowAdded ==
  ASSUME NEW flows \in [Times -> Nat], NEW n \in Times, NEW x \in Nat,
         NEW after, Counted(flows, after, n, x),
         NEW from \in Int, NEW to \in Int
  PROVE  Flow(after, from, to)
           = Flow(flows, from, to) + (IF from <= n /\ n <= to THEN x ELSE 0)
<1> DEFINE S == Span(from, to)
<1>1. \A t \in S : t \in Times /\ flows[t] \in Int /\ after[t] \in Int BY DEF Span, Counted
<1>2. IsFiniteSet(S) BY SpanFinite
<1>3. Flow(flows, from, to) \in Nat BY FlowType
<1>4. /\ Flow(flows, from, to) = SumFunctionOnSet(flows, S)
      /\ Flow(after, from, to) = SumFunctionOnSet(after, S)
  BY FlowIsSum
<1>5. n \in S <=> from <= n /\ n <= to BY DEF Span
<1> HIDE DEF S
<1>6. CASE n \in S
  <2>1. \A t \in S \ {n} : flows[t] = after[t] BY <1>1 DEF Counted
  <2>2. SumFunctionOnSet(after, S) = SumFunctionOnSet(flows, S) - flows[n] + after[n]
    <3>1. \A t \in S : flows[t] \in Int /\ after[t] \in Int BY <1>1
    <3> QED BY <1>2, <1>6, <2>1, <3>1, SumUpdate
  <2>3. flows[n] \in Nat /\ after[n] = flows[n] + x BY DEF Counted
  <2> QED BY <1>3, <1>4, <1>5, <1>6, <2>2, <2>3
<1>7. CASE n \notin S
  <2>1. \A t \in S : flows[t] = after[t] BY <1>1, <1>7 DEF Counted
  <2>2. SumFunctionOnSet(after, S) = SumFunctionOnSet(flows, S)
    BY <1>2, <2>1, SumCongruence
  <2> QED BY <1>3, <1>4, <1>5, <1>7, <2>2
<1> QED BY <1>6, <1>7

-------------------------------------------------------------------------------
(* The beginning of an interval.                                              *)

LEMMA CapFields ==
  ASSUME NEW c \in Caps
  PROVE  /\ c.capacity \in Int /\ c.interval \in Nat /\ c.current \in Int /\ c.start \in Nat
         /\ Capacity(c) \in Nat
         /\ CapEnforced(c) => c.interval >= 1
BY MaxI64Assumption DEF Caps, Capacity, CapEnforced

LEMMA TimesNatural == Times \subseteq Nat
BY CapWindowAssumption DEF Times

\* What holds of the interval of the counter still holds when an operation has begun
\* a new one where the old one is over: the window that reaches back over the start
\* of the new interval saw the old interval, or a part of it, and nothing between.
LEMMA RolledFacts ==
  ASSUME IInv, CapEnforced(cap), cap.start <= now
  PROVE  LET r == Rolled(cap, now)
         IN  /\ r \in Caps
             /\ r.capacity = cap.capacity /\ r.interval = cap.interval
             /\ r.start <= now /\ now < r.start + r.interval
             /\ settled <= now
             /\ r.start > settled =>
                  /\ r.current = Flow(out, r.start, now) - Flow(in, r.start, now)
                  /\ r.current <= Capacity(cap)
             /\ BoundedBefore(out, in, r.start, r.interval, Capacity(cap), settled)
             /\ \A t \in Times :
                  t > settled /\ t >= r.start + r.interval => out[t] = 0 /\ in[t] = 0
<1> DEFINE r == Rolled(cap, now)
<1>1. cap \in Caps /\ now \in Times /\ out \in [Times -> Nat] /\ in \in [Times -> Nat]
      /\ settled \in Nat /\ now \in Nat
      /\ cap.interval \in Nat /\ cap.interval >= 1 /\ cap.start \in Nat
      /\ cap.current \in Int /\ Capacity(cap) \in Nat
  BY TimesNatural, CapFields DEF IInv, TypeOK
<1>2. settled <= now BY <1>1 DEF IInv, SettledByStart
<1>3. CASE ~IntervalElapsed(cap, now)
  <2>1. r = cap /\ now < cap.start + cap.interval BY <1>1, <1>3 DEF Rolled, IntervalElapsed
  <2> HIDE DEF r
  <2> QED BY <1>1, <1>2, <2>1 DEF IInv, CounterIsNet, WindowsBounded, NothingSince, r
<1>4. CASE IntervalElapsed(cap, now)
  <2>1. /\ r = [cap EXCEPT !.current = 0, !.start = now]
        /\ now >= cap.start + cap.interval
    BY <1>1, <1>4 DEF Rolled, IntervalElapsed
  <2>2. /\ r \in Caps /\ r.capacity = cap.capacity /\ r.interval = cap.interval
        /\ r.start = now /\ r.current = 0
    <3>1. 0 \in -MaxI64 - 1 .. MaxI64 BY MaxI64Assumption
    <3> QED BY <1>1, <2>1, <3>1 DEF Caps
  <2> HIDE DEF r
  <2> DEFINE L == cap.interval
             s == cap.start
             C == Capacity(cap)
  <2>3. L \in Nat /\ L >= 1 /\ s \in Nat /\ C \in Nat /\ now \in Nat BY <1>1
  <2>4. \A t \in Times : t > settled /\ t >= s + L => out[t] = 0 /\ in[t] = 0
    BY DEF IInv, NothingSince
  <2>5. ASSUME now > settled
        PROVE  /\ Flow(out, now, now) = 0 /\ Flow(in, now, now) = 0
               /\ out[now] = 0 /\ in[now] = 0
    <3>1. \A t \in Times : now <= t /\ t <= now => out[t] = 0 /\ in[t] = 0
      BY <1>1, <2>1, <2>3, <2>4, <2>5, TimesNatural
    <3> QED BY <1>1, <2>3, <3>1, FlowQuiet
  <2>6. ASSUME NEW t \in Int, settled + L <= t, t <= now, now <= t + L - 1
        PROVE  Flow(out, t, now - 1) <= C + Flow(in, t - L + 1, now - 1)
    <3>1. /\ Flow(in, t - L + 1, now - 1) \in Nat
          /\ Flow(out, t, now - 1) \in Nat
      BY <1>1, <2>3, FlowType
    <3>2. CASE t >= s + L
      <4>1. \A u \in Times : t <= u /\ u <= now - 1 => out[u] = 0
        BY <1>1, <2>3, <2>4, <2>6, <3>2
      <4>2. Flow(out, t, now - 1) = 0 BY <1>1, <2>3, <4>1, FlowQuiet
      <4> QED BY <2>3, <3>1, <4>2
    <3>3. CASE t < s + L
      <4>1. s > settled /\ s <= t /\ t - L + 1 <= s BY <1>1, <2>1, <2>3, <2>6, <3>3
      <4>2. cap.current = Flow(out, s, now) - Flow(in, s, now) /\ cap.current <= C
        BY <4>1 DEF IInv, CounterIsNet
      <4>3. now > settled BY <1>1, <2>3, <2>6
      <4>4. /\ Flow(out, s, now) = Flow(out, s, now - 1) + Flow(out, now, now)
            /\ Flow(in, s, now) = Flow(in, s, now - 1) + Flow(in, now, now)
        BY <1>1, <2>1, <2>3, FlowSplit
      <4>5. /\ Flow(out, s, now - 1) \in Nat
            /\ Flow(in, s, now - 1) \in Nat
            /\ cap.current \in Int
        BY <1>1, <2>3, FlowType
      <4>6. Flow(out, s, now - 1) <= C + Flow(in, s, now - 1)
        BY <2>3, <2>5, <4>2, <4>3, <4>4, <4>5
      <4>7. /\ Flow(out, t, now - 1) <= Flow(out, s, now - 1)
            /\ Flow(in, s, now - 1) <= Flow(in, t - L + 1, now - 1)
        BY <1>1, <2>3, <4>1, FlowWider
      <4> QED BY <2>3, <3>1, <4>5, <4>6, <4>7
    <3> QED BY <2>3, <3>2, <3>3
  <2>7. BoundedBefore(out, in, now, L, C, settled) BY <2>6 DEF BoundedBefore
  <2>8. \A t \in Times : t > settled /\ t >= now + L => out[t] = 0 /\ in[t] = 0
    BY <2>3, TimesNatural DEF IInv, NothingAhead
  <2> QED BY <1>1, <1>2, <2>2, <2>3, <2>5, <2>7, <2>8 DEF r
<1> QED BY <1>3, <1>4

\* Flows f out and g in, and x more out and y more in at time n, in the interval that
\* began at s: the windows of length L stay bounded when the interval does.
LEMMA WindowsKept ==
  ASSUME NEW f \in [Times -> Nat], NEW g \in [Times -> Nat], NEW f1, NEW g1,
         NEW n \in Times, NEW s \in Nat, NEW L \in Nat, NEW C \in Nat, NEW d \in Nat,
         NEW x \in Nat, NEW y \in Nat,
         Counted(f, f1, n, x), Counted(g, g1, n, y),
         s <= n, n < s + L,
         \A u \in Times : u > n => f1[u] = 0,
         s > d => Flow(f1, s, n) <= C + Flow(g1, s, n),
         BoundedBefore(f, g, s, L, C, d), Bounded(f, g, n, L, C, d)
  PROVE  BoundedBefore(f1, g1, s, L, C, d) /\ Bounded(f1, g1, n, L, C, d)
<1>0. n \in Nat /\ f1 \in [Times -> Nat] /\ g1 \in [Times -> Nat]
  BY TimesNatural DEF Counted
<1>1. \A a, b \in Int :
        /\ Flow(f, a, b) \in Nat /\ Flow(g, a, b) \in Nat
        /\ Flow(f1, a, b) \in Nat /\ Flow(g1, a, b) \in Nat
        /\ Flow(f1, a, b) = Flow(f, a, b) + (IF a <= n /\ n <= b THEN x ELSE 0)
        /\ Flow(g1, a, b) = Flow(g, a, b) + (IF a <= n /\ n <= b THEN y ELSE 0)
  <2>1. SUFFICES ASSUME NEW a \in Int, NEW b \in Int
                 PROVE  /\ Flow(f, a, b) \in Nat /\ Flow(g, a, b) \in Nat
                        /\ Flow(f1, a, b) \in Nat /\ Flow(g1, a, b) \in Nat
                        /\ Flow(f1, a, b) = Flow(f, a, b) + (IF a <= n /\ n <= b THEN x ELSE 0)
                        /\ Flow(g1, a, b) = Flow(g, a, b) + (IF a <= n /\ n <= b THEN y ELSE 0)
    OBVIOUS
  <2>2. /\ Flow(f, a, b) \in Nat /\ Flow(g, a, b) \in Nat
        /\ Flow(f1, a, b) \in Nat /\ Flow(g1, a, b) \in Nat
    BY <1>0, FlowType
  <2>3. Flow(f1, a, b) = Flow(f, a, b) + (IF a <= n /\ n <= b THEN x ELSE 0)
    BY FlowAdded
  <2>4. Flow(g1, a, b) = Flow(g, a, b) + (IF a <= n /\ n <= b THEN y ELSE 0)
    BY FlowAdded
  <2> QED BY <2>2, <2>3, <2>4
<1>2. ASSUME NEW t \in Int, d + L <= t, t <= s, s <= t + L - 1
      PROVE  Flow(f1, t, s - 1) <= C + Flow(g1, t - L + 1, s - 1)
  <2>1. s - 1 \in Int /\ t - L + 1 \in Int /\ ~(n <= s - 1) BY <1>0
  <2>2. /\ Flow(f1, t, s - 1) = Flow(f, t, s - 1)
        /\ Flow(g1, t - L + 1, s - 1) = Flow(g, t - L + 1, s - 1)
    <3>1. Flow(f1, t, s - 1) = Flow(f, t, s - 1) + 0 /\ Flow(f, t, s - 1) \in Nat
      BY <1>1, <2>1
    <3>2. /\ Flow(g1, t - L + 1, s - 1) = Flow(g, t - L + 1, s - 1) + 0
          /\ Flow(g, t - L + 1, s - 1) \in Nat
      BY <1>1, <2>1
    <3> QED BY <3>1, <3>2
  <2> QED BY <1>2, <2>2 DEF BoundedBefore
<1>3. ASSUME NEW t \in Int, d + L <= t, t <= n
      PROVE  Flow(f1, t, t + L - 1) <= 2 * C + Flow(g1, t - L + 1, t + L - 1)
  <2>1. t + L - 1 \in Int /\ t - L + 1 \in Int /\ s - 1 \in Int /\ n + 1 \in Int
    BY <1>0
  <2>2. CASE t + L - 1 < n
    <3> DEFINE End == t + L - 1
               Reach == t - L + 1
    <3>1. End \in Int /\ Reach \in Int /\ ~(n <= End) BY <1>0, <2>2
    <3> HIDE DEF End, Reach
    <3>2. Flow(f1, t, End) = Flow(f, t, End) + 0 /\ Flow(f, t, End) \in Nat
      BY <1>1, <3>1
    <3>3. Flow(g1, Reach, End) = Flow(g, Reach, End) + 0 /\ Flow(g, Reach, End) \in Nat
      BY <1>1, <3>1
    <3>4. Flow(f, t, End) <= 2 * C + Flow(g, Reach, End) BY <1>3 DEF Bounded, End, Reach
    <3>5. Flow(f1, t, End) <= 2 * C + Flow(g1, Reach, End) BY <3>2, <3>3, <3>4
    <3> QED BY <3>5 DEF End, Reach
  <2>3. CASE t + L - 1 >= n
    <3> DEFINE End == t + L - 1
               Reach == t - L + 1
    <3>1. s > d /\ Reach <= s /\ End >= n /\ End \in Int /\ Reach \in Int
      BY <1>0, <1>3, <2>3
    <3>2. Flow(f1, s, n) <= C + Flow(g1, s, n) BY <3>1
    <3> HIDE DEF End, Reach
    <3>3. Flow(f1, t, End) = Flow(f1, t, n)
      <4>1. (n + 1) - 1 = n /\ t <= n + 1 /\ n + 1 <= End + 1 /\ n + 1 \in Int
        BY <1>0, <1>3, <3>1
      <4>2. Flow(f1, t, End) = Flow(f1, t, n) + Flow(f1, n + 1, End)
        BY <1>0, <3>1, <4>1, FlowSplit
      <4>3. \A u \in Times : n + 1 <= u /\ u <= End => f1[u] = 0
        BY <1>0, TimesNatural
      <4>4. Flow(f1, n + 1, End) = 0 BY <1>0, <3>1, <4>1, <4>3, FlowQuiet
      <4>5. n \in Int /\ Flow(f1, t, n) \in Nat BY <1>0, FlowType
      <4> QED BY <4>2, <4>4, <4>5
    <3>4. CASE t > s
      <4>1. Flow(f1, t, n) <= Flow(f1, s, n) BY <1>0, <3>4, FlowWider
      <4>2. Flow(g1, s, n) <= Flow(g1, Reach, End) BY <1>0, <3>1, FlowWider
      <4>3. /\ Flow(f1, t, n) \in Nat /\ Flow(f1, s, n) \in Nat
            /\ Flow(g1, s, n) \in Nat /\ Flow(g1, Reach, End) \in Nat
        <5>1. n \in Int /\ s \in Int BY <1>0
        <5>2. Flow(f1, t, n) \in Nat BY <1>1, <5>1
        <5>3. Flow(f1, s, n) \in Nat /\ Flow(g1, s, n) \in Nat BY <1>1, <5>1
        <5>4. Flow(g1, Reach, End) \in Nat BY <1>1, <3>1
        <5> QED BY <5>2, <5>3, <5>4
      <4>4. Flow(f1, t, n) <= 2 * C + Flow(g1, Reach, End) BY <3>2, <4>1, <4>2, <4>3
      <4> QED BY <3>3, <4>4 DEF End, Reach
    <3>5. CASE t <= s
      <4>1. Flow(f1, t, n) = Flow(f1, t, s - 1) + Flow(f1, s, n)
        BY <1>0, <2>1, <3>5, FlowSplit
      <4>2. Flow(f1, t, s - 1) <= C + Flow(g1, Reach, s - 1)
        BY <1>0, <1>2, <1>3, <2>3, <3>5 DEF Reach
      <4>3. Flow(g1, Reach, n) = Flow(g1, Reach, s - 1) + Flow(g1, s, n)
        BY <1>0, <2>1, <3>1, FlowSplit
      <4>4. Flow(g1, Reach, n) <= Flow(g1, Reach, End) BY <1>0, <3>1, FlowWider
      <4>5. /\ Flow(f1, t, n) \in Nat /\ Flow(f1, s, n) \in Nat /\ Flow(f1, t, s - 1) \in Nat
            /\ Flow(g1, s, n) \in Nat /\ Flow(g1, Reach, s - 1) \in Nat
            /\ Flow(g1, Reach, n) \in Nat /\ Flow(g1, Reach, End) \in Nat
        <5>1. n \in Int /\ s \in Int BY <1>0
        <5>2. Flow(f1, t, n) \in Nat BY <1>1, <5>1
        <5>3. Flow(f1, s, n) \in Nat /\ Flow(g1, s, n) \in Nat BY <1>1, <5>1
        <5>4. Flow(f1, t, s - 1) \in Nat BY <1>1, <2>1
        <5>5. Flow(g1, Reach, s - 1) \in Nat BY <1>1, <2>1, <3>1
        <5>6. Flow(g1, Reach, n) \in Nat /\ Flow(g1, Reach, End) \in Nat BY <1>1, <3>1, <5>1
        <5> QED BY <5>2, <5>3, <5>4, <5>5, <5>6
      <4>6. Flow(f1, t, n) <= 2 * C + Flow(g1, Reach, End)
        BY <3>2, <4>1, <4>2, <4>3, <4>4, <4>5
      <4> QED BY <3>3, <4>6 DEF End, Reach
    <3> QED BY <1>0, <3>4, <3>5
  <2> QED BY <1>0, <2>1, <2>2, <2>3
<1> QED BY <1>2, <1>3 DEF BoundedBefore, Bounded

\* A flow within the capacity, out or in, counted or not.
LEMMA FlowKeeps ==
  ASSUME IInv, NEW x \in Nat, NEW y \in Nat, NEW current,
         CapEnforced(cap) =>
           /\ cap.start <= now
           /\ current = Rolled(cap, now).current + x - y
           /\ Rolled(cap, now).current <= Capacity(cap) => current <= Capacity(cap),
         cap' = [Rolled(cap, now) EXCEPT !.current = current], cap' \in Caps,
         Counted(out, out', now, x), Counted(in, in', now, y),
         now' = now, settled' = settled, operations' \in Nat
  PROVE  IInv'
<1> DEFINE r == Rolled(cap, now)
           L == cap.interval
           C == Capacity(cap)
<1>1. /\ cap \in Caps /\ now \in Times /\ out \in [Times -> Nat] /\ in \in [Times -> Nat]
      /\ settled \in Nat
  BY DEF IInv, TypeOK
<1>2. /\ L \in Nat /\ C \in Nat /\ now \in Nat /\ settled \in Nat
      /\ cap.start \in Nat /\ cap.current \in Int
  BY <1>1, CapFields, TimesNatural
<1>3. out' \in [Times -> Nat] /\ in' \in [Times -> Nat]
  BY DEF Counted
<1>4. /\ cap'.capacity = cap.capacity /\ cap'.interval = L /\ cap'.start = r.start
      /\ cap'.current = current
      /\ Capacity(cap') = C
      /\ CapEnforced(cap') = CapEnforced(cap)
  BY <1>1 DEF Rolled, Caps, Capacity, CapEnforced
<1>5. TypeOK' BY <1>1, <1>3 DEF TypeOK
<1>6. /\ out'[now] = out[now] + x /\ in'[now] = in[now] + y
      /\ \A t \in Times : t # now => out'[t] = out[t] /\ in'[t] = in[t]
  BY DEF Counted
<1>7. NothingAhead' BY <1>1, <1>2, <1>6 DEF IInv, NothingAhead
<1>9. CASE ~CapEnforced(cap)
  <2>1. r = cap BY <1>9 DEF Rolled
  <2>2. SettledByStart' BY <1>4, <2>1 DEF IInv, SettledByStart
  <2>3. ~(cap.start > settled) BY <1>9 DEF IInv, CounterIsNet
  <2>4. ~(cap'.start > settled') /\ ~CapEnforced(cap') BY <1>4, <1>9, <2>1, <2>3
  <2>5. CounterIsNet' BY <2>4 DEF CounterIsNet
  <2>6. NothingSince' /\ WindowsBounded' BY <2>4 DEF NothingSince, WindowsBounded
  <2> QED BY <1>5, <1>7, <2>2, <2>5, <2>6 DEF IInv
<1>10. CASE CapEnforced(cap)
  <2> DEFINE s == r.start
  <2>1. /\ s \in Nat /\ r.current \in Int /\ L >= 1
        /\ s <= now /\ now < s + L /\ settled <= now
        /\ s > settled =>
             r.current = Flow(out, s, now) - Flow(in, s, now) /\ r.current <= C
        /\ BoundedBefore(out, in, s, L, C, settled)
        /\ \A t \in Times : t > settled /\ t >= s + L => out[t] = 0 /\ in[t] = 0
    BY <1>1, <1>2, <1>10, RolledFacts, CapFields
  <2>2. /\ cap'.start = s /\ cap'.interval = L /\ Capacity(cap') = C
        /\ current = r.current + x - y /\ (r.current <= C => current <= C)
    BY <1>4, <1>10
  <2>3. SettledByStart' BY <1>2, <2>1 DEF SettledByStart
  <2>4. /\ Flow(out, s, now) \in Nat /\ Flow(in, s, now) \in Nat
        /\ Flow(out', s, now) = Flow(out, s, now) + x
        /\ Flow(in', s, now) = Flow(in, s, now) + y
    <3>1. s \in Int /\ now \in Int /\ s <= now /\ now <= now BY <1>2, <2>1
    <3> HIDE DEF s
    <3>2. Flow(out, s, now) \in Nat /\ Flow(in, s, now) \in Nat BY <1>1, <3>1, FlowType
    <3>3. Flow(out', s, now) = Flow(out, s, now) + x BY <1>1, <3>1, FlowAdded
    <3>4. Flow(in', s, now) = Flow(in, s, now) + y BY <1>1, <3>1, FlowAdded
    <3> QED BY <3>2, <3>3, <3>4
  <2>5. s > settled => /\ current = Flow(out', s, now) - Flow(in', s, now)
                       /\ current <= C
                       /\ Flow(out', s, now) <= C + Flow(in', s, now)
    <3> HIDE DEF s, r, C
    <3> QED BY <1>2, <2>1, <2>2, <2>4
  <2>6. CounterIsNet' BY <1>4, <1>10, <2>1, <2>2, <2>5 DEF CounterIsNet
  <2>7. NothingSince'
    <3>1. \A t \in Times : t > settled /\ t >= s + L => out'[t] = 0 /\ in'[t] = 0
      BY <1>2, <1>6, <2>1, TimesNatural
    <3> QED BY <2>2, <3>1 DEF NothingSince
  <2>8. BoundedBefore(out', in', s, L, C, settled) /\ Bounded(out', in', now, L, C, settled)
    <3>1. \A u \in Times : u > now => out'[u] = 0 BY <1>7 DEF NothingAhead
    <3>2. Bounded(out, in, now, L, C, settled) BY <1>10 DEF IInv, WindowsBounded
    <3>3. s > settled => Flow(out', s, now) <= C + Flow(in', s, now) BY <2>5
    <3> HIDE DEF s, L, C
    <3> QED BY <1>1, <1>2, <2>1, <3>1, <3>2, <3>3, WindowsKept
  <2>9. WindowsBounded' BY <2>2, <2>8 DEF WindowsBounded
  <2> QED BY <1>5, <1>7, <2>3, <2>6, <2>7, <2>9 DEF IInv
<1> QED BY <1>9, <1>10

-------------------------------------------------------------------------------
(* The actions.                                                               *)

LEMMA SaturatedType ==
  ASSUME NEW v \in Int
  PROVE  /\ Saturated(v) \in -MaxI64 - 1 .. MaxI64
         /\ -MaxI64 - 1 <= v /\ v <= MaxI64 => Saturated(v) = v
BY MaxI64Assumption DEF Saturated

LEMMA RolledType ==
  ASSUME NEW c \in Caps, NEW n \in Nat
  PROVE  Rolled(c, n) \in Caps
<1>1. 0 \in -MaxI64 - 1 .. MaxI64 BY MaxI64Assumption
<1> QED BY <1>1 DEF Rolled, Caps

\* The new counter of a flow.
LEMMA CountedType ==
  ASSUME IInv, NEW current \in -MaxI64 - 1 .. MaxI64
  PROVE  [Rolled(cap, now) EXCEPT !.current = current] \in Caps
<1>1. Rolled(cap, now) \in Caps BY RolledType, TimesNatural DEF IInv, TypeOK
<1> QED BY <1>1 DEF Caps

LEMMA InitIInv == Init => IInv
<1> SUFFICES ASSUME Init PROVE IInv OBVIOUS
<1>1. PICK setting \in Settings : cap = NewCap(setting, 0) BY DEF Init
<1>2. 0 \in -MaxI64 - 1 .. MaxI64 BY MaxI64Assumption
<1>3. cap \in Caps /\ cap.start = 0
  BY <1>1, <1>2, CapWindowAssumption DEF NewCap, Caps
<1>4. TypeOK BY <1>3, CapWindowAssumption DEF Init, TypeOK, Times
<1>5. NothingAhead /\ NothingSince BY DEF Init, NothingAhead, NothingSince
<1>6. SettledByStart /\ CounterIsNet BY <1>3 DEF Init, SettledByStart, CounterIsNet
<1>7. cap.interval \in Nat /\ (CapEnforced(cap) => cap.interval >= 1)
  BY <1>3, CapFields
<1>8. WindowsBounded
  BY <1>3, <1>7 DEF Init, WindowsBounded, BoundedBefore, Bounded
<1> QED BY <1>4, <1>5, <1>6, <1>8 DEF IInv

LEMMA OutflowKeeps ==
  ASSUME IInv, NEW amount \in Amounts, Outflow(amount)
  PROVE  IInv'
<1> DEFINE r == Rolled(cap, now)
           current == Saturated(r.current + amount)
<1>1. /\ cap \in Caps /\ now \in Times /\ out \in [Times -> Nat] /\ in \in [Times -> Nat]
      /\ operations \in Nat /\ amount \in Nat
  BY CapWindowAssumption DEF IInv, TypeOK
<1>2. r \in Caps BY <1>1, RolledType, TimesNatural
<1>3. r.current \in -MaxI64 - 1 .. MaxI64 BY <1>2 DEF Caps
<1>4. r.current + amount \in Int /\ r.current + amount >= -MaxI64 - 1
  BY <1>1, <1>3, MaxI64Assumption
<1>5. current \in -MaxI64 - 1 .. MaxI64 BY <1>4, SaturatedType
<1>6. cap' = [r EXCEPT !.current = current] /\ cap' \in Caps
  BY <1>5, CountedType DEF Outflow, AddToAccum
<1>7. CapEnforced(cap) => /\ cap.start <= now
                          /\ current = r.current + amount - 0
                          /\ current <= Capacity(cap)
  <2>1. SUFFICES ASSUME CapEnforced(cap)
                 PROVE  /\ cap.start <= now
                        /\ current = r.current + amount - 0
                        /\ current <= Capacity(cap)
    OBVIOUS
  <2>2. cap.start <= now /\ cap.capacity >= 0 /\ r.current + amount <= cap.capacity
    BY <2>1 DEF Outflow, CanAddToAccum
  <2>3. cap.capacity <= MaxI64 /\ cap.capacity \in Int BY <1>1, MaxI64Assumption DEF Caps
  <2>4. r.current + amount <= MaxI64 BY <1>4, <2>2, <2>3, MaxI64Assumption
  <2>5. current = r.current + amount BY <1>4, <2>4, SaturatedType
  <2>6. r.current + amount <= Capacity(cap) BY <1>4, <2>2, <2>3 DEF Capacity
  <2>7. r.current + amount - 0 = r.current + amount BY <1>1, <1>3
  <2> HIDE DEF current, r
  <2> QED BY <2>2, <2>5, <2>6, <2>7
<1>8. Counted(out, out', now, amount) BY <1>1 DEF Outflow, Counted
<1>9. Counted(in, in', now, 0) BY <1>1 DEF Outflow, Counted
<1>10. now' = now /\ settled' = settled /\ operations' \in Nat
  BY <1>1 DEF Outflow, Operation
<1> HIDE DEF current
<1> QED BY <1>1, <1>6, <1>7, <1>8, <1>9, <1>10, FlowKeeps

LEMMA InflowKeeps ==
  ASSUME IInv, NEW amount \in Amounts, Inflow(amount)
  PROVE  IInv'
<1> DEFINE r == Rolled(cap, now)
           current == Saturated(r.current - amount)
<1>1. /\ cap \in Caps /\ now \in Times /\ out \in [Times -> Nat] /\ in \in [Times -> Nat]
      /\ operations \in Nat /\ amount \in Nat
  BY CapWindowAssumption DEF IInv, TypeOK
<1>2. r \in Caps BY <1>1, RolledType, TimesNatural
<1>3. r.current \in -MaxI64 - 1 .. MaxI64 BY <1>2 DEF Caps
<1>4. /\ r.current - amount \in Int /\ r.current - amount <= MaxI64
      /\ r.current - amount <= r.current
  BY <1>1, <1>3, MaxI64Assumption
<1>5. current \in -MaxI64 - 1 .. MaxI64 BY <1>4, SaturatedType
<1>6. cap' = [r EXCEPT !.current = current] /\ cap' \in Caps
  BY <1>5, CountedType DEF Inflow, SubFromAccum
<1>7. CapEnforced(cap) => /\ cap.start <= now
                          /\ current = r.current + 0 - amount
                          /\ r.current <= Capacity(cap) => current <= Capacity(cap)
  <2>1. SUFFICES ASSUME CapEnforced(cap)
                 PROVE  /\ cap.start <= now
                        /\ current = r.current + 0 - amount
                        /\ r.current <= Capacity(cap) => current <= Capacity(cap)
    OBVIOUS
  <2>2. cap.start <= now /\ r.current - amount >= -MaxI64 - 1
    BY <2>1 DEF Inflow, CanSubFromAccum
  <2>3. current = r.current - amount BY <1>4, <2>2, SaturatedType
  <2>4. Capacity(cap) \in Nat /\ r.current \in Int BY <1>1, <1>3, CapFields
  <2> HIDE DEF current, r
  <2> QED BY <1>1, <1>4, <2>2, <2>3, <2>4
<1>8. Counted(in, in', now, amount) BY <1>1 DEF Inflow, Counted
<1>9. Counted(out, out', now, 0) BY <1>1 DEF Inflow, Counted
<1>10. now' = now /\ settled' = settled /\ operations' \in Nat
  BY <1>1 DEF Inflow, Operation
<1> HIDE DEF current
<1> QED BY <1>1, <1>6, <1>7, <1>8, <1>9, <1>10, FlowKeeps

\* A cap that is settled now, or at a start to come: no window has begun since.
LEMMA SettledKeeps ==
  ASSUME IInv, cap' \in Caps,
         settled' = IF cap'.start > now THEN cap'.start ELSE now,
         now' = now, out' = out, in' = in, operations' \in Nat
  PROVE  IInv'
<1>1. /\ now \in Nat /\ now \in Times
      /\ cap'.start \in Nat /\ cap'.interval \in Nat /\ Capacity(cap') \in Nat
      /\ CapEnforced(cap') => cap'.interval >= 1
  BY CapFields, TimesNatural DEF IInv, TypeOK
<1>2. settled' \in Nat /\ settled' >= now /\ settled' >= cap'.start
  BY <1>1
<1>3. TypeOK' BY <1>1, <1>2 DEF IInv, TypeOK
<1>4. NothingAhead' BY DEF IInv, NothingAhead
<1>5. SettledByStart' BY <1>1 DEF SettledByStart
<1>6. CounterIsNet' BY <1>1, <1>2 DEF CounterIsNet
<1>7. NothingSince'
  <2>1. \A t \in Times : t > settled' => t > now BY <1>1, <1>2, TimesNatural
  <2> QED BY <2>1 DEF IInv, NothingAhead, NothingSince
<1>8. WindowsBounded' BY <1>1, <1>2 DEF WindowsBounded, BoundedBefore, Bounded
<1> QED BY <1>3, <1>4, <1>5, <1>6, <1>7, <1>8 DEF IInv

LEMMA ReconfigureKeeps ==
  ASSUME IInv, NEW setting \in Settings, Reconfigure(setting)
  PROVE  IInv'
<1>1. cap \in Caps /\ operations \in Nat BY DEF IInv, TypeOK
<1>2. cap' \in Caps /\ cap'.start = cap.start
  BY <1>1, CapWindowAssumption DEF Reconfigure, ReconfiguredCap, Caps
<1>3. settled' = IF cap'.start > now THEN cap'.start ELSE now
  BY <1>2 DEF Reconfigure
<1>4. now' = now /\ out' = out /\ in' = in /\ operations' \in Nat
  BY <1>1 DEF Reconfigure, Operation
<1> QED BY <1>2, <1>3, <1>4, SettledKeeps

LEMMA OverwriteKeeps ==
  ASSUME IInv, NEW setting \in Settings, NEW start \in {0, now + 1}, NEW current \in {-1, 1},
         Overwrite(setting, start, current)
  PROVE  IInv'
<1>1. now \in Nat /\ operations \in Nat BY TimesNatural DEF IInv, TypeOK
<1>2. cap' \in Caps /\ cap'.start = start
  <2>1. start \in Nat /\ current \in -MaxI64 - 1 .. MaxI64
    BY <1>1, MaxI64Assumption, CapWindowAssumption
  <2>2. setting \in [capacity : -MaxI64 - 1 .. MaxI64, interval : Nat]
    BY CapWindowAssumption
  <2> QED BY <2>1, <2>2 DEF Overwrite, NewCap, Caps
<1>3. settled' = IF cap'.start > now THEN cap'.start ELSE now
  BY <1>2 DEF Overwrite
<1>4. now' = now /\ out' = out /\ in' = in /\ operations' \in Nat
  BY <1>1 DEF Overwrite, Operation
<1> QED BY <1>2, <1>3, <1>4, SettledKeeps

LEMMA TickKeeps ==
  ASSUME IInv, Tick
  PROVE  IInv'
<1>1. /\ cap \in Caps /\ out \in [Times -> Nat] /\ in \in [Times -> Nat]
      /\ now \in Nat /\ now' = now + 1 /\ now' \in Times /\ settled \in Nat
      /\ cap.start \in Nat /\ cap.interval \in Nat /\ Capacity(cap) \in Nat
      /\ CapEnforced(cap) => cap.interval >= 1
  BY CapFields, TimesNatural, CapWindowAssumption DEF IInv, TypeOK, Tick, Times
<1>2. UNCHANGED <<cap, out, in, settled, operations>> BY DEF Tick
<1>3. TypeOK' BY <1>1, <1>2 DEF IInv, TypeOK
<1>4. NothingAhead' BY <1>1, <1>2, TimesNatural DEF IInv, NothingAhead
<1>5. SettledByStart' BY <1>1, <1>2 DEF IInv, SettledByStart
<1>6. ASSUME NEW t \in Int, t <= now + 1, NEW flows \in {out, in}
      PROVE  Flow(flows, t, now + 1) = Flow(flows, t, now)
  <2>1. flows \in [Times -> Nat] /\ now \in Int /\ now + 1 \in Int BY <1>1
  <2>2. Flow(flows, t, now + 1) = Flow(flows, t, (now + 1) - 1) + Flow(flows, now + 1, now + 1)
    BY <1>6, <2>1, FlowSplit
  <2>3. \A u \in Times : now + 1 <= u /\ u <= now + 1 => flows[u] = 0
    BY <1>1, TimesNatural DEF IInv, NothingAhead
  <2>4. Flow(flows, now + 1, now + 1) = 0 BY <2>1, <2>3, FlowQuiet
  <2>5. Flow(flows, t, now) \in Nat /\ (now + 1) - 1 = now BY <2>1, FlowType
  <2> QED BY <2>2, <2>4, <2>5
<1>7. CounterIsNet'
  <2>1. SUFFICES ASSUME cap.start > settled
                 PROVE  /\ CapEnforced(cap) /\ cap.start <= now + 1
                        /\ cap.current = Flow(out, cap.start, now + 1) - Flow(in, cap.start, now + 1)
                        /\ cap.current <= Capacity(cap)
    BY <1>1, <1>2 DEF CounterIsNet
  <2>2. /\ CapEnforced(cap) /\ cap.start <= now
        /\ cap.current = Flow(out, cap.start, now) - Flow(in, cap.start, now)
        /\ cap.current <= Capacity(cap)
    BY <2>1 DEF IInv, CounterIsNet
  <2>3. cap.start \in Int /\ cap.start <= now + 1 BY <1>1, <2>2
  <2>4. /\ Flow(out, cap.start, now + 1) = Flow(out, cap.start, now)
        /\ Flow(in, cap.start, now + 1) = Flow(in, cap.start, now)
    BY <1>6, <2>3
  <2> QED BY <2>2, <2>3, <2>4
<1>8. NothingSince' BY <1>2 DEF IInv, NothingSince
<1>9. WindowsBounded'
  <2> DEFINE L == cap.interval
             C == Capacity(cap)
  <2>1. SUFFICES ASSUME CapEnforced(cap)
                 PROVE  /\ BoundedBefore(out, in, cap.start, L, C, settled)
                        /\ Bounded(out, in, now + 1, L, C, settled)
    BY <1>1, <1>2 DEF WindowsBounded
  <2>2. BoundedBefore(out, in, cap.start, L, C, settled) /\ Bounded(out, in, now, L, C, settled)
    BY <2>1 DEF IInv, WindowsBounded
  <2>3. ASSUME NEW t \in Int, settled + L <= t, t <= now + 1
        PROVE  Flow(out, t, t + L - 1) <= 2 * C + Flow(in, t - L + 1, t + L - 1)
    <3>1. CASE t <= now BY <2>2, <2>3, <3>1 DEF Bounded
    <3>2. CASE t > now
      <4>1. \A u \in Times : t <= u /\ u <= t + L - 1 => out[u] = 0
        BY <1>1, <3>2, TimesNatural DEF IInv, NothingAhead
      <4>2. Flow(out, t, t + L - 1) = 0 BY <1>1, <4>1, FlowQuiet
      <4>3. Flow(in, t - L + 1, t + L - 1) \in Nat BY <1>1, FlowType
      <4> QED BY <1>1, <4>2, <4>3
    <3> QED BY <1>1, <3>1, <3>2
  <2> QED BY <2>2, <2>3 DEF Bounded
<1> QED BY <1>3, <1>4, <1>5, <1>7, <1>8, <1>9 DEF IInv

LEMMA NextKeeps == IInv /\ [Next]_vars => IInv'
<1> SUFFICES ASSUME IInv, [Next]_vars PROVE IInv' OBVIOUS
<1>1. ASSUME NEW amount \in Amounts, Outflow(amount) PROVE IInv' BY <1>1, OutflowKeeps
<1>2. ASSUME NEW amount \in Amounts, Inflow(amount) PROVE IInv' BY <1>2, InflowKeeps
<1>3. ASSUME NEW setting \in Settings, Reconfigure(setting) PROVE IInv'
  BY <1>3, ReconfigureKeeps
<1>4. ASSUME NEW setting \in Settings, NEW start \in {0, now + 1}, NEW current \in {-1, 1},
             Overwrite(setting, start, current)
      PROVE  IInv'
  BY <1>4, OverwriteKeeps
<1>5. CASE Tick BY <1>5, TickKeeps
<1>6. CASE UNCHANGED vars
  BY <1>6 DEF vars, IInv, TypeOK, NothingAhead, SettledByStart, CounterIsNet, NothingSince,
              WindowsBounded
<1> QED BY <1>1, <1>2, <1>3, <1>4, <1>5, <1>6 DEF Next

-------------------------------------------------------------------------------
(* The theorems.                                                              *)

LEMMA Invariance == Spec => []IInv
BY InitIInv, NextKeeps, PTL DEF Spec

\* The counter of a cap says what flowed out, less what flowed in, since its interval
\* began, whatever was settled, rolled or refused on the way (CapWindow.CounterIsNetOutflow).
THEOREM CounterIsAlwaysNetOutflow == Spec => []CounterIsNetOutflow
<1>1. IInv => CounterIsNetOutflow BY DEF IInv, CounterIsNet, CounterIsNetOutflow
<1> QED BY <1>1, Invariance, PTL

\* In any window as long as an interval no more flows out than twice the capacity and
\* what came in, for every capacity, interval, amount and time (CapWindow.WindowBounded).
THEOREM WindowsAreBounded == Spec => []WindowBounded
<1>1. IInv => WindowBounded
  <2>1. SUFFICES ASSUME IInv, CapEnforced(cap), NEW t \in settled + cap.interval..now
                 PROVE  Flow(out, t, t + cap.interval - 1)
                          <= 2 * Capacity(cap)
                             + Flow(in, t - cap.interval + 1, t + cap.interval - 1)
    BY DEF WindowBounded, Capacity
  <2>2. t \in Int /\ settled + cap.interval <= t /\ t <= now OBVIOUS
  <2> QED BY <2>1, <2>2 DEF IInv, WindowsBounded, Bounded
<1> QED BY <1>1, Invariance, PTL
===============================================================================
