---------------------------- MODULE Calendar_proofs ---------------------------
(***************************************************************************)
(* Where days and windows begin, for every zone and every gap: bisection   *)
(* finds what it looks for, and an instant lies in its window.             *)
(***************************************************************************)
EXTENDS Calendar, Counting

(* Bisection, of spans of instants.                                        *)
Span == Int \X Int
Length(span) == span[2] - span[1]
Halved(f, d, z, span) ==
    IF span[1] >= span[2] THEN span[1]
    ELSE IF CivilDateAt(Middle(span), z) < d THEN f[<<Middle(span) + 1, span[2]>>]
    ELSE f[<<span[1], Middle(span)>>]

(* Either half is shorter than what was searched.                          *)
LEMMA HalvesAreShorter ==
    ASSUME NEW low \in Int, NEW high \in Int, low < high
    PROVE  LET m == Middle(<<low, high>>)
           IN  m \in low .. (high - 1)
BY DEF Middle

(* f bisects spans of at most n.                                           *)
Bisects(f, d, z, n) ==
    \A low, high \in Int : high - low <= n => f[<<low, high>>] = Halved(f, d, z, <<low, high>>)

LEMMA HalvedAlike ==
    ASSUME NEW d, NEW z, NEW f, NEW g, NEW low \in Int, NEW high \in Int,
           \A l, h \in Int : low < high /\ h - l < high - low => f[<<l, h>>] = g[<<l, h>>]
    PROVE  Halved(f, d, z, <<low, high>>) = Halved(g, d, z, <<low, high>>)
<1>1. CASE low >= high
  BY <1>1 DEF Halved
<1>2. CASE low < high
  <2> DEFINE m == Middle(<<low, high>>)
  <2>1. m \in Int /\ low <= m /\ m < high
    BY <1>2, HalvesAreShorter
  <2> HIDE DEF m
  <2>2. m + 1 \in Int /\ high - (m + 1) < high - low /\ m - low < high - low
    BY <1>2, <2>1
  <2>3. f[<<m + 1, high>>] = g[<<m + 1, high>>]
    BY <1>2, <2>2
  <2>4. f[<<low, m>>] = g[<<low, m>>]
    BY <1>2, <2>1, <2>2
  <2> QED  BY <2>3, <2>4 DEF Halved, m
<1> QED  BY <1>1, <1>2

LEMMA SomeBisect ==
    ASSUME NEW d, NEW z, NEW n \in Nat
    PROVE  \E f : Bisects(f, d, z, n)
<1> DEFINE Without == {m \in Nat : ~ \E f : Bisects(f, d, z, m)}
<1>1. SUFFICES ASSUME Without # {} PROVE FALSE
  OBVIOUS
<1>2. PICK m \in Without : \A k \in Without : m <= k
  <2>1. Without \subseteq Nat
    OBVIOUS
  <2> HIDE DEF Without
  <2> QED  BY <1>1, <2>1, NatHasLeast
<1>3. m \in Nat /\ ~ \E f : Bisects(f, d, z, m)
  OBVIOUS
<1>4. PICK f : m > 0 => Bisects(f, d, z, m - 1)
  <2>1. m > 0 => m - 1 \in Nat /\ m - 1 \notin Without
    BY <1>2, <1>3
  <2> QED  BY <2>1
<1> DEFINE g == [span \in Span |-> IF 0 < Length(span) /\ Length(span) < m THEN f[span]
                                   ELSE Halved(f, d, z, span)]
<1>5. ASSUME NEW low \in Int, NEW high \in Int, high - low <= m
      PROVE  g[<<low, high>>] = Halved(f, d, z, <<low, high>>)
  <2>1. g[<<low, high>>] = IF 0 < high - low /\ high - low < m THEN f[<<low, high>>]
                           ELSE Halved(f, d, z, <<low, high>>)
    BY DEF Span, Length
  <2>2. CASE 0 < high - low /\ high - low < m
    <3>1. high - low <= m - 1 /\ Bisects(f, d, z, m - 1)
      BY <2>2, <1>3, <1>4
    <3>2. f[<<low, high>>] = Halved(f, d, z, <<low, high>>)
      BY <3>1 DEF Bisects
    <3> QED  BY <2>1, <2>2, <3>2
  <2> QED  BY <2>1, <2>2
<1>6. ASSUME NEW low \in Int, NEW high \in Int, high - low <= m
      PROVE  g[<<low, high>>] = Halved(g, d, z, <<low, high>>)
  <2>1. CASE low >= high
    BY <1>5, <1>6, <2>1 DEF Halved
  <2>2. CASE low < high
    <3>1. m > 0 /\ Bisects(f, d, z, m - 1)
      BY <2>2, <1>3, <1>4, <1>6
    <3>2. \A l, h \in Int : h - l <= m - 1 => f[<<l, h>>] = g[<<l, h>>]
      <4>1. SUFFICES ASSUME NEW l \in Int, NEW h \in Int, h - l <= m - 1
                     PROVE  f[<<l, h>>] = g[<<l, h>>]
        OBVIOUS
      <4>2. h - l <= m
        BY <1>3, <4>1
      <4> HIDE DEF g
      <4> QED  BY <1>5, <3>1, <4>1, <4>2 DEF Bisects
    <3> HIDE DEF g
    <3>3. \A l, h \in Int : h - l < high - low => f[<<l, h>>] = g[<<l, h>>]
      <4>1. \A l, h \in Int : h - l < high - low => h - l <= m - 1
        BY <1>3, <1>6
      <4> QED  BY <3>2, <4>1
    <3>4. Halved(f, d, z, <<low, high>>) = Halved(g, d, z, <<low, high>>)
      BY <3>3, HalvedAlike
    <3> QED  BY <1>5, <1>6, <3>4
  <2> QED  BY <2>1, <2>2
<1> QED  BY <1>3, <1>6 DEF Bisects

(* The functions that bisect agree.                                        *)
LEMMA BisectsAgree ==
    ASSUME NEW d, NEW z, NEW f, NEW g, NEW m \in Int, NEW n \in Int,
           Bisects(f, d, z, m), Bisects(g, d, z, n),
           NEW low \in Int, NEW high \in Int, high - low <= m, high - low <= n
    PROVE  f[<<low, high>>] = g[<<low, high>>]
<1> DEFINE Apart == {k \in Nat : \E l, h \in Int : h - l = k /\ k <= m /\ k <= n
                                              /\ f[<<l, h>>] # g[<<l, h>>]}
<1>1. \A l, h \in Int : l >= h /\ h - l <= m /\ h - l <= n => f[<<l, h>>] = g[<<l, h>>]
  BY DEF Bisects, Halved
<1>2. SUFFICES ASSUME Apart # {} PROVE FALSE
  <2>1. CASE low >= high
    BY <1>1, <2>1
  <2>2. CASE low < high /\ Apart = {}
    <3>1. high - low \in Nat
      BY <2>2
    <3>2. high - low \notin Apart
      <4> HIDE DEF Apart
      <4> QED  BY <2>2
    <3> QED  BY <3>1, <3>2
  <2> HIDE DEF Apart
  <2> QED  BY <2>1, <2>2
<1>3. PICK k \in Apart : \A j \in Apart : k <= j
  <2>1. Apart \subseteq Nat
    OBVIOUS
  <2> HIDE DEF Apart
  <2> QED  BY <1>2, <2>1, NatHasLeast
<1>4. PICK l \in Int, h \in Int : h - l = k /\ k <= m /\ k <= n /\ f[<<l, h>>] # g[<<l, h>>]
  OBVIOUS
<1>5. \A a, b \in Int : b - a <= k - 1 => f[<<a, b>>] = g[<<a, b>>]
  <2>1. SUFFICES ASSUME NEW a \in Int, NEW b \in Int, b - a <= k - 1 PROVE f[<<a, b>>] = g[<<a, b>>]
    OBVIOUS
  <2>2. k \in Nat /\ b - a <= m /\ b - a <= n
    BY <1>4, <2>1
  <2>3. CASE a >= b
    BY <1>1, <2>2, <2>3
  <2>4. CASE a < b
    <3>1. b - a \in Nat /\ ~(k <= b - a)
      BY <2>1, <2>2, <2>4
    <3>2. b - a \notin Apart
      BY <1>3, <3>1
    <3> QED  BY <2>2, <3>1, <3>2
  <2> QED  BY <2>3, <2>4
<1>6. Halved(f, d, z, <<l, h>>) = Halved(g, d, z, <<l, h>>)
  <2> HIDE DEF Apart
  <2>1. l \in Int /\ h \in Int /\ h - l = k
    BY <1>4
  <2>2. \A a, b \in Int : b - a < h - l => f[<<a, b>>] = g[<<a, b>>]
    <3>1. \A a, b \in Int : b - a < h - l => b - a <= k - 1
      BY <2>1
    <3> QED  BY <1>5, <3>1
  <2>3. \A a, b \in Int : l < h /\ b - a < h - l => f[<<a, b>>] = g[<<a, b>>]
    BY <2>2
  <2> QED  BY <2>1, <2>3, HalvedAlike, SMTT(30)
<1>7. f[<<l, h>>] = Halved(f, d, z, <<l, h>>) /\ g[<<l, h>>] = Halved(g, d, z, <<l, h>>)
  BY <1>4 DEF Bisects
<1> QED  BY <1>4, <1>6, <1>7

(* Bisection is the function that bisects every span.                      *)
LEMMA BisectionBisects ==
    ASSUME NEW d, NEW z, NEW low \in Int, NEW high \in Int
    PROVE  Bisection(d, z)[<<low, high>>] = Halved(Bisection(d, z), d, z, <<low, high>>)
<1> DEFINE size(l, h) == IF l < h THEN h - l ELSE 0
           some(n) == CHOOSE f : Bisects(f, d, z, n)
           g == [span \in Span |-> some(size(span[1], span[2]))[span]]
           Is(f) == f = [span \in Span |-> Halved(f, d, z, span)]
<1>1. \A n \in Nat : Bisects(some(n), d, z, n)
  BY SomeBisect
<1>2. ASSUME NEW l \in Int, NEW h \in Int
      PROVE  g[<<l, h>>] = Halved(g, d, z, <<l, h>>)
  <2> DEFINE n == size(l, h)
             f == some(n)
  <2>1. n \in Nat /\ h - l <= n /\ (l < h => n = h - l)
    OBVIOUS
  <2>2. Bisects(f, d, z, n)
    <3> HIDE DEF n, some
    <3> QED  BY <1>1, <2>1
  <2>3. \A a, b \in Int : size(a, b) <= n => g[<<a, b>>] = f[<<a, b>>]
    <3>1. SUFFICES ASSUME NEW a \in Int, NEW b \in Int, size(a, b) <= n PROVE g[<<a, b>>] = f[<<a, b>>]
      OBVIOUS
    <3>2. size(a, b) \in Nat /\ b - a <= size(a, b)
      OBVIOUS
    <3>3. g[<<a, b>>] = some(size(a, b))[<<a, b>>]
      BY DEF Span
    <3>4. Bisects(some(size(a, b)), d, z, size(a, b))
      <4> HIDE DEF some, size
      <4> QED  BY <1>1, <3>2
    <3> HIDE DEF some, size, n, g
    <3>5. b - a <= n
      BY <2>1, <3>1, <3>2
    <3> QED  BY <2>1, <2>2, <3>2, <3>3, <3>4, <3>5, BisectsAgree
  <2>4. g[<<l, h>>] = f[<<l, h>>]
    <3>1. size(l, h) <= n
      BY <2>1
    <3> HIDE DEF n, f, g, size
    <3> QED  BY <2>3, <3>1
  <2>5. f[<<l, h>>] = Halved(f, d, z, <<l, h>>)
    <3> HIDE DEF n, f
    <3> QED  BY <2>1, <2>2 DEF Bisects
  <2>6. Halved(f, d, z, <<l, h>>) = Halved(g, d, z, <<l, h>>)
    <3>1. CASE l >= h
      BY <3>1 DEF Halved
    <3>2. CASE l < h
      <4>1. \A a, b \in Int : b - a < h - l => g[<<a, b>>] = f[<<a, b>>]
        <5>1. SUFFICES ASSUME NEW a \in Int, NEW b \in Int, b - a < h - l PROVE g[<<a, b>>] = f[<<a, b>>]
          OBVIOUS
        <5>2. size(a, b) <= n
          BY <2>1, <3>2, <5>1
        <5> HIDE DEF n, f, g, size
        <5> QED  BY <2>3, <5>2
      <4> HIDE DEF n, f, g, size
      <4> QED  BY <4>1, HalvedAlike
    <3> QED  BY <3>1, <3>2
  <2> HIDE DEF f, g
  <2> QED  BY <2>4, <2>5, <2>6
<1>3. Is(g)
  <2> DEFINE r == [span \in Span |-> Halved(g, d, z, span)]
  <2>1. \A span \in Span : g[span] = r[span]
    <3>1. SUFFICES ASSUME NEW span \in Span PROVE g[span] = Halved(g, d, z, span)
      OBVIOUS
    <3>2. PICK l \in Int, h \in Int : span = <<l, h>>
      BY DEF Span
    <3> HIDE DEF g
    <3> QED  BY <1>2, <3>2
  <2>2. DOMAIN g = Span /\ DOMAIN r = Span /\ g = [s \in DOMAIN g |-> g[s]] /\ r = [s \in DOMAIN r |-> r[s]]
    OBVIOUS
  <2> HIDE DEF g, r
  <2>3. g = r
    BY <2>1, <2>2
  <2> QED  BY <2>3 DEF r
<1>4. Bisection(d, z) = CHOOSE f : Is(f)
  BY DEF Bisection, Halved, Span
<1> HIDE DEF Is, g
<1>5. Is(CHOOSE f : Is(f))
  BY <1>3
<1>6. Is(Bisection(d, z))
  BY <1>4, <1>5
<1>7. <<low, high>> \in Span
  BY DEF Span
<1> QED  BY <1>6, <1>7 DEF Is
(* What bisection finds is where the dates that are too early end.         *)
LEMMA BisectFinds ==
    ASSUME NEW d, NEW z, NEW from \in Int, NEW to \in Int, NEW first \in Int,
           from <= first, first <= to,
           \A t \in Int : from <= t /\ t < to => (CivilDateAt(t, z) < d <=> t < first)
    PROVE  Bisect(d, z, from, to) = first
<1> DEFINE F == Bisection(d, z)
           Holds1(l, h) == from <= l /\ l <= first /\ first <= h /\ h <= to
           Wrong == {n \in Nat : \E l, h \in Int : h - l = n /\ Holds1(l, h) /\ F[<<l, h>>] # first}
<1>1. SUFFICES ASSUME Wrong # {} PROVE FALSE
  <2>1. to - from \in Nat /\ Holds1(from, to)
    OBVIOUS
  <2>2. to - from \notin Wrong
    BY <1>1
  <2> QED  BY <2>1, <2>2 DEF Bisect
<1>2. PICK n \in Wrong : \A m \in Wrong : n <= m
  <2>1. Wrong \subseteq Nat
    OBVIOUS
  <2> HIDE DEF Wrong
  <2> QED  BY <1>1, <2>1, NatHasLeast
<1>3. PICK l \in Int, h \in Int : h - l = n /\ Holds1(l, h) /\ F[<<l, h>>] # first
  OBVIOUS
<1>4. \A a, b \in Int : Holds1(a, b) /\ b - a < n => F[<<a, b>>] = first
  <2>1. SUFFICES ASSUME NEW a \in Int, NEW b \in Int, Holds1(a, b), b - a < n PROVE F[<<a, b>>] = first
    OBVIOUS
  <2>2. b - a \in Nat /\ ~(n <= b - a)
    BY <2>1, <1>3
  <2>3. b - a \notin Wrong
    BY <1>2, <2>2
  <2> HIDE DEF F
  <2> QED  BY <2>1, <2>2, <2>3
<1>5. F[<<l, h>>] = Halved(F, d, z, <<l, h>>)
  BY BisectionBisects
<1> HIDE DEF F
<1>6. CASE l >= h
  BY <1>3, <1>5, <1>6 DEF Halved
<1>7. CASE l < h
  <2> DEFINE m == Middle(<<l, h>>)
  <2>1. m \in Int /\ l <= m /\ m < h
    BY <1>7, HalvesAreShorter
  <2> HIDE DEF m
  <2>2. CivilDateAt(m, z) < d <=> m < first
    BY <1>3, <2>1
  <2>3. CASE m < first
    <3>1. F[<<l, h>>] = F[<<m + 1, h>>]
      BY <1>5, <1>7, <2>2, <2>3 DEF Halved, m
    <3>2. m + 1 \in Int /\ Holds1(m + 1, h) /\ h - (m + 1) < n
      BY <1>3, <2>1, <2>3
    <3> QED  BY <1>3, <1>4, <3>1, <3>2
  <2>4. CASE ~(m < first)
    <3>1. F[<<l, h>>] = F[<<l, m>>]
      BY <1>5, <1>7, <2>2, <2>4 DEF Halved, m
    <3>2. Holds1(l, m) /\ m - l < n
      BY <1>3, <2>1, <2>4
    <3> QED  BY <1>3, <1>4, <2>1, <3>1, <3>2
  <2> QED  BY <2>3, <2>4
<1> QED  BY <1>6, <1>7

(* A day in whole units, and what is left of them.                         *)
LEMMA DayTimes ==
    ASSUME NEW m \in Int, NEW n \in Int, m <= n
    PROVE  m * Day \in Int /\ n * Day \in Int /\ m * Day <= n * Day
<1>1. Day \in Nat /\ n - m \in Nat
  BY CalendarAssumption
<1>2. (n - m) * Day >= 0
  BY <1>1
<1>3. (n - m) * Day = n * Day - m * Day
  BY <1>1
<1> QED  BY <1>1, <1>2, <1>3

LEMMA DateIsBefore ==
    ASSUME NEW x \in Int, NEW d \in Int
    PROVE  x \div Day < d <=> x < d * Day
<1> DEFINE q == x \div Day
<1>1. q \in Int /\ q * Day <= x /\ x < q * Day + Day /\ Day \in Nat /\ d * Day \in Int /\ q * Day \in Int
  BY CalendarAssumption
<1>2. (q + 1) * Day = q * Day + Day
  BY <1>1
<1> HIDE DEF q
<1>3. CASE q < d
  <2>1. (q + 1) * Day <= d * Day
    BY <1>1, <1>3, DayTimes
  <2> QED  BY <1>1, <1>2, <1>3, <2>1 DEF q
<1>4. CASE d <= q
  <2>1. d * Day <= q * Day
    BY <1>1, <1>4, DayTimes
  <2> QED  BY <1>1, <1>4, <2>1 DEF q
<1> QED  BY <1>1, <1>3, <1>4

LEMMA MidnightIsWhole ==
    ASSUME NEW d \in Int
    PROVE  (d * Day) % Day = 0
<1> DEFINE w == d * Day
           q == w \div Day
<1>1. Day \in Nat /\ Day > 0 /\ w \in Int /\ q \in Int
  BY CalendarAssumption
<1>2. w = Day * q + (w % Day) /\ w % Day \in Int
  BY <1>1
<1>3. ~(q < d) /\ q < d + 1
  <2>1. w < (d + 1) * Day /\ (d + 1) * Day = w + Day
    BY <1>1
  <2> QED  BY <1>1, <2>1, DateIsBefore
<1>4. q = d
  BY <1>1, <1>3
<1>5. Day * q = w
  BY <1>1, <1>4
<1> QED  BY <1>1, <1>2, <1>5

-----------------------------------------------------------------------------
(* Where days start.  Around a day that is steady the date changes once,   *)
(* at the start of the day, unless the clock shows its midnight twice.     *)
LEMMA StartOfDay ==
    ASSUME 2 * Gap <= Day, NEW d \in Int, NEW z, Steady(d, z)
    PROVE  LET earlier == Offset(z, (d - 1) * Day)
               later == Offset(z, (d + 1) * Day + Gap)
               start == StartOfCivilDay(d, z)
           IN  /\ earlier \in (-Day) .. Day /\ later \in (-Day) .. Day
               /\ later - earlier \in (-Gap) .. Gap
               /\ \A t \in Around(d) : Offset(z, t) \in {earlier, later}
               /\ start \in Int
               /\ start \in (d * Day - later) .. (d * Day - earlier)
                     \/ start \in (d * Day - earlier) .. (d * Day - later)
               /\ \A t \in Around(d) :
                     \/ CivilDateAt(t, z) < d <=> t < start
                     \/ MidnightRepeated(t, z)
<1> DEFINE w == d * Day
           a == Offset(z, (d - 1) * Day)
           b == Offset(z, (d + 1) * Day + Gap)
           S == StartOfCivilDay(d, z)
<1>1. /\ Day \in Nat /\ Day > 0 /\ Gap \in Nat /\ 2 * Gap <= Day /\ w \in Int
      /\ (d - 1) * Day = w - Day /\ (d + 1) * Day = w + Day
  BY CalendarAssumption
<1>2. Around(d) = (w - Day) .. (w + Day + Gap)
  BY <1>1 DEF Around
<1>3. /\ a \in Int /\ b \in Int /\ -Day <= a /\ a <= Day /\ -Day <= b /\ b <= Day
      /\ -Gap <= b - a /\ b - a <= Gap
  <2>1. {a, b} \subseteq (-Day) .. Day /\ b - a \in (-Gap) .. Gap
    BY DEF Steady
  <2> QED  BY <1>1, <2>1
<1>4. PICK c \in Around(d) :
         /\ \A t \in Around(d) : Offset(z, t) = IF t < c THEN a ELSE b
         /\ c <= w /\ c + a < w => c + b <= w
  BY DEF Steady
<1>5. c \in Int /\ w - Day <= c /\ c <= w + Day + Gap
  BY <1>1, <1>2, <1>4
<1> HIDE DEF w, a, b
<1>6. \A t \in Int : w - Day <= t /\ t <= w + Day + Gap => Offset(z, t) = IF t < c THEN a ELSE b
  BY <1>1, <1>2, <1>4
<1>7. \A t \in Int : w - Day <= t /\ t <= w + Day + Gap =>
         (CivilDateAt(t, z) < d <=> t + (IF t < c THEN a ELSE b) < w)
  <2>1. \A x \in Int : x \div Day < d <=> x < w
    BY DateIsBefore DEF w
  <2> QED  BY <1>3, <1>6, <2>1 DEF CivilDateAt
<1> DEFINE near == w - Offset(z, w)
           start == w - Offset(z, near)
<1>8. /\ near = w - (IF w < c THEN a ELSE b)
      /\ start = w - (IF near < c THEN a ELSE b)
      /\ near \in Int /\ start \in Int
      /\ w - Day <= start /\ start <= w + Day /\ w - Day <= near /\ near <= w + Day
  <2>1. Offset(z, w) = IF w < c THEN a ELSE b
    BY <1>1, <1>6
  <2>2. near \in Int /\ w - Day <= near /\ near <= w + Day
    BY <1>1, <1>3, <2>1
  <2> HIDE DEF near
  <2>3. Offset(z, near) = IF near < c THEN a ELSE b
    BY <1>1, <1>6, <2>2
  <2> QED  BY <1>1, <1>3, <2>1, <2>2, <2>3 DEF near
<1>9. S = IF CivilDateAt(start, z) >= d THEN start ELSE Bisect(d, z, start, start + Gap)
  BY DEF S, StartOfCivilDay, w
<1> HIDE DEF near, start, S
<1>10. CivilDateAt(start, z) < d <=> start + (IF start < c THEN a ELSE b) < w
  BY <1>1, <1>7, <1>8
<1>11. CivilDateAt(start, z) \in Int
  <2>1. Offset(z, start) \in Int
    BY <1>1, <1>3, <1>6, <1>8
  <2> QED  BY <1>1, <1>8, <2>1 DEF CivilDateAt
<1>12. CASE CivilDateAt(start, z) >= d
  <2>1. S = start /\ ~(CivilDateAt(start, z) < d)
    BY <1>9, <1>11, <1>12
  <2>2. start + (IF start < c THEN a ELSE b) >= w
    BY <1>3, <1>5, <1>8, <1>10, <1>1, <2>1
  <2>3. S = w - a \/ S = w - b
    BY <1>8, <2>1
  <2>4. ASSUME NEW t \in Int, w - Day <= t, t <= w + Day + Gap
        PROVE  (CivilDateAt(t, z) < d <=> t < S) \/ MidnightRepeated(t, z)
    <3>1. \/ t + (IF t < c THEN a ELSE b) < w <=> t < start
          \/ w - a < c /\ c <= w - b /\ w - a <= t /\ t < w - b
      BY <1>1, <1>3, <1>4, <1>5, <1>8, <2>2, <2>4
    <3>2. ASSUME w - a < c, c <= w - b, w - a <= t, t < w - b PROVE MidnightRepeated(t, z)
      <4> DEFINE i == w - a
                 j == w - b
      <4>1. i \in (t - Day) .. (t + Day) /\ j \in (t - Day) .. (t + Day) /\ i < j
        BY <1>1, <1>3, <2>4, <3>2
      <4>2. Offset(z, i) = a /\ Offset(z, j) = b
        BY <1>1, <1>3, <1>5, <1>6, <3>2
      <4>3. i + a = w /\ j + b = w /\ w % Day = 0
        BY <1>1, <1>3, MidnightIsWhole DEF w
      <4> HIDE DEF i, j
      <4> QED  BY <4>1, <4>2, <4>3 DEF MidnightRepeated
    <3> QED  BY <1>7, <2>1, <2>4, <3>1, <3>2
  <2>5. S \in Int /\ (S \in (w - b) .. (w - a) \/ S \in (w - a) .. (w - b))
    BY <1>1, <1>3, <2>3
  <2> QED  BY <1>1, <1>2, <1>3, <1>4, <2>4, <2>5 DEF w, a, b, S
<1>13. CASE ~(CivilDateAt(start, z) >= d)
  <2>1. start + (IF start < c THEN a ELSE b) < w
    BY <1>10, <1>11, <1>13
  <2>2. start = w - b /\ start < c /\ c <= w - a /\ w - a <= start + Gap
    BY <1>1, <1>3, <1>5, <1>8, <2>1
  <2>3. ASSUME NEW t \in Int, w - Day <= t, t <= w + Day + Gap
        PROVE  CivilDateAt(t, z) < d <=> t < c
    <3>1. t + (IF t < c THEN a ELSE b) < w <=> t < c
      BY <1>1, <1>3, <1>5, <2>2, <2>3
    <3> QED  BY <1>7, <2>3, <3>1
  <2>4. S = c
    <3>1. \A t \in Int : start <= t /\ t < start + Gap => (CivilDateAt(t, z) < d <=> t < c)
      <4>1. \A t \in Int : start <= t /\ t < start + Gap => w - Day <= t /\ t <= w + Day + Gap
        BY <1>1, <1>8
      <4> QED  BY <2>3, <4>1
    <3>2. start + Gap \in Int /\ start <= c /\ c <= start + Gap
      BY <1>1, <1>5, <1>8, <1>3, <2>2
    <3>3. Bisect(d, z, start, start + Gap) = c
      BY <1>5, <1>8, <3>1, <3>2, BisectFinds
    <3> QED  BY <1>9, <1>13, <3>3
  <2>5. S \in (w - b) .. (w - a)
    BY <1>1, <1>3, <1>5, <2>2, <2>4
  <2> QED  BY <1>1, <1>2, <1>3, <1>4, <1>5, <2>3, <2>4, <2>5 DEF w, a, b, S
<1> QED  BY <1>12, <1>13

(* Anywhere else the date is as far from d as the instant is.              *)
LEMMA DateAndStart ==
    ASSUME 2 * Gap <= Day, NEW d \in Int, NEW z, Steady(d, z), NEW t \in Int, Offset(z, t) \in (-Day) .. Day
    PROVE  (CivilDateAt(t, z) < d <=> t < StartOfCivilDay(d, z)) \/ MidnightRepeated(t, z)
<1> DEFINE w == d * Day
           o == Offset(z, t)
           S == StartOfCivilDay(d, z)
<1>1. Day \in Nat /\ Gap \in Nat /\ w \in Int /\ (d - 1) * Day = w - Day /\ (d + 1) * Day = w + Day
  BY CalendarAssumption
<1>2. o \in Int /\ -Day <= o /\ o <= Day
  BY <1>1
<1>3. CivilDateAt(t, z) < d <=> t + o < w
  BY <1>2, DateIsBefore DEF CivilDateAt
<1>4. S \in Int /\ w - Day <= S /\ S <= w + Day
  BY <1>1, StartOfDay
<1> HIDE DEF w, o, S
<1>5. CASE t < w - Day
  BY <1>1, <1>2, <1>3, <1>4, <1>5 DEF S
<1>6. CASE t > w + Day + Gap
  BY <1>1, <1>2, <1>3, <1>4, <1>6 DEF S
<1>7. CASE w - Day <= t /\ t <= w + Day + Gap
  <2>1. t \in Around(d)
    BY <1>1, <1>7 DEF Around
  <2> QED  BY <2>1, StartOfDay
<1> QED  BY <1>1, <1>5, <1>6, <1>7

(* Days start one after the other.                                         *)
LEMMA StartsInOrder ==
    ASSUME 2 * Gap <= Day, NEW d \in Int, NEW e \in Int, d < e, NEW z, Steady(d, z), Steady(e, z)
    PROVE  /\ StartOfCivilDay(d, z) \in Int /\ StartOfCivilDay(e, z) \in Int
           /\ StartOfCivilDay(d, z) <= StartOfCivilDay(e, z)
<1> DEFINE w == d * Day
           v == e * Day
           a == Offset(z, (d - 1) * Day)
           b == Offset(z, (d + 1) * Day + Gap)
           f == Offset(z, (e - 1) * Day)
           g == Offset(z, (e + 1) * Day + Gap)
           S == StartOfCivilDay(d, z)
           T == StartOfCivilDay(e, z)
<1>1. /\ Day \in Nat /\ Day > 0 /\ Gap \in Nat /\ 2 * Gap <= Day /\ w \in Int /\ v \in Int
      /\ (d - 1) * Day = w - Day /\ (d + 1) * Day = w + Day /\ (e - 1) * Day = v - Day
      /\ (e + 1) * Day = v + Day
  BY CalendarAssumption
<1>2. /\ a \in (-Day) .. Day /\ b \in (-Day) .. Day /\ b - a \in (-Gap) .. Gap /\ S \in Int
      /\ S \in (w - b) .. (w - a) \/ S \in (w - a) .. (w - b)
      /\ \A t \in Around(d) : Offset(z, t) \in {a, b}
  BY StartOfDay
<1>3. /\ f \in (-Day) .. Day /\ g \in (-Day) .. Day /\ g - f \in (-Gap) .. Gap /\ T \in Int
      /\ T \in (v - g) .. (v - f) \/ T \in (v - f) .. (v - g)
      /\ \A t \in Around(e) : Offset(z, t) \in {f, g}
  BY StartOfDay
<1>4. CASE e = d + 1
  <2>1. v = w + Day
    BY <1>1, <1>4
  <2>2. w \in Around(d) /\ w \in Around(e)
    BY <1>1, <2>1 DEF Around
  <2>3. {a, b} \cap {f, g} # {}
    BY <1>2, <1>3, <2>2
  <2> HIDE DEF w, v, a, b, f, g, S, T
  <2> QED  BY <1>1, <1>2, <1>3, <2>1, <2>3 DEF S, T
<1>5. CASE d + 2 <= e
  <2>1. (d + 2) * Day <= v /\ (d + 2) * Day = w + Day + Day
    BY <1>1, <1>5, DayTimes
  <2> HIDE DEF w, v, a, b, f, g, S, T
  <2> QED  BY <1>1, <1>2, <1>3, <2>1 DEF S, T
<1> QED  BY <1>4, <1>5

-----------------------------------------------------------------------------
LEMMA MultiplesLeaveNothing ==
    ASSUME NEW n \in Nat, n > 0, NEW q \in Int
    PROVE  (n * q) % n = 0
<1> DEFINE w == n * q
           p == w \div n
           s == w % n
<1>1. w \in Int /\ p \in Int /\ s \in 0 .. (n - 1) /\ w = n * p + s
  OBVIOUS
<1>2. w = n * q
  OBVIOUS
<1> HIDE DEF w, p, s
<1>3. s = n * (q - p)
  BY <1>1, <1>2
<1>4. ~(q - p < 0)
  <2>1. ASSUME q - p < 0 PROVE FALSE
    <3>1. n * (p - q - 1) >= 0 /\ n * (p - q - 1) = n * p - n * q - n
      BY <1>1, <2>1
    <3> QED  BY <1>1, <1>2, <3>1
  <2> QED  BY <2>1
<1>5. ~(q - p > 0)
  <2>1. ASSUME q - p > 0 PROVE FALSE
    <3>1. n * (q - p - 1) >= 0 /\ n * (q - p - 1) = n * q - n * p - n
      BY <1>1, <2>1
    <3> QED  BY <1>1, <1>2, <3>1
  <2> QED  BY <2>1
<1>6. q - p = 0
  BY <1>1, <1>4, <1>5
<1>7. s = 0
  BY <1>1, <1>3, <1>6
<1> QED  BY <1>7 DEF s, w

(* The days of a window: the date of the instant lies between them, and    *)
(* they are a whole number of windows from the first day there is.         *)
LEMMA DaysOfAWindow ==
    ASSUME NEW window, NEW t \in Int, NEW z, Offset(z, t) \in (-Day) .. Day
    PROVE  LET today == CivilDateAt(t, z)
               first == FirstDay(window, t, z)
               next  == NextDay(window, t, z)
           IN  /\ today \in Int /\ first \in Int /\ next \in Int
               /\ first <= today /\ today < next
               /\ next = first + DaysOf(window) /\ first % DaysOf(window) = 0
               /\ DaysOf(window) \in Nat \ {0}
<1> DEFINE today == CivilDateAt(t, z)
           n == DaysOf(window)
<1>1. n \in Nat /\ n > 0 /\ Day \in Nat /\ Day > 0
  BY CalendarAssumption DEF DaysOf
<1>2. today \in Int
  BY <1>1 DEF CivilDateAt
<1> HIDE DEF today, n
<1>3. today % n \in 0 .. (n - 1)
  BY <1>1, <1>2
<1>4. FirstDay(window, t, z) = today - (today % n) /\ NextDay(window, t, z) = today - (today % n) + n
  BY DEF FirstDay, NextDay, today, n
<1>5. (today - (today % n)) % n = 0
  <2> DEFINE q == today \div n
             r == today % n
  <2>1. q \in Int /\ r \in 0 .. (n - 1) /\ today = n * q + r
    BY <1>1, <1>2
  <2>2. today - r = n * q /\ n * q \in Int
    BY <1>1, <1>2, <2>1
  <2>3. (n * q) % n = 0
    BY <1>1, <2>1, MultiplesLeaveNothing
  <2> QED  BY <2>2, <2>3
<1> QED  BY <1>1, <1>2, <1>3, <1>4, <1>5 DEF today, n

(* An instant lies in the window it is given, a day's or a week's, in any  *)
(* zone that is steady around the window's two ends, unless its clock comes*)
(* to a midnight twice (windowBoundsAt).                                   *)
THEOREM InOwnWindow ==
    ASSUME 2 * Gap <= Day, NEW window, NEW t \in Int, NEW z, Offset(z, t) \in (-Day) .. Day,
           Steady(FirstDay(window, t, z), z), Steady(NextDay(window, t, z), z)
    PROVE  LET w == WindowBoundsAt(window, t, z)
           IN  /\ w.start \in Int /\ w.end \in Int
               /\ (w.start <= t /\ t < w.end) \/ MidnightRepeated(t, z)
<1> DEFINE first == FirstDay(window, t, z)
           next == NextDay(window, t, z)
           S == StartOfCivilDay(first, z)
           T == StartOfCivilDay(next, z)
<1>1. WindowBoundsAt(window, t, z).start = S /\ WindowBoundsAt(window, t, z).end = T
  BY DEF WindowBoundsAt
<1>2. /\ first \in Int /\ next \in Int /\ CivilDateAt(t, z) \in Int
      /\ first <= CivilDateAt(t, z) /\ CivilDateAt(t, z) < next
  BY DaysOfAWindow
<1>3. S \in Int /\ T \in Int
  BY <1>2, StartOfDay
<1>4. ~(CivilDateAt(t, z) < first)
  BY <1>2
<1>5. ~(t < S) \/ MidnightRepeated(t, z)
  BY <1>2, <1>4, DateAndStart
<1>6. t < T \/ MidnightRepeated(t, z)
  BY <1>2, DateAndStart
<1> QED  BY <1>1, <1>3, <1>5, <1>6
=============================================================================
