----------------------------- MODULE TimerProof -----------------------------
(***************************************************************************)
(* What Timer.tla promises, for every width of the time, every slack and   *)
(* every set of timers and delays that leave the stamp its margin: whoever *)
(* reads the time gets the true time, the list of timers is in the order   *)
(* of the deadlines, and no callback is late.                              *)
(*                                                                         *)
(* None of the three is inductive, and none can be had without the others: *)
(* the time is right because the stamp is less than one period of the      *)
(* counter old, the stamp is renewed because its own timer is not late,    *)
(* and timers are not late because each deadline was put where it belongs  *)
(* by a right time.  Inv below says how far each of them is from failing.  *)
(***************************************************************************)
EXTENDS Timer, WellFoundedInduction, SequenceTheorems, TLAPS

Half == SPAN \div 2
Period == TIME_UPDATE_PERIOD

\* The furthest back that a deadline is set.
Past == LATE - 2 - LATENCY

Node == [timer : All, deadline : Times]
Nodes(l) == {l[i] : i \in DOMAIN l}

\* The ticks a timer has left, and the ticks since a stamp was taken.
left(n) == time_diff(clock, n.deadline)
Age(s) == (s - inverted(clock)) % SPAN

Ordered(l) ==
    \A i, j \in DOMAIN l :
        i < j => l[i].timer # l[j].timer /\ left(l[i]) <= left(l[j])

-----------------------------------------------------------------------------
(* The constants.                                                           *)

LEMMA LeastIs ==
    ASSUME NEW S \in SUBSET Nat, S # {}
    PROVE  \E m \in S : \A x \in S : m <= x
<1>1. PICK R : /\ IsWellFoundedOn(R, Nat)
               /\ R = {p \in Nat \X Nat : p[1] < p[2]}
  <2>1. OpToRel(<, Nat) = {p \in Nat \X Nat : p[1] < p[2]}
    BY ONLY DEF OpToRel
  <2>2. /\ IsWellFoundedOn(OpToRel(<, Nat), Nat)
        /\ OpToRel(<, Nat) = {p \in Nat \X Nat : p[1] < p[2]}
    BY ONLY NatLessThanWellFounded, <2>1, Zenon
  <2> QED
    BY ONLY <2>2, Zenon
<1>2. PICK m \in S : \A x \in S : <<x, m>> \notin R
  BY <1>1, WFMin
<1>3. \A x \in S : <<x, m>> \in Nat \X Nat /\ (x < m => <<x, m>> \in R)
  BY <1>1, <1>2
<1>4. ASSUME NEW x \in S PROVE m <= x
  <2>1. x \in Nat /\ m \in Nat /\ ~(x < m)
    BY <1>2, <1>3
  <2> QED
    BY <2>1
<1> QED
  BY <1>4

LEMMA MaxIs ==
    ASSUME NEW S \in SUBSET Int, NEW b \in Int, \A x \in S : x <= b, S # {}
    PROVE  Max(S) \in S /\ \A x \in S : x <= Max(S)
<1> DEFINE T == {b - x : x \in S}
<1>1. T \in SUBSET Nat /\ T # {}
  <2>1. \A x \in S : b - x \in Nat
    OBVIOUS
  <2>2. T # {}
    OBVIOUS
  <2> QED
    BY <2>1, <2>2
<1> HIDE DEF T
<1>2. PICK m \in T : \A x \in T : m <= x
  BY <1>1, LeastIs
<1> USE DEF T
<1>3. b - m \in S /\ \A x \in S : b - m >= x
  BY <1>2
<1> QED
  BY <1>3 DEF Max

LEMMA Constants ==
    /\ SPAN \in Nat /\ WRAP \in Nat /\ Half \in Nat /\ Period \in Nat
    /\ SPAN = 2 * Half /\ WRAP = 2 * Period /\ WRAP <= Half /\ Period > 0
    /\ SLACK_TICKS \in 0..Period /\ LATENCY \in Nat /\ GAP \in Nat
    /\ Past \in Nat /\ LATE = 2 + LATENCY + Past /\ LATE + GAP < Period
    /\ \A d \in Delays : d \in Int /\ -Past <= d /\ d < WRAP
    /\ STAMP \notin Timers
<1> USE TimerAssumption, MarginAssumption
<1> DEFINE D == {0} \cup {-d : d \in Delays}
<1>1. D \in SUBSET Int /\ D # {} /\ \A x \in D : x <= WRAP
  OBVIOUS
<1>2. Max(D) \in D /\ \A x \in D : x <= Max(D)
  <2>1. WRAP \in Int
    OBVIOUS
  <2> HIDE DEF D
  <2> QED
    BY ONLY <1>1, <2>1, MaxIs
<1>3. Past = Max(D)
  BY <1>1, <1>2 DEF Past, LATE
<1>4. Past \in Nat /\ LATE = 2 + LATENCY + Past
  BY <1>1, <1>2, <1>3 DEF LATE
<1>5. \A d \in Delays : d \in Int /\ -Past <= d /\ d < WRAP
  BY <1>1, <1>2, <1>3
<1>6. /\ SPAN \in Nat /\ WRAP \in Nat /\ Period \in Nat
      /\ WRAP = 2 * Period /\ Period > 0
  BY DEF Period, TIME_UPDATE_PERIOD
<1>7. SPAN % 2 = 0
  <2> DEFINE k == SPAN \div WRAP
  <2>1. SPAN = k * WRAP /\ k \in Int
    BY <1>6
  <2>2. SPAN = 2 * (k * Period)
    BY <1>6, <2>1
  <2> HIDE DEF k
  <2>3. k * Period \in Int
    BY <1>6, <2>1
  <2> QED
    BY <2>2, <2>3
<1>8. Half \in Nat /\ SPAN = 2 * Half /\ WRAP <= Half
  BY <1>6, <1>7 DEF Half
<1> QED
  BY <1>4, <1>5, <1>6, <1>8 DEF Period, TIME_UPDATE_PERIOD

-----------------------------------------------------------------------------
(* Time: the arithmetic of a counter that wraps.                            *)

\* A time difference is a number of ticks, up to whole turns of the time.
LEMMA Diff ==
    ASSUME NEW x \in Times, NEW y \in Times
    PROVE  /\ time_diff(x, y) \in (-Half)..(Half - 1)
           /\ time_diff(x, y) \in {y - x - SPAN, y - x, y - x + SPAN}
<1>1. /\ SPAN \in Nat \ {0} /\ Half \in Nat /\ SPAN = 2 * Half
      /\ x \in 0..(SPAN - 1) /\ y \in 0..(SPAN - 1)
  BY Constants DEF Times
<1> DEFINE a == y - x + Half
<1>2. a \in Int /\ a > -SPAN /\ a < 2 * SPAN
  BY <1>1
<1>3. a % SPAN \in 0..(SPAN - 1) /\ a % SPAN \in {a - SPAN, a, a + SPAN}
  <2> HIDE DEF a
  <2> QED
    BY <1>1, <1>2
<1>4. time_diff(x, y) = (a % SPAN) - Half
  BY DEF time_diff, Half
<1> QED
  BY <1>1, <1>3, <1>4

\* ... and the only one in reach that fits.
LEMMA DiffIs ==
    ASSUME NEW x \in Times, NEW y \in Times, NEW d \in (-Half)..(Half - 1),
           d \in {y - x - SPAN, y - x, y - x + SPAN}
    PROVE  time_diff(x, y) = d
<1>1. /\ SPAN \in Nat /\ Half \in Nat /\ SPAN = 2 * Half
      /\ x \in 0..(SPAN - 1) /\ y \in 0..(SPAN - 1)
  BY Constants DEF Times
<1> DEFINE e == time_diff(x, y)
<1>2. /\ e \in (-Half)..(Half - 1)
      /\ e \in {y - x - SPAN, y - x, y - x + SPAN}
  BY Diff
<1> HIDE DEF e
<1>3. e = d
  BY <1>1, <1>2
<1> QED
  BY <1>3 DEF e

LEMMA Added ==
    ASSUME NEW x \in Times, NEW d \in (-Half)..(Half - 1)
    PROVE  /\ time_add(x, d) \in Times
           /\ time_add(x, d) \in {x + d - SPAN, x + d, x + d + SPAN}
           /\ time_diff(x, time_add(x, d)) = d
<1>1. /\ SPAN \in Nat \ {0} /\ Half \in Nat /\ SPAN = 2 * Half
      /\ x \in 0..(SPAN - 1)
  BY Constants DEF Times
<1> DEFINE a == x + d
<1>2. a \in Int /\ a >= -SPAN /\ a < 2 * SPAN
  BY <1>1
<1>3. a % SPAN \in 0..(SPAN - 1) /\ a % SPAN \in {a - SPAN, a, a + SPAN}
  <2> HIDE DEF a
  <2> QED
    BY <1>1, <1>2
<1>4. /\ time_add(x, d) \in Times
      /\ time_add(x, d) \in {x + d - SPAN, x + d, x + d + SPAN}
  BY <1>1, <1>3 DEF time_add, Times
<1>5. d \in {time_add(x, d) - x - SPAN, time_add(x, d) - x,
             time_add(x, d) - x + SPAN}
  BY <1>1, <1>4 DEF Times
<1> QED
  BY <1>4, <1>5, DiffIs

\* A tick of the clock takes one tick off every deadline.
LEMMA Ticked ==
    ASSUME NEW x \in Times, NEW y \in Times, time_diff(x, y) > -Half
    PROVE  /\ time_add(x, 1) \in Times
           /\ time_diff(time_add(x, 1), y) = time_diff(x, y) - 1
<1>1. SPAN \in Nat /\ Half \in Nat /\ SPAN = 2 * Half /\ Half >= 2
  BY Constants
<1>2. /\ time_add(x, 1) \in Times
      /\ time_add(x, 1) \in {x + 1 - SPAN, x + 1, x + 1 + SPAN}
  BY <1>1, Added
<1> DEFINE d == time_diff(x, y)
           z == time_add(x, 1)
<1>3. /\ d \in (-Half)..(Half - 1) /\ d > -Half
      /\ d \in {y - x - SPAN, y - x, y - x + SPAN}
  BY Diff
<1>4. /\ time_diff(z, y) \in (-Half)..(Half - 1)
      /\ time_diff(z, y) \in {y - z - SPAN, y - z, y - z + SPAN}
  BY <1>2, Diff
<1> DEFINE e == time_diff(z, y)
<1> HIDE DEF d, z, e
<1>5. e = d - 1
  BY <1>1, <1>2, <1>3, <1>4 DEF Times, d, z, e
<1> QED
  BY <1>2, <1>5 DEF d, z, e

\* The ticks since a stamp was taken, as a difference that wraps.
LEMMA Aged ==
    ASSUME NEW c \in Times, NEW s \in Times
    PROVE  LET a == (s - inverted(c)) % SPAN
           IN  /\ inverted(c) \in Times
               /\ a \in 0..(SPAN - 1)
               /\ a \in {s - inverted(c), s - inverted(c) + SPAN}
<1>1. SPAN \in Nat \ {0} /\ c \in 0..(SPAN - 1) /\ s \in 0..(SPAN - 1)
  BY Constants DEF Times
<1> DEFINE x == inverted(c)
           b == s - x
<1>2. x \in 0..(SPAN - 1)
  BY <1>1 DEF inverted
<1>3. b \in Int /\ b > -SPAN /\ b < SPAN
  <2> HIDE DEF x
  <2> QED
    BY <1>1, <1>2
<1>4. b % SPAN \in 0..(SPAN - 1) /\ b % SPAN \in {b, b + SPAN}
  <2> HIDE DEF b
  <2> QED
    BY <1>1, <1>3
<1> QED
  BY <1>2, <1>4 DEF Times

\* time_now is right about any stamp less than a period of the counter old.
LEMMA Exact ==
    ASSUME clock \in Times, NEW s \in Times, Age(s) < WRAP
    PROVE  time_now(s) = clock
<1> DEFINE x == inverted(clock)
           a == (s - x) % SPAN
           k == SPAN \div WRAP
           q == s \div WRAP
           r == s % WRAP
           p == x \div WRAP
           y == x % WRAP
<1>1. /\ SPAN \in Nat \ {0} /\ WRAP \in Nat \ {0}
      /\ SPAN % WRAP = 0 /\ s \in 0..(SPAN - 1)
  BY Constants, TimerAssumption DEF Times
<1>2. x \in 0..(SPAN - 1) /\ a \in 0..(WRAP - 1) /\ a \in {s - x, s - x + SPAN}
  BY <1>1, Aged DEF Age, Times
<1> HIDE DEF x, a
<1>3. /\ s = q * WRAP + r /\ q \in Nat /\ r \in 0..(WRAP - 1)
      /\ x = p * WRAP + y /\ p \in Nat /\ y \in 0..(WRAP - 1)
      /\ SPAN = k * WRAP /\ k \in Nat
  BY <1>1, <1>2
<1> DEFINE t == y + q * WRAP
           w == IF t > s THEN t - WRAP ELSE t
<1>4. time_now(s) = inverted(w % SPAN)
  BY DEF time_now, wrapped, stk_now, x
<1> HIDE DEF q, r, p, y, k
<1>5. q < k /\ p < k
  BY <1>1, <1>2, <1>3
<1>6. w % SPAN = x
  <2> DEFINE m == q - p
  <2>1. m \in Int /\ q * WRAP = p * WRAP + m * WRAP
    BY <1>1, <1>3
  <2>2. /\ m >= 1 => m * WRAP >= WRAP
        /\ m >= 2 => m * WRAP >= 2 * WRAP
        /\ m <= -1 => m * WRAP <= -WRAP
        /\ m = 1 => m * WRAP = WRAP
    BY <1>1, <2>1
  <2> HIDE DEF m
  <2>3. x % SPAN = x /\ (x - SPAN) % SPAN = x
    BY <1>1, <1>2
  <2>4. CASE s >= x
    <3>1. s - x < WRAP
      BY <1>1, <1>2, <2>4
    <3>2. CASE y <= r
      <4>1. m = 0
        BY <1>1, <1>3, <2>1, <2>2, <2>4, <3>1, <3>2
      <4>2. t = x /\ ~(t > s)
        BY <1>1, <1>3, <2>1, <2>4, <4>1
      <4> QED
        BY <2>3, <4>2
    <3>3. CASE y > r
      <4>1. m = 1
        BY <1>1, <1>3, <2>1, <2>2, <2>4, <3>1, <3>3
      <4>2. t - WRAP = x /\ t > s
        BY <1>1, <1>3, <2>1, <2>2, <3>3, <4>1
      <4> QED
        BY <2>3, <4>2
    <3> QED
      BY <1>3, <3>2, <3>3
  <2>5. CASE s < x
    <3>1. s - x + SPAN < WRAP
      BY <1>1, <1>2, <2>5
    <3>2. q = 0 /\ x >= SPAN - WRAP
      <4>1. s < WRAP
        BY <1>1, <1>2, <3>1
      <4>2. q >= 1 => q * WRAP >= WRAP
        BY <1>1, <1>3
      <4> QED
        BY <1>1, <1>2, <1>3, <3>1, <4>1, <4>2
    <3>3. p = k - 1
      <4>1. k - p \in Int /\ SPAN = p * WRAP + (k - p) * WRAP
        BY <1>1, <1>3
      <4>2. k - p >= 2 => (k - p) * WRAP >= 2 * WRAP
        BY <1>1, <4>1
      <4> QED
        BY <1>1, <1>2, <1>3, <1>5, <3>2, <4>1, <4>2
    <3>4. SPAN = p * WRAP + WRAP
      BY <1>1, <1>3, <3>3
    <3>5. t = y /\ t > s
      BY <1>1, <1>3, <3>1, <3>2, <3>4
    <3>6. t - WRAP = x - SPAN
      BY <1>1, <1>3, <3>4, <3>5
    <3> QED
      BY <2>3, <3>5, <3>6
  <2> QED
    BY <1>1, <1>2, <2>4, <2>5
<1>7. inverted(x) = clock
  BY <1>1 DEF inverted, x, Times
<1> QED
  BY <1>4, <1>6, <1>7

-----------------------------------------------------------------------------
(* The list.                                                                *)

LEMMA MinIs ==
    ASSUME NEW S \in SUBSET Nat, S # {}
    PROVE  Min(S) \in S /\ \A x \in S : Min(S) <= x
  BY LeastIs DEF Min

LEMMA LeftIs ==
    ASSUME clock \in Times, NEW n \in Node
    PROVE  left(n) \in Int /\ left(n) \in (-Half)..(Half - 1)
  BY Diff, Constants DEF left, Node

LEMMA Elements ==
    ASSUME NEW l \in Seq(Node)
    PROVE  /\ \A i \in DOMAIN l : l[i] \in Nodes(l)
           /\ \A n \in Nodes(l) : \E i \in DOMAIN l : n = l[i]
           /\ Nodes(l) \subseteq Node
           /\ DOMAIN l = 1..Len(l) /\ Len(l) \in Nat
  BY DEF Nodes

\* A sequence without one of its elements, and with one more.
LEMMA Removed ==
    ASSUME NEW l \in Seq(Node), NEW k \in 1..Len(l)
    PROVE  /\ RemoveAt(l, k) \in Seq(Node)
           /\ Len(RemoveAt(l, k)) = Len(l) - 1
           /\ \A i \in 1..(Len(l) - 1) :
                 RemoveAt(l, k)[i] = IF i < k THEN l[i] ELSE l[i + 1]
<1> DEFINE a == SubSeq(l, 1, k - 1)
           b == SubSeq(l, k + 1, Len(l))
<1>1. Len(l) \in Nat
  OBVIOUS
<1>2. a \in Seq(Node) /\ Len(a) = k - 1 /\ \A i \in 1..(k - 1) : a[i] = l[i]
  BY <1>1, SubSeqProperties
<1>3. /\ b \in Seq(Node) /\ Len(b) = Len(l) - k
      /\ \A i \in 1..(Len(l) - k) : b[i] = l[k + i]
  BY <1>1, SubSeqProperties
<1>4. RemoveAt(l, k) = a \o b
  BY DEF RemoveAt
<1> HIDE DEF a, b
<1>5. /\ a \o b \in Seq(Node) /\ Len(a \o b) = Len(l) - 1
      /\ \A i \in 1..(Len(l) - 1) :
            (a \o b)[i] = IF i <= k - 1 THEN a[i] ELSE b[i - (k - 1)]
  <2>1. /\ a \o b \in Seq(Node) /\ Len(a \o b) = Len(a) + Len(b)
        /\ \A i \in 1..(Len(a) + Len(b)) : (a \o b)[i] =
              IF i <= Len(a) THEN a[i] ELSE b[i - Len(a)]
    BY <1>2, <1>3, ConcatProperties
  <2>2. Len(a) + Len(b) = Len(l) - 1
    BY <1>1, <1>2, <1>3
  <2> QED
    BY <2>1, <2>2, <1>2, <1>3
<1>6. ASSUME NEW i \in 1..(Len(l) - 1)
      PROVE  (a \o b)[i] = IF i < k THEN l[i] ELSE l[i + 1]
  <2>1. CASE i < k
    BY <1>1, <1>2, <1>5, <2>1
  <2>2. CASE i >= k
    <3>1. /\ (a \o b)[i] = b[i - (k - 1)] /\ i - (k - 1) \in 1..(Len(l) - k)
          /\ k + (i - (k - 1)) = i + 1
      BY <1>1, <1>5, <2>2
    <3>2. b[i - (k - 1)] = l[k + (i - (k - 1))]
      BY <1>3, <3>1
    <3>3. (a \o b)[i] = l[i + 1]
      BY <3>1, <3>2
    <3> QED
      BY <1>1, <2>2, <3>3
  <2>3. i < k \/ i >= k
    BY <1>1
  <2> QED
    BY ONLY <2>1, <2>2, <2>3, Zenon
<1> QED
  BY <1>4, <1>5, <1>6

LEMMA Inserted ==
    ASSUME NEW l \in Seq(Node), NEW k \in 1..(Len(l) + 1), NEW n \in Node
    PROVE  /\ InsertAt(l, k, n) \in Seq(Node)
           /\ Len(InsertAt(l, k, n)) = Len(l) + 1
           /\ \A i \in 1..(Len(l) + 1) :
                 InsertAt(l, k, n)[i] = IF i < k THEN l[i]
                                        ELSE IF i = k THEN n ELSE l[i - 1]
<1> DEFINE a == SubSeq(l, 1, k - 1)
           b == SubSeq(l, k, Len(l))
           c == a \o <<n>>
<1>1. Len(l) \in Nat
  OBVIOUS
<1>2. a \in Seq(Node) /\ Len(a) = k - 1 /\ \A i \in 1..(k - 1) : a[i] = l[i]
  BY <1>1, SubSeqProperties
<1>3. /\ b \in Seq(Node) /\ Len(b) = Len(l) - k + 1
      /\ \A i \in 1..(Len(l) - k + 1) : b[i] = l[k + i - 1]
  BY <1>1, SubSeqProperties
<1>4. InsertAt(l, k, n) = c \o b
  BY DEF InsertAt
<1> HIDE DEF a, b
<1>5. c \in Seq(Node) /\ Len(c) = k
      /\ \A i \in 1..k : c[i] = IF i < k THEN l[i] ELSE n
  BY <1>1, <1>2
<1> HIDE DEF c
<1>6. /\ c \o b \in Seq(Node) /\ Len(c \o b) = Len(l) + 1
      /\ \A i \in 1..(Len(l) + 1) :
            (c \o b)[i] = IF i <= k THEN c[i] ELSE b[i - k]
  <2>1. /\ c \o b \in Seq(Node) /\ Len(c \o b) = Len(c) + Len(b)
        /\ \A i \in 1..(Len(c) + Len(b)) : (c \o b)[i] =
              IF i <= Len(c) THEN c[i] ELSE b[i - Len(c)]
    BY <1>3, <1>5, ConcatProperties
  <2>2. Len(c) + Len(b) = Len(l) + 1
    BY <1>1, <1>3, <1>5
  <2> QED
    BY <2>1, <2>2, <1>3, <1>5
<1>7. ASSUME NEW i \in 1..(Len(l) + 1)
      PROVE  (c \o b)[i] = IF i < k THEN l[i]
                            ELSE IF i = k THEN n ELSE l[i - 1]
  <2>1. CASE i <= k
    BY <1>1, <1>5, <1>6, <2>1
  <2>2. CASE i > k
    <3>1. /\ (c \o b)[i] = b[i - k] /\ i - k \in 1..(Len(l) - k + 1)
          /\ k + (i - k) - 1 = i - 1
      BY <1>1, <1>6, <2>2
    <3>2. b[i - k] = l[k + (i - k) - 1]
      BY <1>3, <3>1
    <3>3. (c \o b)[i] = l[i - 1]
      BY <3>1, <3>2
    <3> QED
      BY <1>1, <2>2, <3>3
  <2>3. i <= k \/ i > k
    BY <1>1
  <2> QED
    BY ONLY <2>1, <2>2, <2>3, Zenon
<1> QED
  BY <1>4, <1>6, <1>7

\* timer_cancel, or the first thing that timer_set does.
LEMMA Cancelled ==
    ASSUME head \in Seq(Node), Ordered(head), NEW t
    PROVE  /\ cancelled(t) \in Seq(Node) /\ Ordered(cancelled(t))
           /\ Nodes(cancelled(t)) = {n \in Nodes(head) : n.timer # t}
<1> DEFINE I == {i \in 1..Len(head) : head[i].timer = t}
           rest == cancelled(t)
           k == Min(I)
<1>1. Len(head) \in Nat /\ DOMAIN head = 1..Len(head)
  OBVIOUS
<1>2. CASE I = {}
  <2>1. rest = head
    BY <1>2 DEF cancelled, RemoveFirstMatch
  <2> HIDE DEF rest
  <2>2. \A n \in Nodes(head) : n.timer # t
    BY <1>1, <1>2, Elements
  <2> QED
    BY <2>1, <2>2 DEF rest
<1>3. CASE I # {}
  <2>1. k \in I
    <3>1. I \in SUBSET Nat
      BY <1>1
    <3> HIDE DEF I
    <3> QED
      BY <1>3, <3>1, MinIs
  <2>2. rest = RemoveAt(head, k)
    BY <1>3 DEF cancelled, RemoveFirstMatch, SelectInSeq
  <2>3. k \in 1..Len(head) /\ head[k].timer = t
    BY <2>1
  <2> HIDE DEF k, I, rest
  <2>4. /\ rest \in Seq(Node) /\ Len(rest) = Len(head) - 1
        /\ \A i \in 1..(Len(head) - 1) :
              rest[i] = IF i < k THEN head[i] ELSE head[i + 1]
    BY <2>2, <2>3, Removed
  <2>5. DOMAIN rest = 1..(Len(head) - 1)
    BY <1>1, <2>4
  <2>6. ASSUME NEW i \in DOMAIN rest
        PROVE  \E m \in DOMAIN head : rest[i] = head[m] /\ m # k
    BY <1>1, <2>3, <2>4, <2>5
  <2>7. ASSUME NEW m \in DOMAIN head, m # k
        PROVE  (\E i \in DOMAIN rest : rest[i] = head[m]) /\ head[m].timer # t
    <3>1. CASE m < k
      <4>1. m \in 1..(Len(head) - 1) /\ rest[m] = head[m]
        BY <1>1, <2>3, <2>4, <3>1
      <4> QED
        BY <1>1, <2>3, <2>5, <3>1, <4>1 DEF Ordered
    <3>2. CASE m > k
      <4>1. m - 1 \in 1..(Len(head) - 1) /\ rest[m - 1] = head[m]
        BY <1>1, <2>3, <2>4, <3>2
      <4> QED
        BY <1>1, <2>3, <2>5, <3>2, <4>1 DEF Ordered
    <3> QED
      BY <1>1, <2>3, <2>7, <3>1, <3>2
  <2>8. Nodes(rest) = {n \in Nodes(head) : n.timer # t}
    BY <1>1, <2>3, <2>6, <2>7 DEF Nodes
  <2>9. Ordered(rest)
    <3> SUFFICES ASSUME NEW i \in DOMAIN rest, NEW j \in DOMAIN rest, i < j
                 PROVE  /\ rest[i].timer # rest[j].timer
                        /\ left(rest[i]) <= left(rest[j])
      BY DEF Ordered
    <3>1. PICK a \in DOMAIN head, b \in DOMAIN head :
             rest[i] = head[a] /\ rest[j] = head[b] /\ a < b
      <4> DEFINE at(x) == IF x < k THEN x ELSE x + 1
      <4>1. \A x \in DOMAIN rest :
               at(x) \in DOMAIN head /\ rest[x] = head[at(x)]
        BY <1>1, <2>3, <2>4, <2>5
      <4>2. at(i) < at(j)
        BY <1>1, <2>3, <2>5
      <4> HIDE DEF at
      <4> QED
        BY <4>1, <4>2
    <3> QED
      BY <3>1 DEF Ordered
  <2> QED
    BY <2>4, <2>8, <2>9 DEF rest
<1> QED
  BY <1>2, <1>3

\* The place that timer_set looks for: after the timers that are due sooner.
LEMMA Place ==
    ASSUME clock \in Times, NEW l \in Seq(Node), Ordered(l), NEW n \in Node,
           NEW i, i = place(l, clock, left(n))
    PROVE  /\ i \in 1..(Len(l) + 1)
           /\ \A j \in 1..Len(l) : j < i => left(l[j]) <= left(n)
           /\ \A j \in 1..Len(l) : j >= i => left(n) <= left(l[j])
<1> DEFINE I == {j \in 1..Len(l) : left(n) <= left(l[j])}
<1>1. /\ Len(l) \in Nat /\ DOMAIN l = 1..Len(l) /\ I \in SUBSET Nat
      /\ \A j \in 1..Len(l) : l[j] \in Node
  OBVIOUS
<1>2. i = IF I = {} THEN Len(l) + 1 ELSE Min(I)
  <2>1. I # {} => Min(I) # 0
    <3>1. 0 \notin I
      OBVIOUS
    <3> HIDE DEF I
    <3> QED
      BY <1>1, <3>1, MinIs
  <2>2. SelectInSeq(l, LAMBDA m : left(n) <= time_diff(clock, m.deadline))
           = IF I # {} THEN Min(I) ELSE 0
    BY DEF SelectInSeq, left
  <2> HIDE DEF I
  <2> QED
    BY <2>1, <2>2 DEF place
<1>3. I # {} => Min(I) \in I /\ \A j \in I : Min(I) <= j
  <2> HIDE DEF I
  <2> QED
    BY <1>1, MinIs
<1>4. left(n) \in Int /\ \A j \in 1..Len(l) : left(l[j]) \in Int
  BY <1>1, LeftIs
<1>5. CASE I = {}
  BY <1>1, <1>2, <1>4, <1>5
<1>6. CASE I # {}
  <2>1. i \in I /\ \A j \in I : i <= j
    BY <1>2, <1>3, <1>6
  <2>2. i \in 1..Len(l) /\ left(n) <= left(l[i])
    BY <2>1
  <2>3. ASSUME NEW j \in 1..Len(l), j < i PROVE left(l[j]) <= left(n)
    BY <1>1, <1>4, <2>1, <2>2, <2>3
  <2>4. ASSUME NEW j \in 1..Len(l), j >= i PROVE left(n) <= left(l[j])
    <3>1. j = i \/ i < j
      BY <1>1, <2>2, <2>4
    <3>2. i < j => left(l[i]) <= left(l[j])
      BY <1>1, <2>2 DEF Ordered
    <3> QED
      BY <1>4, <2>2, <3>1, <3>2
  <2> HIDE DEF I
  <2> QED
    BY <1>1, <2>2, <2>3, <2>4
<1> QED
  BY <1>5, <1>6

LEMMA Placed ==
    ASSUME clock \in Times, NEW l \in Seq(Node), Ordered(l), NEW n \in Node,
           \A m \in Nodes(l) : m.timer # n.timer
    PROVE  LET new == InsertAt(l, place(l, clock, left(n)), n)
           IN  /\ new \in Seq(Node) /\ Ordered(new) /\ new # <<>>
               /\ Nodes(new) = Nodes(l) \cup {n}
<1> DEFINE k == place(l, clock, left(n))
           new == InsertAt(l, k, n)
<1>1. /\ Len(l) \in Nat /\ DOMAIN l = 1..Len(l)
      /\ \A j \in 1..Len(l) : l[j] \in Node /\ l[j].timer # n.timer
  BY Elements
<1>2. /\ k \in 1..(Len(l) + 1)
      /\ \A j \in 1..Len(l) : j < k => left(l[j]) <= left(n)
      /\ \A j \in 1..Len(l) : j >= k => left(n) <= left(l[j])
  BY Place
<1> HIDE DEF k
<1>3. /\ new \in Seq(Node) /\ Len(new) = Len(l) + 1
      /\ \A i \in 1..(Len(l) + 1) :
            new[i] = IF i < k THEN l[i] ELSE IF i = k THEN n ELSE l[i - 1]
  BY <1>2, Inserted
<1> HIDE DEF new
<1>4. DOMAIN new = 1..(Len(l) + 1) /\ new # <<>>
  BY <1>1, <1>3, EmptySeq
<1> DEFINE at(x) == IF x < k THEN x ELSE x - 1
<1>5. ASSUME NEW i \in DOMAIN new, i # k
      PROVE  at(i) \in DOMAIN l /\ new[i] = l[at(i)]
  BY <1>1, <1>2, <1>3, <1>4, <1>5
<1>6. k \in DOMAIN new /\ new[k] = n
  BY <1>1, <1>2, <1>3, <1>4
<1>7. ASSUME NEW j \in DOMAIN l
      PROVE  \E i \in DOMAIN new : new[i] = l[j]
  <2>1. CASE j < k
    BY <1>1, <1>2, <1>3, <1>4, <2>1
  <2>2. CASE j >= k
    <3>1. j + 1 \in 1..(Len(l) + 1) /\ j + 1 > k /\ (j + 1) - 1 = j
      BY <1>1, <1>2, <2>2
    <3>2. new[j + 1] = l[j]
      BY <1>1, <1>2, <1>3, <3>1
    <3> QED
      BY <1>4, <3>1, <3>2
  <2> QED
    BY <1>1, <1>2, <2>1, <2>2
<1>8. Nodes(new) = Nodes(l) \cup {n}
  <2> HIDE DEF at
  <2>1. ASSUME NEW m \in Nodes(new) PROVE m \in Nodes(l) \cup {n}
    BY <1>5, <1>6 DEF Nodes
  <2>2. ASSUME NEW m \in Nodes(l) \cup {n} PROVE m \in Nodes(new)
    BY <1>6, <1>7 DEF Nodes
  <2> QED
    BY <2>1, <2>2
<1>9. Ordered(new)
  <2> SUFFICES ASSUME NEW i \in DOMAIN new, NEW j \in DOMAIN new, i < j
               PROVE  /\ new[i].timer # new[j].timer
                      /\ left(new[i]) <= left(new[j])
    BY DEF Ordered
  <2>1. CASE i = k
    <3>1. j # k /\ at(j) \in 1..Len(l) /\ at(j) >= k /\ new[j] = l[at(j)]
      BY <1>1, <1>2, <1>4, <1>5, <2>1
    <3> HIDE DEF at
    <3> QED
      BY <1>1, <1>2, <1>6, <2>1, <3>1
  <2>2. CASE j = k
    <3>1. i # k /\ at(i) \in 1..Len(l) /\ at(i) < k /\ new[i] = l[at(i)]
      BY <1>1, <1>2, <1>4, <1>5, <2>2
    <3> HIDE DEF at
    <3> QED
      BY <1>1, <1>2, <1>6, <2>2, <3>1
  <2>3. CASE i # k /\ j # k
    <3>1. at(i) < at(j)
      BY <1>1, <1>2, <1>4, <2>3
    <3>2. /\ at(i) \in DOMAIN l /\ new[i] = l[at(i)]
          /\ at(j) \in DOMAIN l /\ new[j] = l[at(j)]
      BY <1>5, <2>3
    <3> HIDE DEF at
    <3> QED
      BY <3>1, <3>2 DEF Ordered
  <2> QED
    BY <2>1, <2>2, <2>3
<1> QED
  BY <1>3, <1>4, <1>8, <1>9 DEF new, k

\* The first timer of the list is due first.
LEMMA First ==
    ASSUME clock \in Times, NEW l \in Seq(Node), Ordered(l), l # <<>>
    PROVE  /\ Head(l) = l[1] /\ l[1] \in Nodes(l) /\ l[1] \in Node
           /\ \A m \in Nodes(l) :
                 /\ left(l[1]) <= left(m)
                 /\ m # l[1] => m.timer # l[1].timer
<1>1. Len(l) \in Nat \ {0} /\ DOMAIN l = 1..Len(l) /\ Head(l) = l[1]
  BY EmptySeq
<1>2. 1 \in DOMAIN l /\ l[1] \in Nodes(l) /\ l[1] \in Node
  BY <1>1 DEF Nodes
<1>3. ASSUME NEW m \in Nodes(l)
      PROVE  left(l[1]) <= left(m) /\ (m # l[1] => m.timer # l[1].timer)
  <2>1. PICK j \in DOMAIN l : m = l[j]
    BY DEF Nodes
  <2>2. CASE j = 1
    <3>1. left(l[1]) \in Int
      BY <1>2, LeftIs
    <3> QED
      BY <2>1, <2>2, <3>1
  <2>3. CASE j # 1
    BY <1>1, <1>2, <2>1, <2>3 DEF Ordered
  <2> QED
    BY <2>2, <2>3
<1> QED
  BY <1>1, <1>2, <1>3

-----------------------------------------------------------------------------
(* The invariant.                                                           *)

Renewing == irq = "call" /\ cur = STAMP

\* The hardware's event comes no later than 2 ticks after the first deadline,
\* or after that timer was set.
Armed ==
    ~Serving => \A m \in Nodes(head) : tim >= 1 /\ left(m) - tim >= -2 - Past

\* From then on the handler is what timers wait for.
Overdue ==
    Serving => \A m \in Nodes(head) : left(m) >= -2 - Past - busy

\* The stamp is as old as its timer says, or is being renewed.
Stamped ==
    IF Renewing THEN Age(time_stamp) <= Period + 2 + Past + busy
    ELSE \E m \in Nodes(head) :
            m.timer = STAMP /\ Age(time_stamp) + left(m) = Period

\* A reader may hold the stamp from before the last renewal.
Fresh ==
    thread = "read" => Age(seen) <= Period + LATE + held

Inv ==
    /\ TypeOK /\ Ordered(head) /\ Armed /\ Overdue /\ Stamped /\ Fresh

\* What the invariant says in numbers.
LEMMA Known ==
    ASSUME Inv
    PROVE  /\ clock \in Times /\ time_stamp \in Times /\ seen \in Times
           /\ tim \in (-1)..SPAN /\ busy \in 0..LATENCY /\ held \in 0..GAP
           /\ head \in Seq(Node) /\ Nodes(head) \subseteq Node
           /\ Ordered(head)
           /\ \A m \in Nodes(head) :
                 /\ left(m) \in (-Half)..(Half - 1) /\ left(m) \in Int
                 /\ left(m) >= -LATE
           /\ Age(time_stamp) \in 0..(Period + LATE)
           /\ thread = "read" => Age(seen) \in 0..(Period + LATE + held)
<1>1. /\ clock \in Times /\ time_stamp \in Times /\ seen \in Times
      /\ tim \in (-1)..SPAN /\ busy \in 0..LATENCY /\ held \in 0..GAP
      /\ head \in Seq(Node) /\ Ordered(head)
  BY DEF Inv, TypeOK, Node
<1>2. Nodes(head) \subseteq Node
  BY <1>1, Elements
<1>3. ASSUME NEW m \in Nodes(head)
      PROVE  /\ left(m) \in (-Half)..(Half - 1) /\ left(m) \in Int
             /\ left(m) >= -LATE
  <2>1. left(m) \in (-Half)..(Half - 1) /\ left(m) \in Int
    BY <1>1, <1>2, LeftIs
  <2>2. CASE Serving
    <3>1. left(m) >= -2 - Past - busy
      BY <2>2 DEF Inv, Overdue
    <3> QED
      BY <1>1, <2>1, <3>1, Constants
  <2>3. CASE ~Serving
    <3>1. tim >= 1 /\ left(m) - tim >= -2 - Past
      BY <2>3 DEF Inv, Armed
    <3> QED
      BY <1>1, <2>1, <3>1, Constants
  <2> QED
    BY <2>2, <2>3
<1>4. ASSUME NEW s \in Times PROVE Age(s) \in Nat
  BY <1>1, Aged, Constants DEF Age
<1>5. Age(time_stamp) \in 0..(Period + LATE)
  <2>1. CASE Renewing
    <3>1. Age(time_stamp) <= Period + 2 + Past + busy
      BY <2>1 DEF Inv, Stamped
    <3> QED
      BY <1>1, <1>4, <3>1, Constants
  <2>2. CASE ~Renewing
    <3>1. PICK m \in Nodes(head) : Age(time_stamp) + left(m) = Period
      BY <2>2 DEF Inv, Stamped
    <3> QED
      BY <1>1, <1>3, <1>4, <3>1, Constants
  <2> QED
    BY <2>1, <2>2
<1>6. ASSUME thread = "read" PROVE Age(seen) \in 0..(Period + LATE + held)
  <2>1. Age(seen) <= Period + LATE + held
    BY <1>6 DEF Inv, Fresh
  <2> QED
    BY <1>1, <1>4, <2>1, Constants
<1> QED
  BY <1>1, <1>2, <1>3, <1>5, <1>6

\* Whoever asks gets the true time.
LEMMA Now ==
    ASSUME Inv
    PROVE  /\ time_now(time_stamp) = clock
           /\ thread = "read" => time_now(seen) = clock
<1>1. /\ clock \in Times /\ time_stamp \in Times /\ seen \in Times
      /\ held \in 0..GAP /\ Age(time_stamp) \in 0..(Period + LATE)
      /\ thread = "read" => Age(seen) \in 0..(Period + LATE + held)
  BY Known
<1>2. Age(time_stamp) < WRAP
  BY <1>1, Constants
<1>3. thread = "read" => Age(seen) < WRAP
  BY <1>1, Constants
<1> QED
  BY <1>1, <1>2, <1>3, Exact

LEMMA Promises ==
    ASSUME Inv
    PROVE  TimeExact /\ ListSorted /\ NotLate
<1>1. TimeExact
  BY Now DEF TimeExact
<1>2. ListSorted
  BY DEF Inv, ListSorted, Ordered, left
<1>3. NotLate
  <2> SUFFICES ASSUME NEW i \in DOMAIN head
               PROVE  time_diff(head[i].deadline, clock) <= LATE
    BY DEF NotLate
  <2> DEFINE n == head[i]
             y == n.deadline
             d == time_diff(clock, y)
  <2>1. n \in Nodes(head)
    BY DEF Nodes
  <2>2. clock \in Times /\ y \in Times /\ d >= -LATE
    BY <2>1, Known DEF left, Node
  <2> HIDE DEF y
  <2>3. d \in (-Half)..(Half - 1) /\ d \in {y - clock - SPAN, y - clock,
                                            y - clock + SPAN}
    BY <2>2, Diff
  <2> HIDE DEF d
  <2>4. /\ SPAN \in Nat /\ clock \in Int /\ y \in Int
        /\ Half \in Nat /\ LATE < Half /\ LATE \in Nat
    BY <2>2, Constants DEF Times
  <2>5. -d \in (-Half)..(Half - 1) /\ -d \in {clock - y - SPAN, clock - y,
                                              clock - y + SPAN}
    BY <2>2, <2>3, <2>4
  <2>6. time_diff(y, clock) = -d
    BY <2>2, <2>5, DiffIs
  <2> QED
    BY <2>2, <2>3, <2>4, <2>6 DEF y
<1> QED
  BY <1>1, <1>2, <1>3

LEMMA InitInv == Init => Inv
<1> SUFFICES ASSUME Init PROVE Inv
  OBVIOUS
<1>1. PICK x \in 0..(WRAP - 1) : clock = inverted(x)
  BY DEF Init
<1>2. /\ SPAN \in Nat /\ WRAP \in Nat /\ WRAP <= SPAN /\ Period \in Nat
      /\ Half \in Nat /\ Period < Half /\ Period < SPAN
      /\ SLACK_TICKS \in 0..Period /\ Past \in Nat /\ Period > 0
  BY Constants
<1>3. clock \in Times /\ inverted(clock) = x
  BY <1>1, <1>2 DEF inverted, Times
<1>4. time_stamp = x /\ time_stamp \in Times
  <2>1. x % WRAP = x
    BY <1>2
  <2> QED
    BY <1>1, <1>2, <1>3, <2>1 DEF Init, stk_now, Times
<1>5. Age(time_stamp) = 0
  <2>1. x - x = 0 /\ 0 % SPAN = 0
    BY <1>2
  <2> QED
    BY <1>3, <1>4, <2>1 DEF Age
<1> DEFINE n == [timer |-> STAMP, deadline |-> time_add(clock, Period)]
<1>6. head = <<n>>
  BY DEF Init, Period
<1>7. n \in Node /\ left(n) = Period
  BY <1>2, <1>3, Added DEF left, Node, All
<1> HIDE DEF n
<1>8. head \in Seq(Node) /\ Nodes(head) = {n} /\ Ordered(head)
  BY <1>6, <1>7 DEF Nodes, Ordered
<1>9. TypeOK
  <2>1. tim \in -1..SPAN
    BY <1>2 DEF Init, Period
  <2>2. 0 \in Times /\ 0 \in 0..GAP /\ 0 \in 0..LATENCY
    BY <1>2, Constants DEF Times
  <2> QED
    BY <1>3, <1>4, <1>8, <2>1, <2>2 DEF Init, TypeOK, All, Node
<1>10. Armed
  <2>1. tim = Period - SLACK_TICKS + 1
    BY DEF Init, Period
  <2>2. tim >= 1 /\ Period - tim >= -2 - Past
    BY <1>2, <2>1
  <2> QED
    BY <1>7, <1>8, <2>2 DEF Armed
<1>11. Overdue /\ Fresh
  BY DEF Init, Overdue, Fresh, Serving
<1>12. Stamped
  <2>1. n.timer = STAMP /\ Age(time_stamp) + left(n) = Period
    BY <1>2, <1>5, <1>7 DEF n
  <2>2. ~Renewing
    BY DEF Init, Renewing
  <2> QED
    BY <1>8, <2>1, <2>2 DEF Stamped
<1> QED
  BY <1>8, <1>9, <1>10, <1>11, <1>12 DEF Inv

-----------------------------------------------------------------------------
(* Time passes.                                                             *)

LEMMA TickStep == ASSUME Inv, Tick PROVE Inv'
<1>1. /\ Serving => busy < LATENCY
      /\ thread = "read" => held < GAP
      /\ clock' = time_add(clock, 1)
      /\ tim' = IF tim <= 1 THEN -1 ELSE tim - 1
      /\ pending' = (pending \/ tim = 1)
      /\ busy' = IF Serving THEN busy + 1 ELSE 0
      /\ held' = IF thread = "read" THEN held + 1 ELSE 0
      /\ UNCHANGED <<time_stamp, head, irq, cur, thread, seen>>
  BY DEF Tick
<1>2. /\ clock \in Times /\ time_stamp \in Times /\ seen \in Times
      /\ tim \in (-1)..SPAN /\ busy \in 0..LATENCY /\ held \in 0..GAP
      /\ head \in Seq(Node) /\ Nodes(head) \subseteq Node
      /\ Ordered(head)
      /\ \A m \in Nodes(head) :
            /\ left(m) \in (-Half)..(Half - 1) /\ left(m) \in Int
            /\ left(m) >= -LATE
      /\ Age(time_stamp) \in 0..(Period + LATE)
      /\ thread = "read" => Age(seen) \in 0..(Period + LATE + held)
  BY Known
<1>3. /\ SPAN \in Nat /\ Half \in Nat /\ SPAN = 2 * Half /\ Period \in Nat
      /\ 2 * Period <= Half /\ Period > 0
      /\ LATENCY \in Nat /\ GAP \in Nat /\ Past \in Nat
      /\ LATE = 2 + LATENCY + Past /\ LATE + GAP < Period
  BY Constants
<1>4. ASSUME NEW m \in Nodes(head) PROVE left(m)' = left(m) - 1
  <2>1. time_diff(clock, m.deadline) > -Half /\ m.deadline \in Times
    BY <1>2, <1>3 DEF left, Node
  <2>2. time_diff(clock', m.deadline) = time_diff(clock, m.deadline) - 1
    BY <1>1, <1>2, <2>1, Ticked
  <2> QED
    BY <2>2 DEF left
<1>5. clock' \in Times /\ clock' \in {clock + 1 - SPAN, clock + 1}
  <2>1. /\ time_add(clock, 1) \in Times
        /\ time_add(clock, 1) \in {clock + 1 - SPAN, clock + 1,
                                   clock + 1 + SPAN}
    BY <1>2, <1>3, Added
  <2> QED
    BY <1>1, <1>2, <1>3, <2>1 DEF Times
<1>6. ASSUME NEW s \in Times, Age(s) < SPAN - 1 PROVE Age(s)' = Age(s) + 1
  <2> DEFINE a == (s - inverted(clock)) % SPAN
             b == (s - inverted(clock')) % SPAN
  <2>1. /\ a \in 0..(SPAN - 1)
        /\ a \in {s - inverted(clock), s - inverted(clock) + SPAN}
    BY <1>2, Aged
  <2>2. /\ b \in 0..(SPAN - 1)
        /\ b \in {s - inverted(clock'), s - inverted(clock') + SPAN}
    BY <1>5, Aged
  <2>3. a < SPAN - 1
    BY <1>6 DEF Age
  <2> HIDE DEF a, b
  <2>4. /\ a \in Int /\ a >= 0 /\ a < SPAN - 1
        /\ a = s - (SPAN - 1 - clock) \/ a = s - (SPAN - 1 - clock) + SPAN
    BY <1>3, <2>1, <2>3 DEF inverted
  <2>5. /\ b \in Int /\ b >= 0 /\ b < SPAN
        /\ b = s - (SPAN - 1 - clock') \/ b = s - (SPAN - 1 - clock') + SPAN
    BY <1>3, <2>2 DEF inverted
  <2>6. /\ s \in Int /\ clock \in Int
        /\ clock' = clock + 1 \/ clock' = clock + 1 - SPAN
    BY <1>2, <1>3, <1>5 DEF Times
  <2>7. b = a + 1
    BY <1>3, <2>4, <2>5, <2>6
  <2> QED
    BY <2>7 DEF Age, a, b
<1>7. Nodes(head)' = Nodes(head) /\ (Serving => Serving')
  BY <1>1 DEF Nodes, Serving
<1>8. TypeOK'
  <2>1. tim' \in -1..SPAN /\ busy' \in 0..LATENCY /\ held' \in 0..GAP
    BY <1>1, <1>2, <1>3
  <2>2. pending' \in BOOLEAN
    BY <1>1
  <2> QED
    BY <1>1, <1>5, <2>1, <2>2 DEF Inv, TypeOK
<1>9. Ordered(head)'
  <2> SUFFICES ASSUME NEW i \in DOMAIN head, NEW j \in DOMAIN head, i < j
               PROVE  /\ head[i].timer # head[j].timer
                      /\ left(head[i])' <= left(head[j])'
    BY <1>1 DEF Ordered
  <2>1. head[i] \in Nodes(head) /\ head[j] \in Nodes(head)
    BY DEF Nodes
  <2>2. head[i].timer # head[j].timer /\ left(head[i]) <= left(head[j])
    BY <1>2 DEF Ordered
  <2>3. /\ left(head[i])' = left(head[i]) - 1
        /\ left(head[j])' = left(head[j]) - 1
    BY <1>1, <1>4, <2>1 DEF left
  <2> QED
    BY <1>2, <2>1, <2>2, <2>3
<1>10. Armed'
  <2> SUFFICES ASSUME ~Serving', NEW m \in Nodes(head)
               PROVE  tim' >= 1 /\ left(m)' - tim' >= -2 - Past
    BY <1>7 DEF Armed
  <2>1. ~Serving /\ tim # 1
    BY <1>1, <1>7 DEF Serving
  <2>2. tim >= 1 /\ left(m) - tim >= -2 - Past
    BY <2>1 DEF Inv, Armed
  <2> QED
    BY <1>1, <1>2, <1>3, <1>4, <2>1, <2>2
<1>11. Overdue'
  <2> SUFFICES ASSUME Serving', NEW m \in Nodes(head)
               PROVE  left(m)' >= -2 - Past - busy'
    BY <1>7 DEF Overdue
  <2>1. CASE Serving
    <3>1. left(m) >= -2 - Past - busy /\ busy' = busy + 1
      BY <1>1, <2>1 DEF Inv, Overdue
    <3> QED
      BY <1>2, <1>3, <1>4, <3>1
  <2>2. CASE ~Serving
    <3>1. tim = 1 /\ busy' = 0
      BY <1>1, <2>2 DEF Serving
    <3>2. left(m) - tim >= -2 - Past
      BY <2>2 DEF Inv, Armed
    <3> QED
      BY <1>2, <1>3, <1>4, <3>1, <3>2
  <2> QED
    BY <2>1, <2>2
<1>12. Age(time_stamp)' = Age(time_stamp) + 1
  <2>1. Age(time_stamp) < SPAN - 1
    BY <1>2, <1>3
  <2> QED
    BY <1>1, <1>2, <1>6, <2>1 DEF Age
<1>13. Stamped'
  <2>1. CASE Renewing
    <3>1. /\ Renewing' /\ busy' = busy + 1
          /\ Age(time_stamp) <= Period + 2 + Past + busy
      BY <1>1, <2>1 DEF Inv, Stamped, Renewing, Serving
    <3>2. Age(time_stamp)' <= Period + 2 + Past + busy'
      BY <1>2, <1>3, <1>12, <3>1
    <3> QED
      BY <3>1, <3>2 DEF Stamped
  <2>2. CASE ~Renewing
    <3>1. PICK m \in Nodes(head) :
             m.timer = STAMP /\ Age(time_stamp) + left(m) = Period
      BY <2>2 DEF Inv, Stamped
    <3>2. Age(time_stamp)' + left(m)' = Period
      BY <1>2, <1>3, <1>4, <1>12, <3>1
    <3>3. ~Renewing'
      BY <1>1, <2>2 DEF Renewing
    <3> QED
      BY <1>7, <3>1, <3>2, <3>3 DEF Stamped
  <2> QED
    BY <2>1, <2>2
<1>14. Fresh'
  <2> SUFFICES ASSUME thread = "read"
               PROVE  Age(seen)' <= Period + LATE + held'
    BY <1>1 DEF Fresh
  <2>1. Age(seen) < SPAN - 1
    BY <1>1, <1>2, <1>3
  <2>2. Age(seen)' = Age(seen) + 1
    BY <1>1, <1>2, <1>6, <2>1 DEF Age
  <2> QED
    BY <1>1, <1>2, <1>3, <2>2
<1> QED
  BY <1>8, <1>9, <1>10, <1>11, <1>13, <1>14 DEF Inv

-----------------------------------------------------------------------------
(* Timers are set and cancelled.                                            *)

LEMMA Reprogrammed ==
    ASSUME Inv, NEW d \in Int, d >= -Past, d < Half, reprogram_timer(d)
    PROVE  /\ tim' \in 1..SPAN /\ d - tim' >= -2 - Past
           /\ pending' \in BOOLEAN /\ (pending' => pending)
<1>1. /\ SPAN \in Nat /\ Half \in Nat /\ SPAN = 2 * Half /\ Half >= 2
      /\ SLACK_TICKS \in Nat /\ Past \in Nat
  BY Constants
<1>2. tim' = IF d <= SLACK_TICKS THEN 2 ELSE d - SLACK_TICKS + 1
  BY DEF reprogram_timer
<1>3. tim' \in 1..SPAN /\ d - tim' >= -2 - Past
  <2>1. CASE d <= SLACK_TICKS
    BY <1>1, <1>2, <2>1
  <2>2. CASE d > SLACK_TICKS
    BY <1>1, <1>2, <2>2
  <2> QED
    BY <1>1, <2>1, <2>2
<1>4. pending' \in BOOLEAN /\ (pending' => pending)
  <2>1. pending \in BOOLEAN /\ pending' \in {pending, FALSE}
    BY DEF reprogram_timer, Inv, TypeOK
  <2>2. CASE pending' = pending
    BY <2>1, <2>2
  <2>3. CASE pending' = FALSE
    BY <2>3
  <2> QED
    BY <2>1, <2>2, <2>3
<1> QED
  BY <1>3, <1>4

\* What timer_set does to the list, and when it moves the hardware's event.
LEMMA SetIt ==
    ASSUME Inv, NEW t \in All, NEW dl \in Times,
           left([timer |-> t, deadline |-> dl]) >= -Past,
           timer_set(t, dl, clock)
    PROVE  LET n == [timer |-> t, deadline |-> dl]
           IN  /\ n \in Node /\ head' \in Seq(Node) /\ Ordered(head')
               /\ Nodes(head') = {m \in Nodes(head) : m.timer # t} \cup {n}
               /\ \/ /\ tim' = tim /\ pending' = pending
                     /\ \E m \in Nodes(head) : left(m) <= left(n)
                  \/ /\ tim' \in 1..SPAN
                     /\ pending' \in BOOLEAN /\ (pending' => pending)
                     /\ \A m \in Nodes(head') : left(m) - tim' >= -2 - Past
<1> DEFINE n == [timer |-> t, deadline |-> dl]
           rest == cancelled(t)
<1>1. clock \in Times /\ head \in Seq(Node) /\ Ordered(head)
  BY Known
<1>2. n \in Node /\ n.timer = t /\ left(n) = time_diff(clock, dl)
  BY DEF Node, left
<1>3. /\ rest \in Seq(Node) /\ Ordered(rest)
      /\ Nodes(rest) = {m \in Nodes(head) : m.timer # t}
  BY <1>1, Cancelled
<1>4. head' = InsertAt(rest, place(rest, clock, left(n)), n)
  BY <1>2 DEF timer_set
<1>5. IF is_earliest(t) THEN reprogram_timer(left(n))
      ELSE UNCHANGED <<tim, pending>>
  BY <1>2 DEF timer_set
<1>6. left(n) >= -Past
  OBVIOUS
<1> HIDE DEF n, rest
<1>7. /\ head' \in Seq(Node) /\ Ordered(head') /\ head' # <<>>
      /\ Nodes(head') = Nodes(rest) \cup {n}
  BY <1>1, <1>2, <1>3, <1>4, Placed
<1>8. /\ Head(head') = head'[1] /\ head'[1] \in Nodes(head')
      /\ \A m \in Nodes(head') :
            /\ left(head'[1]) <= left(m)
            /\ m # head'[1] => m.timer # head'[1].timer
  BY <1>1, <1>7, First
<1>9. Nodes(head') \subseteq Node /\ n \in Nodes(head')
  BY <1>2, <1>7, Elements
<1>10. \A m \in Nodes(head') : left(m) \in Int
  BY <1>1, <1>9, LeftIs
<1>11. left(n) \in Int /\ left(n) < Half
  BY <1>1, <1>2, LeftIs, Constants
<1>12. CASE is_earliest(t)
  <2>1. head'[1] = n
    BY <1>2, <1>8, <1>9, <1>12 DEF is_earliest
  <2>2. /\ tim' \in 1..SPAN /\ left(n) - tim' >= -2 - Past
        /\ pending' \in BOOLEAN /\ (pending' => pending)
    BY <1>5, <1>6, <1>11, <1>12, Reprogrammed
  <2>3. ASSUME NEW m \in Nodes(head') PROVE left(m) - tim' >= -2 - Past
    <3>1. left(n) <= left(m) /\ left(m) \in Int
      BY <1>8, <1>10, <2>1
    <3> QED
      BY <1>11, <2>2, <3>1, Constants
  <2> QED
    BY <1>2, <1>3, <1>7, <2>2, <2>3 DEF n
<1>13. CASE ~is_earliest(t)
  <2>1. head'[1] # n
    BY <1>2, <1>8, <1>13 DEF is_earliest
  <2>2. head'[1] \in Nodes(head) /\ left(head'[1]) <= left(n)
    BY <1>3, <1>7, <1>8, <1>9, <2>1
  <2> QED
    BY <1>2, <1>3, <1>5, <1>7, <1>13, <2>2 DEF n
<1> QED
  BY <1>12, <1>13

\* A timer that is set to go off Past ticks ago, or later, leaves no other
\* timer behind.
LEMMA SetKeeps ==
    ASSUME Inv, NEW t \in All, NEW dl \in Times,
           left([timer |-> t, deadline |-> dl]) >= -Past,
           timer_set(t, dl, clock),
           UNCHANGED <<clock, busy>>, irq' = "none" <=> irq = "none"
    PROVE  /\ Armed' /\ Overdue' /\ Ordered(head)'
           /\ head' \in Seq(Node)
           /\ tim' \in (-1)..SPAN /\ pending' \in BOOLEAN
<1> DEFINE n == [timer |-> t, deadline |-> dl]
<1>1. /\ n \in Node /\ head' \in Seq(Node) /\ Ordered(head')
      /\ Nodes(head') = {m \in Nodes(head) : m.timer # t} \cup {n}
      /\ \/ /\ tim' = tim /\ pending' = pending
            /\ \E m \in Nodes(head) : left(m) <= left(n)
         \/ /\ tim' \in 1..SPAN
            /\ pending' \in BOOLEAN /\ (pending' => pending)
            /\ \A m \in Nodes(head') : left(m) - tim' >= -2 - Past
  BY SetIt
<1>2. left(n) >= -Past
  OBVIOUS
<1> HIDE DEF n
<1>3. /\ clock \in Times /\ tim \in (-1)..SPAN /\ busy \in 0..LATENCY
      /\ \A m \in Nodes(head) : left(m) \in Int
      /\ SPAN \in Nat /\ Past \in Nat /\ LATENCY \in Nat
  BY Known, Constants
<1>4. left(n) \in Int
  BY <1>1, <1>3, LeftIs
<1>5. \A m : left(m)' = left(m)
  BY DEF left
<1>6. Ordered(head)'
  BY <1>1, <1>5 DEF Ordered
<1>7. tim' \in (-1)..SPAN /\ pending' \in BOOLEAN
  BY <1>1, <1>3 DEF Inv, TypeOK
<1>8. Overdue'
  <2> SUFFICES ASSUME Serving', NEW m \in Nodes(head')
               PROVE  left(m) >= -2 - Past - busy
    BY <1>5 DEF Overdue, Nodes
  <2>1. Serving
    BY <1>1 DEF Serving
  <2>2. CASE m = n
    BY <1>2, <1>3, <1>4, <2>2
  <2>3. CASE m \in Nodes(head)
    BY <2>1, <2>3 DEF Inv, Overdue
  <2> QED
    BY <1>1, <2>2, <2>3
<1>9. Armed'
  <2> SUFFICES ASSUME ~Serving', NEW m \in Nodes(head')
               PROVE  tim' >= 1 /\ left(m) - tim' >= -2 - Past
    BY <1>5 DEF Armed, Nodes
  <2>1. CASE /\ tim' = tim /\ pending' = pending
             /\ \E k \in Nodes(head) : left(k) <= left(n)
    <3>1. ~Serving
      BY <2>1 DEF Serving
    <3>2. \A k \in Nodes(head) : tim >= 1 /\ left(k) - tim >= -2 - Past
      BY <3>1 DEF Inv, Armed
    <3>3. PICK k \in Nodes(head) : left(k) <= left(n)
      BY <2>1
    <3>4. left(n) - tim >= -2 - Past
      BY <1>3, <1>4, <3>2, <3>3
    <3> QED
      BY <1>1, <2>1, <3>2, <3>3, <3>4
  <2>2. CASE /\ tim' \in 1..SPAN
             /\ \A k \in Nodes(head') : left(k) - tim' >= -2 - Past
    BY <2>2
  <2> QED
    BY <1>1, <2>1, <2>2
<1> QED
  BY <1>1, <1>6, <1>7, <1>8, <1>9

LEMMA CancelKeeps ==
    ASSUME Inv, NEW t, timer_cancel(t),
           UNCHANGED <<clock, busy>>, irq' = "none" <=> irq = "none"
    PROVE  /\ Armed' /\ Overdue' /\ Ordered(head)'
           /\ head' \in Seq(Node)
           /\ Nodes(head') = {m \in Nodes(head) : m.timer # t}
<1>1. head \in Seq(Node) /\ Ordered(head)
  BY Known
<1>2. /\ head' \in Seq(Node) /\ Ordered(head')
      /\ Nodes(head') = {m \in Nodes(head) : m.timer # t}
      /\ UNCHANGED <<tim, pending>>
  BY <1>1, Cancelled DEF timer_cancel
<1>3. \A m : left(m)' = left(m)
  BY DEF left
<1>4. Serving' <=> Serving
  BY <1>2 DEF Serving
<1>5. Armed'
  BY <1>2, <1>3, <1>4 DEF Inv, Armed, Nodes
<1>6. Overdue'
  BY <1>2, <1>3, <1>4 DEF Inv, Overdue, Nodes
<1>7. Ordered(head)'
  BY <1>2, <1>3 DEF Ordered
<1> QED
  BY <1>2, <1>5, <1>6, <1>7

-----------------------------------------------------------------------------
(* The thread's steps.                                                      *)

\* A step that takes no time leaves differences as they are.
LEMMA SameTime ==
    ASSUME UNCHANGED clock
    PROVE  (\A n : left(n)' = left(n)) /\ (\A s : Age(s)' = Age(s))
  BY DEF left, Age

LEMMA ReadStep ==
    ASSUME Inv, read_stamp \/ read_counter
    PROVE  Inv'
<1>1. /\ irq = "none" /\ thread' \in {"read", "idle"} /\ held' = 0
      /\ seen' \in Times /\ (thread' = "read" => seen' = time_stamp)
      /\ UNCHANGED <<clock, irq, cur, busy, time_stamp, head, tim, pending>>
  <2>1. 0 \in Times /\ time_stamp \in Times
    BY Known, Constants DEF Times
  <2>2. CASE read_stamp
    BY <2>1, <2>2 DEF read_stamp, other
  <2>3. CASE read_counter
    BY <2>1, <2>3 DEF read_counter, other
  <2> QED
    BY <2>2, <2>3
<1>2. (\A n : left(n)' = left(n)) /\ (\A s : Age(s)' = Age(s))
  BY <1>1, SameTime
<1>3. 0 \in 0..GAP /\ Period \in Nat /\ LATE \in Nat
  BY Constants
<1>4. TypeOK'
  BY <1>1, <1>3 DEF Inv, TypeOK
<1>5. Ordered(head)' /\ Armed' /\ Overdue'
  BY <1>1, <1>2 DEF Inv, Ordered, Armed, Overdue, Serving, Nodes
<1>6. Stamped'
  BY <1>1, <1>2 DEF Inv, Stamped, Renewing, Nodes
<1>7. Fresh'
  <2>1. Age(time_stamp) \in 0..(Period + LATE)
    BY Known
  <2>2. Age(time_stamp) <= Period + LATE + 0
    BY <1>3, <2>1
  <2>3. Age(seen)' = Age(seen')
    BY <1>1 DEF Age
  <2> QED
    BY <1>1, <2>2, <2>3 DEF Fresh
<1> QED
  BY <1>4, <1>5, <1>6, <1>7 DEF Inv

LEMMA SetStep ==
    ASSUME Inv, NEW t \in Timers, NEW d \in Delays, thread_sets(t, d)
    PROVE  Inv'
<1> DEFINE dl == time_add(clock, d)
<1>1. /\ irq = "none" /\ timer_set(t, dl, clock)
      /\ UNCHANGED <<clock, irq, cur, busy, time_stamp, thread, seen, held>>
  BY Now DEF thread_sets, other
<1>2. dl \in Times /\ left([timer |-> t, deadline |-> dl]) >= -Past
  <2>1. clock \in Times /\ d \in (-Half)..(Half - 1) /\ d >= -Past
    BY Known, Constants
  <2> QED
    BY <2>1, Added DEF left
<1> HIDE DEF dl
<1>3. t \in All /\ t # STAMP
  BY Constants DEF All
<1>4. /\ Armed' /\ Overdue' /\ Ordered(head)' /\ head' \in Seq(Node)
      /\ tim' \in (-1)..SPAN /\ pending' \in BOOLEAN
  BY <1>1, <1>2, <1>3, SetKeeps
<1>5. {m \in Nodes(head) : m.timer # t} \subseteq Nodes(head')
  BY <1>1, <1>2, <1>3, SetIt
<1>6. TypeOK'
  BY <1>1, <1>4 DEF Inv, TypeOK, Node
<1>7. (\A n : left(n)' = left(n)) /\ (\A s : Age(s)' = Age(s))
  BY <1>1, SameTime
<1>8. Stamped'
  <2>1. ~Renewing /\ ~Renewing'
    BY <1>1 DEF Renewing
  <2>2. PICK m \in Nodes(head) :
           m.timer = STAMP /\ Age(time_stamp) + left(m) = Period
    BY <2>1 DEF Inv, Stamped
  <2>3. m \in Nodes(head')
    BY <1>3, <1>5, <2>2
  <2> QED
    BY <1>1, <1>7, <2>1, <2>2, <2>3 DEF Stamped, Nodes
<1>9. Fresh'
  BY <1>1, <1>7 DEF Inv, Fresh
<1> QED
  BY <1>4, <1>6, <1>8, <1>9 DEF Inv

LEMMA CancelStep ==
    ASSUME Inv, NEW t \in Timers, thread_cancels(t)
    PROVE  Inv'
<1>1. /\ irq = "none" /\ timer_cancel(t)
      /\ UNCHANGED <<clock, irq, cur, busy, time_stamp, thread, seen, held,
                     tim, pending>>
  BY DEF thread_cancels, timer_cancel, other
<1>2. t # STAMP
  BY Constants
<1>3. /\ Armed' /\ Overdue' /\ Ordered(head)' /\ head' \in Seq(Node)
      /\ Nodes(head') = {m \in Nodes(head) : m.timer # t}
  BY <1>1, CancelKeeps
<1>4. TypeOK'
  BY <1>1, <1>3 DEF Inv, TypeOK, Node
<1>5. (\A n : left(n)' = left(n)) /\ (\A s : Age(s)' = Age(s))
  BY <1>1, SameTime
<1>6. Stamped'
  <2>1. ~Renewing /\ ~Renewing'
    BY <1>1 DEF Renewing
  <2>2. PICK m \in Nodes(head) :
           m.timer = STAMP /\ Age(time_stamp) + left(m) = Period
    BY <2>1 DEF Inv, Stamped
  <2>3. m \in Nodes(head')
    BY <1>2, <1>3, <2>2
  <2> QED
    BY <1>1, <1>5, <2>1, <2>2, <2>3 DEF Stamped, Nodes
<1>7. Fresh'
  BY <1>1, <1>5 DEF Inv, Fresh
<1> QED
  BY <1>3, <1>4, <1>6, <1>7 DEF Inv

-----------------------------------------------------------------------------
(* The interrupt's steps.                                                   *)

LEMMA EnterStep == ASSUME Inv, irq_enter PROVE Inv'
<1>1. /\ pending /\ irq = "none" /\ pending' = FALSE /\ irq' = "loop"
      /\ UNCHANGED <<clock, time_stamp, head, tim, cur, thread, seen, held,
                     busy>>
  BY DEF irq_enter
<1>2. (\A n : left(n)' = left(n)) /\ (\A s : Age(s)' = Age(s))
  BY <1>1, SameTime
<1>3. Serving /\ Serving' /\ ~Renewing /\ ~Renewing'
  BY <1>1 DEF Serving, Renewing
<1>4. TypeOK'
  BY <1>1 DEF Inv, TypeOK
<1>5. Ordered(head)' /\ Armed' /\ Overdue'
  BY <1>1, <1>2, <1>3 DEF Inv, Ordered, Armed, Overdue, Nodes
<1>6. Stamped' /\ Fresh'
  BY <1>1, <1>2, <1>3 DEF Inv, Stamped, Fresh, Nodes
<1> QED
  BY <1>4, <1>5, <1>6 DEF Inv

LEMMA DoneStep == ASSUME Inv, irq_done PROVE Inv'
<1>1. /\ irq = "loop" /\ irq' = "none" /\ busy' = 0
      /\ UNCHANGED <<clock, time_stamp, head, cur, thread, seen, held>>
  BY DEF irq_done, irq_leave
<1>2. (\A n : left(n)' = left(n)) /\ (\A s : Age(s)' = Age(s))
  BY <1>1, SameTime
<1>3. /\ clock \in Times /\ head \in Seq(Node) /\ Ordered(head)
      /\ tim \in (-1)..SPAN
      /\ \A m \in Nodes(head) :
            left(m) \in Int /\ left(m) \in (-Half)..(Half - 1)
  BY Known
<1>4. /\ Past \in Nat /\ SLACK_TICKS \in Nat /\ LATENCY \in Nat
      /\ Half \in Nat
  BY Constants
<1>5. /\ tim' \in (-1)..SPAN /\ pending' \in BOOLEAN
      /\ \A m \in Nodes(head) :
            tim' >= 1 /\ left(m) - tim' >= -2 - Past /\ left(m) >= 0
  <2>1. CASE head = <<>> /\ UNCHANGED <<tim, pending>>
    <3>1. Nodes(head) = {}
      BY <2>1 DEF Nodes
    <3>2. tim' \in (-1)..SPAN
      BY <1>3, <2>1
    <3>3. pending' \in BOOLEAN
      BY <2>1 DEF Inv, TypeOK
    <3> QED
      BY <3>1, <3>2, <3>3
  <2>2. CASE /\ head # <<>> /\ to_go(Head(head)) > SLACK_TICKS
             /\ reprogram_timer(to_go(Head(head)))
    <3>1. /\ Head(head) = head[1] /\ head[1] \in Nodes(head)
          /\ \A m \in Nodes(head) : left(head[1]) <= left(m)
      BY <1>3, <2>2, First
    <3> DEFINE d == left(head[1])
    <3>2. to_go(Head(head)) = d
      BY <3>1, Now DEF to_go, left
    <3>3. d \in Int /\ d > SLACK_TICKS /\ d < Half /\ reprogram_timer(d)
      BY <1>3, <1>4, <2>2, <3>1, <3>2
    <3> HIDE DEF d
    <3>4. /\ tim' \in 1..SPAN /\ d - tim' >= -2 - Past
          /\ pending' \in BOOLEAN
      BY <1>4, <3>3, Reprogrammed
    <3>5. \A m \in Nodes(head) : d <= left(m)
      BY <3>1 DEF d
    <3>6. tim' \in (-1)..SPAN /\ tim' >= 1 /\ tim' \in Int
      BY <3>4, Constants
    <3>7. ASSUME NEW m \in Nodes(head)
          PROVE  left(m) - tim' >= -2 - Past /\ left(m) >= 0
      <4>1. left(m) \in Int /\ d <= left(m)
        BY <1>3, <3>5
      <4>2. d \in Int /\ d > SLACK_TICKS /\ d - tim' >= -2 - Past
        BY <3>3, <3>4
      <4> DEFINE e == left(m)
                 u == tim'
      <4>3. e \in Int /\ d <= e
        BY <4>1
      <4>4. u \in Int
        BY <3>6
      <4>5. Past \in Int
        BY <1>4
      <4>6. d - u >= -2 - Past
        BY <4>2
      <4> HIDE DEF e, u
      <4>7. e >= 0 /\ e - u >= -2 - Past
        BY <1>4, <4>2, <4>3, <4>4, <4>5, <4>6
      <4> QED
        BY <4>7 DEF e, u
    <3> QED
      BY <3>4, <3>6, <3>7
  <2> QED
    BY <2>1, <2>2 DEF irq_done
<1>6. TypeOK'
  <2>1. 0 \in 0..LATENCY
    BY <1>4
  <2> QED
    BY <1>1, <1>5, <2>1 DEF Inv, TypeOK
<1>7. Ordered(head)'
  BY <1>1, <1>2 DEF Inv, Ordered
<1>8. Armed'
  BY <1>1, <1>2, <1>5 DEF Armed, Nodes
<1>9. Overdue'
  <2>1. \A m \in Nodes(head) : left(m) >= -2 - Past - 0
    BY <1>3, <1>4, <1>5
  <2> QED
    BY <1>1, <1>2, <2>1 DEF Overdue, Nodes
<1>10. Stamped' /\ Fresh'
  BY <1>1, <1>2 DEF Inv, Stamped, Fresh, Renewing, Nodes
<1> QED
  BY <1>6, <1>7, <1>8, <1>9, <1>10 DEF Inv

LEMMA FiresStep == ASSUME Inv, irq_fires PROVE Inv'
<1>1. /\ irq = "loop" /\ head # <<>> /\ irq' = "call"
      /\ cur' = Head(head).timer /\ head' = Tail(head)
      /\ UNCHANGED <<clock, time_stamp, tim, pending, thread, seen, held,
                     busy>>
  BY DEF irq_fires
<1>2. (\A n : left(n)' = left(n)) /\ (\A s : Age(s)' = Age(s))
  BY <1>1, SameTime
<1>3. /\ clock \in Times /\ head \in Seq(Node) /\ Ordered(head)
      /\ busy \in 0..LATENCY /\ Age(time_stamp) \in 0..(Period + LATE)
      /\ \A m \in Nodes(head) : left(m) \in Int /\ m \in Node
  BY Known
<1>4. /\ Head(head) = head[1] /\ head[1] \in Nodes(head)
      /\ \A m \in Nodes(head) : m # head[1] => m.timer # head[1].timer
  BY <1>1, <1>3, First
<1>5. /\ head' \in Seq(Node) /\ Len(head) \in Nat /\ Len(head') = Len(head) - 1
      /\ DOMAIN head = 1..Len(head) /\ DOMAIN head' = 1..(Len(head) - 1)
      /\ \A i \in 1..(Len(head) - 1) : head'[i] = head[i + 1]
  <2>1. /\ Tail(head) \in Seq(Node) /\ Len(Tail(head)) = Len(head) - 1
        /\ \A i \in 1..Len(Tail(head)) : Tail(head)[i] = head[i + 1]
    BY <1>1, <1>3, HeadTailProperties
  <2>2. /\ Len(head) \in Nat /\ DOMAIN head = 1..Len(head)
        /\ DOMAIN Tail(head) = 1..Len(Tail(head))
    BY <1>3, <2>1
  <2> QED
    BY <1>1, <2>1, <2>2
<1>6. Nodes(head') = Nodes(head) \ {head[1]}
  <2>1. ASSUME NEW m \in Nodes(head') PROVE m \in Nodes(head) \ {head[1]}
    <3>1. PICK i \in DOMAIN head' : m = head'[i]
      BY DEF Nodes
    <3>2. /\ m = head[i + 1] /\ i + 1 \in DOMAIN head /\ 1 \in DOMAIN head
          /\ 1 < i + 1
      BY <1>5, <3>1
    <3>3. head[1].timer # head[i + 1].timer
      BY <1>3, <3>2 DEF Ordered
    <3> QED
      BY <3>2, <3>3 DEF Nodes
  <2>2. ASSUME NEW m \in Nodes(head), m # head[1] PROVE m \in Nodes(head')
    <3>1. PICK i \in DOMAIN head : m = head[i]
      BY DEF Nodes
    <3>2. i - 1 \in DOMAIN head' /\ (i - 1) + 1 = i
      BY <1>5, <2>2, <3>1
    <3>3. head'[i - 1] = head[i]
      BY <1>5, <3>2
    <3> QED
      BY <3>1, <3>2, <3>3 DEF Nodes
  <2> QED
    BY <2>1, <2>2
<1>7. TypeOK'
  <2>1. cur' \in All
    BY <1>1, <1>3, <1>4 DEF Node
  <2> QED
    BY <1>1, <1>5, <2>1 DEF Inv, TypeOK, Node
<1>8. Ordered(head)'
  <2> SUFFICES ASSUME NEW i \in DOMAIN head', NEW j \in DOMAIN head', i < j
               PROVE  /\ head'[i].timer # head'[j].timer
                      /\ left(head'[i]) <= left(head'[j])
    BY <1>2 DEF Ordered
  <2>1. /\ i + 1 \in DOMAIN head /\ j + 1 \in DOMAIN head /\ i + 1 < j + 1
        /\ head'[i] = head[i + 1] /\ head'[j] = head[j + 1]
    BY <1>5
  <2> QED
    BY <1>3, <2>1 DEF Ordered
<1>9. Serving /\ Serving' /\ ~Renewing /\ irq' # "none"
  BY <1>1 DEF Serving, Renewing
<1>10. Armed' /\ Overdue'
  BY <1>1, <1>2, <1>6, <1>9 DEF Inv, Armed, Overdue, Nodes
<1>11. Stamped'
  <2>1. PICK m \in Nodes(head) :
           m.timer = STAMP /\ Age(time_stamp) + left(m) = Period
    BY <1>9 DEF Inv, Stamped
  <2>2. CASE cur' = STAMP
    <3>1. m = head[1]
      BY <1>1, <1>4, <2>1, <2>2
    <3>2. left(m) >= -2 - Past - busy
      BY <1>9, <2>1 DEF Inv, Overdue
    <3>3. Age(time_stamp) <= Period + 2 + Past + busy
      BY <1>3, <2>1, <3>2, Constants
    <3> QED
      BY <1>1, <1>2, <2>2, <3>3 DEF Stamped, Renewing
  <2>3. CASE cur' # STAMP
    <3>1. m \in Nodes(head')
      BY <1>1, <1>4, <1>6, <2>1, <2>3
    <3> QED
      BY <1>1, <1>2, <2>1, <2>3, <3>1 DEF Stamped, Renewing, Nodes
  <2> QED
    BY <2>2, <2>3
<1>12. Fresh'
  BY <1>1, <1>2 DEF Inv, Fresh
<1> QED
  BY <1>7, <1>8, <1>10, <1>11, <1>12 DEF Inv

\* The stamp is renewed half a period of the counter from now, by a thread
\* that knows what now is.
LEMMA UpdateStep == ASSUME Inv, time_stamp_update PROVE Inv'
<1> DEFINE dl == time_add(clock, Period)
           n == [timer |-> STAMP, deadline |-> dl]
<1>1. /\ clock \in Times /\ inverted(clock) \in Times
      /\ Age(inverted(clock)) = 0
  <2>1. clock \in Times /\ SPAN \in Nat \ {0}
    BY Known, Constants DEF Times
  <2>2. inverted(clock) \in 0..(SPAN - 1)
    BY <2>1 DEF inverted, Times
  <2>3. inverted(clock) - inverted(clock) = 0 /\ 0 % SPAN = 0
    BY <2>1, <2>2
  <2> QED
    BY <2>1, <2>2, <2>3 DEF Age, Times
<1>2. /\ irq = "call" /\ cur = STAMP /\ irq' = "loop" /\ cur' = STAMP
      /\ time_stamp' = inverted(clock)
      /\ timer_set(STAMP, dl, time_now(time_stamp'))
      /\ UNCHANGED <<clock, thread, seen, held, busy>>
  BY Now DEF time_stamp_update, called, Period
<1>3. time_now(time_stamp') = clock
  <2>1. Age(inverted(clock)) < WRAP
    BY <1>1, Constants
  <2> QED
    BY <1>1, <1>2, <2>1, Exact
<1>4. dl \in Times /\ left(n) = Period
  <2>1. Period \in (-Half)..(Half - 1)
    BY Constants
  <2> QED
    BY <1>1, <2>1, Added DEF left
<1>5. left(n) >= -Past
  BY <1>4, Constants
<1> HIDE DEF dl
<1>6. STAMP \in All /\ timer_set(STAMP, dl, clock)
  BY <1>2, <1>3 DEF All
<1>7. /\ Armed' /\ Overdue' /\ Ordered(head)' /\ head' \in Seq(Node)
      /\ tim' \in (-1)..SPAN /\ pending' \in BOOLEAN
  BY <1>2, <1>4, <1>5, <1>6, SetKeeps
<1>8. n \in Nodes(head')
  BY <1>4, <1>5, <1>6, SetIt
<1>9. (\A m : left(m)' = left(m)) /\ (\A s : Age(s)' = Age(s))
  BY <1>2, SameTime
<1>10. TypeOK'
  BY <1>1, <1>2, <1>6, <1>7 DEF Inv, TypeOK, Node
<1>11. Stamped'
  <2>1. ~Renewing'
    BY <1>2 DEF Renewing
  <2>2. Age(time_stamp)' = 0
    BY <1>1, <1>2 DEF Age
  <2>3. PICK m \in Nodes(head') : m.timer = STAMP /\ left(m) = Period
    BY <1>4, <1>8
  <2>4. Age(time_stamp)' + left(m)' = Period
    BY <1>9, <2>2, <2>3, Constants
  <2> QED
    BY <2>1, <2>3, <2>4 DEF Stamped, Nodes
<1>12. Fresh'
  BY <1>2, <1>9 DEF Inv, Fresh
<1> QED
  BY <1>7, <1>10, <1>11, <1>12 DEF Inv

LEMMA CallbackStep == ASSUME Inv, callback PROVE Inv'
<1>1. /\ irq = "call" /\ cur # STAMP /\ irq' = "loop" /\ cur' = STAMP
      /\ UNCHANGED <<clock, thread, seen, held, busy, time_stamp>>
  BY DEF callback, called
<1>2. (\A n : left(n)' = left(n)) /\ (\A s : Age(s)' = Age(s))
  BY <1>1, SameTime
<1>3. Serving /\ Serving' /\ ~Renewing /\ ~Renewing'
  BY <1>1 DEF Serving, Renewing
<1>4. tim \in (-1)..SPAN /\ head \in Seq(Node)
  BY Known
<1> DEFINE Kept ==
             /\ Armed' /\ Overdue' /\ Ordered(head)' /\ head' \in Seq(Node)
             /\ tim' \in (-1)..SPAN /\ pending' \in BOOLEAN
             /\ \A m \in Nodes(head) : m.timer = STAMP => m \in Nodes(head')
<1>5. ASSUME UNCHANGED <<head, tim, pending>> PROVE Kept
  <2>1. Ordered(head)' /\ Armed' /\ Overdue'
    BY <1>1, <1>2, <1>3, <1>5 DEF Inv, Ordered, Armed, Overdue, Nodes
  <2>2. pending' \in BOOLEAN
    BY <1>5 DEF Inv, TypeOK
  <2> QED
    BY <1>4, <1>5, <2>1, <2>2
<1>6. ASSUME NEW t \in Timers, timer_cancel(t) PROVE Kept
  <2>1. /\ Armed' /\ Overdue' /\ Ordered(head)' /\ head' \in Seq(Node)
        /\ Nodes(head') = {m \in Nodes(head) : m.timer # t}
    BY <1>1, <1>6, CancelKeeps
  <2>2. t # STAMP /\ tim' = tim /\ pending' = pending
    BY <1>6, Constants DEF timer_cancel
  <2>3. pending' \in BOOLEAN
    BY <2>2 DEF Inv, TypeOK
  <2> QED
    BY <1>4, <2>1, <2>2, <2>3
<1>7. ASSUME NEW t \in Timers, NEW d \in Delays,
             timer_set(t, time_add(clock, d), clock)
      PROVE  Kept
  <2> DEFINE dl == time_add(clock, d)
  <2>1. dl \in Times /\ left([timer |-> t, deadline |-> dl]) >= -Past
    <3>1. clock \in Times /\ d \in (-Half)..(Half - 1) /\ d >= -Past
      BY Known, Constants
    <3> QED
      BY <3>1, Added DEF left
  <2>2. timer_set(t, dl, clock)
    BY <1>7
  <2> HIDE DEF dl
  <2>3. t \in All /\ t # STAMP
    BY Constants DEF All
  <2>4. /\ Armed' /\ Overdue' /\ Ordered(head)' /\ head' \in Seq(Node)
        /\ tim' \in (-1)..SPAN /\ pending' \in BOOLEAN
    BY <1>1, <2>1, <2>2, <2>3, SetKeeps
  <2>5. {m \in Nodes(head) : m.timer # t} \subseteq Nodes(head')
    BY <2>1, <2>2, <2>3, SetIt
  <2> QED
    BY <2>3, <2>4, <2>5
<1>8. Kept
  <2>1. \/ UNCHANGED <<head, tim, pending>>
        \/ \E t \in Timers : timer_cancel(t)
        \/ \E t \in Timers, d \in Delays :
              timer_set(t, time_add(clock, d), clock)
    BY Now DEF callback
  <2> HIDE DEF Kept
  <2> QED
    BY <1>5, <1>6, <1>7, <2>1
<1>9. TypeOK'
  BY <1>1, <1>8 DEF Inv, TypeOK, Node, All
<1>10. Stamped'
  <2>1. PICK m \in Nodes(head) :
           m.timer = STAMP /\ Age(time_stamp) + left(m) = Period
    BY <1>3 DEF Inv, Stamped
  <2>2. m \in Nodes(head')
    BY <1>8, <2>1
  <2> QED
    BY <1>1, <1>2, <1>3, <2>1, <2>2 DEF Stamped, Nodes
<1>11. Fresh'
  BY <1>1, <1>2 DEF Inv, Fresh
<1> QED
  BY <1>8, <1>9, <1>10, <1>11 DEF Inv

-----------------------------------------------------------------------------

LEMMA StutterStep == ASSUME Inv, UNCHANGED vars PROVE Inv'
<1>1. /\ UNCHANGED <<clock, time_stamp, head, tim, pending, irq, cur>>
      /\ UNCHANGED <<thread, seen, held, busy>>
  BY DEF vars
<1>2. (\A n : left(n)' = left(n)) /\ (\A s : Age(s)' = Age(s))
  BY <1>1, SameTime
<1>3. TypeOK'
  BY <1>1 DEF Inv, TypeOK
<1>4. Ordered(head)' /\ Armed' /\ Overdue'
  BY <1>1, <1>2 DEF Inv, Ordered, Armed, Overdue, Serving, Nodes
<1>5. Stamped' /\ Fresh'
  BY <1>1, <1>2 DEF Inv, Stamped, Fresh, Renewing, Nodes
<1> QED
  BY <1>3, <1>4, <1>5 DEF Inv

LEMMA InvStep == Inv /\ [Next]_vars => Inv'
<1> SUFFICES ASSUME Inv, [Next]_vars PROVE Inv'
  OBVIOUS
<1>1. CASE Tick
  BY <1>1, TickStep
<1>2. CASE read_stamp \/ read_counter
  BY <1>2, ReadStep
<1>3. CASE \E t \in Timers, d \in Delays : thread_sets(t, d)
  BY <1>3, SetStep
<1>4. CASE \E t \in Timers : thread_cancels(t)
  BY <1>4, CancelStep
<1>5. CASE IRQ_timer
  BY <1>5, EnterStep, DoneStep, FiresStep, UpdateStep, CallbackStep
     DEF IRQ_timer
<1>6. CASE UNCHANGED vars
  BY <1>6, StutterStep
<1> QED
  BY <1>1, <1>2, <1>3, <1>4, <1>5, <1>6 DEF Next

LEMMA InvHolds == Spec => []Inv
  BY InitInv, InvStep, PTL DEF Spec

(* Whoever calls time_now gets the true time, however long the system has   *)
(* run: the stamp never gets a period of the counter old, for its own timer *)
(* is one of those that are not late (time.c:19-34).                        *)
THEOREM TimeIsExact == Spec => []TimeExact
<1>1. Inv => TimeExact
  BY Promises
<1> QED
  BY <1>1, InvHolds, PTL

(* Every variable has its type, and the list of timers stays in the order   *)
(* of their deadlines, across the wrap of time, with each timer in it once  *)
(* (timer.c:94-101).                                                        *)
THEOREM ListIsSorted == Spec => []ListSorted
<1>1. Inv => ListSorted
  BY Promises
<1> QED
  BY <1>1, InvHolds, PTL

(* No callback starts more than LATE ticks after its deadline, whatever the *)
(* thread and other callbacks set and cancel meanwhile (timer.c:82-146).    *)
THEOREM NoneIsLate == Spec => []NotLate
<1>1. Inv => NotLate
  BY Promises
<1> QED
  BY <1>1, InvHolds, PTL
=============================================================================
