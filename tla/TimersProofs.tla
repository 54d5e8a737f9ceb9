---------------------------- MODULE TimersProofs ----------------------------
(***************************************************************************)
(* The timer list of module Timers is in order, holds every active timer   *)
(* and implements Countdown, for every width of the tick counter, every    *)
(* number of timers and every time-out below the limit of rt_timer_start.  *)
(*                                                                         *)
(* Tick counts are compared modulo TickMod.  The proofs count from a       *)
(* moment MaxDelay + 1 ticks before the present: Lead(s, t) is how far     *)
(* ahead of it timer t expires.  Every timer that matters has a lead below *)
(* Half, and within that range the comparison of the code is the order of  *)
(* the leads.                                                              *)
(***************************************************************************)
EXTENDS Timers, SequenceTheorems, FiniteSetTheorems, TLAPS

Half == RT_TICK_MAX \div 2
Back == MaxDelay + 1

\* How far ahead count a is of the moment Back ticks before count k.
Ahead(a, k) == (a - k + Back) % TickMod

Lead(s, t) == Ahead(s.timeout_tick[t], s.tick)

TimerState ==
    [tick         : 0 .. TickMod - 1,
     list         : Seq(Timer),
     flags        : [Timer -> SUBSET Flags],
     init_tick    : [Timer -> Times],
     timeout_tick : [Timer -> 0 .. TickMod - 1]]

-----------------------------------------------------------------------------
(* Lists without repetition: what rt_list_remove, rt_list_insert_before and *)
(* rt_list_insert_after do to the sequences that stand for them.            *)

\* A non-empty finite set of numbers has a smallest element: the place where
\* rt_timer_start links a timer, or where rt_list_remove finds it.
LEMMA MinOfRange ==
  ASSUME NEW n \in Nat, NEW S \in SUBSET (0 .. n), S # {}
  PROVE  Min(S) \in S /\ \A x \in S : Min(S) <= x
<1>. DEFINE D(x) == {y \in S : y <= x}
            T    == {D(x) : x \in S}
            R    == StrictSubsetOrdering(S)
<1>1. IsFiniteSet(S)
  <2>1. IsFiniteSet(0 .. n)
    BY FS_Interval
  <2>. QED
    BY <2>1, FS_Subset
<1>2. IsWellFoundedOn(R, SUBSET S)
  <2>1. IsWellFoundedOn(R, FiniteSubsetsOf(S))
    BY FS_StrictSubsetOrderingWellFounded
  <2>2. SUBSET S \subseteq FiniteSubsetsOf(S)
    BY <1>1, FS_Subset DEF FiniteSubsetsOf
  <2>. QED
    BY <2>1, <2>2, IsWellFoundedOnSubset
<1>3. PICK b \in T : \A d \in T : ~ (<<d, b>> \in R)
  <2>1. T \subseteq SUBSET S /\ T # {}
    OBVIOUS
  <2>. HIDE DEF T, R
  <2>. QED
    BY <1>2, <2>1, WFMin
<1>4. PICK x \in S : b = D(x)
  BY <1>3
<1>5. ASSUME NEW y \in S
      PROVE  x <= y
  <2>1. SUFFICES ASSUME y < x PROVE FALSE
    OBVIOUS
  <2>2. D(y) \in T
    OBVIOUS
  <2>3. D(y) \subseteq D(x) /\ x \in D(x) /\ x \notin D(y)
    <3>1. x \in Int /\ y \in Int /\ \A z \in S : z \in Int
      OBVIOUS
    <3>2. ~ (x <= y) /\ x <= x /\ \A z \in S : z <= y => z <= x
      BY <2>1, <3>1
    <3>. QED
      BY <3>2
  <2>4. <<D(y), D(x)>> \in R
    BY <2>3 DEF StrictSubsetOrdering
  <2>. QED
    BY <1>3, <1>4, <2>2, <2>4
<1>. QED
  BY <1>5 DEF Min

\* rt_list_remove, element by element: one place is taken out, and what is
\* behind it moves up.
LEMMA RemoveFirstElements ==
  ASSUME NEW S, NEW s \in Seq(S), NEW e
  PROVE  \/ e \notin Range(s) /\ RemoveFirst(s, e) = s
         \/ \E i \in 1 .. Len(s) :
               /\ s[i] = e
               /\ RemoveFirst(s, e) \in Seq(S)
               /\ Len(RemoveFirst(s, e)) = Len(s) - 1
               /\ \A j \in 1 .. Len(s) - 1 :
                     RemoveFirst(s, e)[j] = IF j < i THEN s[j] ELSE s[j+1]
<1>. DEFINE I == {i \in 1 .. Len(s) : s[i] = e}
            i == SelectInSeq(s, LAMBDA v : v = e)
<1>1. CASE I = {}
  <2>1. RemoveFirst(s, e) = s
    BY <1>1 DEF RemoveFirst
  <2>2. e \notin Range(s)
    BY <1>1 DEF Range
  <2>. QED
    BY <2>1, <2>2
<1>2. CASE I # {}
  <2>1. I \in SUBSET (0 .. Len(s)) /\ Len(s) \in Nat
    OBVIOUS
  <2>2. i \in 1 .. Len(s) /\ s[i] = e
    BY <1>2, <2>1, MinOfRange DEF SelectInSeq
  <2>. DEFINE a == SubSeq(s, 1, i-1)
              b == SubSeq(s, i+1, Len(s))
              r == a \o b
  <2>3. RemoveFirst(s, e) = r
    BY <1>2 DEF RemoveFirst, RemoveAt
  <2>. HIDE DEF i, I
  <2>4. /\ a \in Seq(S) /\ Len(a) = i - 1
        /\ \A j \in 1 .. i - 1 : a[j] = s[j]
    BY <2>2, SubSeqProperties
  <2>5. /\ b \in Seq(S) /\ Len(b) = Len(s) - i
        /\ \A j \in 1 .. Len(s) - i : b[j] = s[i + j]
    BY <2>2, SubSeqProperties
  <2>. HIDE DEF a, b
  <2>6. /\ a \o b \in Seq(S) /\ Len(a \o b) = Len(a) + Len(b)
        /\ \A j \in 1 .. Len(a) + Len(b) :
              (a \o b)[j] = IF j <= Len(a) THEN a[j] ELSE b[j - Len(a)]
    BY <2>4, <2>5, ConcatProperties
  <2>7. r = a \o b
    OBVIOUS
  <2>. HIDE DEF r
  <2>8. /\ r \in Seq(S)
        /\ Len(r) = Len(s) - 1
        /\ \A j \in 1 .. Len(s) - 1 : r[j] = IF j < i THEN s[j] ELSE s[j+1]
    <3>1. Len(s) \in Nat /\ i \in 1 .. Len(s)
      BY <2>2
    <3>2. r \in Seq(S) /\ Len(r) = Len(s) - 1
      <4>1. r \in Seq(S) /\ Len(r) = Len(a) + Len(b)
        BY <2>6, <2>7
      <4>. QED
        BY <2>4, <2>5, <3>1, <4>1
    <3>3. ASSUME NEW j \in 1 .. Len(s) - 1
          PROVE  r[j] = IF j < i THEN s[j] ELSE s[j+1]
      <4>1. j \in 1 .. Len(a) + Len(b)
        BY <2>4, <2>5, <3>1
      <4>4. r[j] = IF j <= Len(a) THEN a[j] ELSE b[j - Len(a)]
        BY <2>6, <2>7, <4>1
      <4>2. CASE j < i
        <5>1. j \in 1 .. i - 1 /\ j <= Len(a)
          BY <2>4, <3>1, <4>2
        <5>. QED
          BY <2>4, <4>4, <4>2, <5>1
      <4>3. CASE ~ j < i
        <5>1. j - (i - 1) \in 1 .. Len(s) - i /\ ~ j <= Len(a) /\ i + (j - (i - 1)) = j + 1
          BY <2>4, <3>1, <4>3
        <5>2. r[j] = b[j - (i - 1)]
          BY <2>4, <4>4, <5>1
        <5>. QED
          BY <2>5, <4>3, <5>1, <5>2
      <4>. QED
        BY <4>2, <4>3
    <3>. QED
      BY <3>2, <3>3
  <2>. QED
    BY <2>2, <2>3, <2>8
<1>. QED
  BY <1>1, <1>2

\* rt_list_remove on a list that holds the node at most once.
LEMMA RemoveFirstProperties ==
  ASSUME NEW S, NEW s \in Seq(S), NEW e, IsInjective(s)
  PROVE  /\ RemoveFirst(s, e) \in Seq(S)
         /\ IsInjective(RemoveFirst(s, e))
         /\ Range(RemoveFirst(s, e)) = Range(s) \ {e}
<1>. DEFINE r == RemoveFirst(s, e)
<1>1. CASE e \notin Range(s) /\ r = s
  BY <1>1
<1>2. CASE \E i \in 1 .. Len(s) :
              /\ s[i] = e
              /\ r \in Seq(S)
              /\ Len(r) = Len(s) - 1
              /\ \A j \in 1 .. Len(s) - 1 : r[j] = IF j < i THEN s[j] ELSE s[j+1]
  <2>2. PICK i \in 1 .. Len(s) :
              /\ s[i] = e
              /\ r \in Seq(S)
              /\ Len(r) = Len(s) - 1
              /\ \A j \in 1 .. Len(s) - 1 : r[j] = IF j < i THEN s[j] ELSE s[j+1]
    BY <1>2
  <2>4. /\ r \in Seq(S)
        /\ Len(r) = Len(s) - 1
        /\ \A j \in 1 .. Len(r) : r[j] = IF j < i THEN s[j] ELSE s[j+1]
    BY <2>2
  <2>. HIDE DEF r
  <2>5. IsInjective(r)
    <3>1. ASSUME NEW a \in 1 .. Len(r), NEW b \in 1 .. Len(r), r[a] = r[b]
          PROVE  a = b
      <4>. DEFINE f(j) == IF j < i THEN j ELSE j + 1
      <4>1. /\ f(a) \in 1 .. Len(s) /\ f(b) \in 1 .. Len(s)
            /\ s[f(a)] = r[a] /\ s[f(b)] = r[b]
        BY <2>2, <2>4
      <4>2. f(a) = f(b)
        BY <3>1, <4>1 DEF IsInjective
      <4>. QED
        BY <4>2, <2>2
    <3>. QED
      BY <3>1, <2>4 DEF IsInjective
  <2>6. Range(r) = Range(s) \ {e}
    <3>1. ASSUME NEW j \in 1 .. Len(r) PROVE r[j] \in Range(s) \ {e}
      BY <2>2, <2>4 DEF Range, IsInjective
    <3>2. ASSUME NEW j \in 1 .. Len(s), s[j] # e PROVE s[j] \in Range(r)
      <4>1. CASE j < i
        BY <4>1, <2>2, <2>4 DEF Range
      <4>2. CASE j > i
        <5>1. j - 1 \in 1 .. Len(r) /\ r[j-1] = s[j]
          BY <4>2, <2>2, <2>4
        <5>. QED
          BY <5>1, <2>4 DEF Range
      <4>. QED
        BY <4>1, <4>2, <2>2, <3>2
    <3>. QED
      BY <3>1, <3>2, <2>4 DEF Range
  <2>. QED
    BY <2>4, <2>5, <2>6 DEF r
<1>. QED
  <2>. HIDE DEF r
  <2>1. r = RemoveFirst(s, e)
    BY DEF r
  <2>. QED
    BY <2>1, <1>1, <1>2, RemoveFirstElements

\* An insertion, element by element: what is behind the place moves down.
LEMMA InsertAtElements ==
  ASSUME NEW S, NEW s \in Seq(S), NEW e \in S, NEW n \in 1 .. Len(s) + 1
  PROVE  /\ InsertAt(s, n, e) \in Seq(S)
         /\ Len(InsertAt(s, n, e)) = Len(s) + 1
         /\ \A j \in 1 .. Len(s) + 1 :
               InsertAt(s, n, e)[j] = IF j < n THEN s[j] ELSE IF j = n THEN e ELSE s[j-1]
<1>. DEFINE a == SubSeq(s, 1, n-1)
            b == SubSeq(s, n, Len(s))
            r == InsertAt(s, n, e)
<1>1. /\ a \in Seq(S) /\ Len(a) = n - 1
      /\ \A j \in 1 .. n - 1 : a[j] = s[j]
  BY SubSeqProperties
<1>2. /\ b \in Seq(S) /\ Len(b) = Len(s) - n + 1
      /\ \A j \in 1 .. Len(s) - n + 1 : b[j] = s[n + j - 1]
  BY SubSeqProperties
<1>3. r = (a \o <<e>>) \o b
  BY DEF InsertAt
<1>. HIDE DEF a, b, r
<1>4. <<e>> \in Seq(S) /\ Len(<<e>>) = 1 /\ <<e>>[1] = e
  OBVIOUS
<1>5. /\ a \o <<e>> \in Seq(S) /\ Len(a \o <<e>>) = n
      /\ \A j \in 1 .. n : (a \o <<e>>)[j] = IF j <= n - 1 THEN a[j] ELSE e
  BY <1>1, <1>4, ConcatProperties
<1>6. /\ r \in Seq(S) /\ Len(r) = Len(s) + 1
      /\ \A j \in 1 .. Len(s) + 1 :
            r[j] = IF j < n THEN s[j] ELSE IF j = n THEN e ELSE s[j-1]
  <2>1. /\ r \in Seq(S) /\ Len(r) = n + Len(b)
        /\ \A j \in 1 .. n + Len(b) : r[j] = IF j <= n THEN (a \o <<e>>)[j] ELSE b[j - n]
    <3>. DEFINE c == a \o <<e>>
    <3>1. r = c \o b /\ c \in Seq(S) /\ Len(c) = n
      BY <1>3, <1>5
    <3>. HIDE DEF c
    <3>2. /\ c \o b \in Seq(S) /\ Len(c \o b) = Len(c) + Len(b)
          /\ \A j \in 1 .. Len(c) + Len(b) :
                (c \o b)[j] = IF j <= Len(c) THEN c[j] ELSE b[j - Len(c)]
      BY <1>2, <3>1, ConcatProperties
    <3>. QED
      BY <3>1, <3>2 DEF c
  <2>. QED
    BY <2>1, <1>1, <1>2, <1>5
<1>. QED
  BY <1>6 DEF r

\* An insertion into a list that does not hold the node.
LEMMA InsertAtList ==
  ASSUME NEW S, NEW s \in Seq(S), NEW e \in S, IsInjective(s), e \notin Range(s),
         NEW n \in 1 .. Len(s) + 1
  PROVE  /\ InsertAt(s, n, e) \in Seq(S)
         /\ IsInjective(InsertAt(s, n, e))
         /\ Range(InsertAt(s, n, e)) = Range(s) \cup {e}
<1>. DEFINE r == InsertAt(s, n, e)
<1>6. /\ r \in Seq(S) /\ Len(r) = Len(s) + 1
      /\ \A j \in 1 .. Len(s) + 1 :
            r[j] = IF j < n THEN s[j] ELSE IF j = n THEN e ELSE s[j-1]
  BY InsertAtElements
<1>. HIDE DEF r
<1>7. \A i \in 1 .. Len(s) : s[i] # e
  BY DEF Range
<1>8. IsInjective(r)
  <2>1. ASSUME NEW i \in 1 .. Len(r), NEW j \in 1 .. Len(r), r[i] = r[j]
        PROVE  i = j
    <3>. DEFINE f(x) == IF x < n THEN x ELSE x - 1
    <3>0. ASSUME NEW q \in 1 .. Len(r), q # n PROVE r[q] # e
      <4>1. CASE q < n
        BY <3>0, <4>1, <1>6, <1>7
      <4>2. CASE q > n
        <5>1. q - 1 \in 1 .. Len(s) /\ r[q] = s[q - 1]
          BY <4>2, <1>6
        <5>. QED
          BY <5>1, <1>7
      <4>. QED
        BY <3>0, <4>1, <4>2, <1>6
    <3>1. CASE i = n \/ j = n
      <4>1. r[n] = e /\ n \in 1 .. Len(r)
        BY <1>6
      <4>. QED
        BY <3>1, <2>1, <4>1, <3>0
    <3>2. CASE i # n /\ j # n
      <4>1. /\ f(i) \in 1 .. Len(s) /\ f(j) \in 1 .. Len(s)
            /\ s[f(i)] = r[i] /\ s[f(j)] = r[j]
        BY <3>2, <1>6
      <4>2. f(i) = f(j)
        BY <2>1, <4>1 DEF IsInjective
      <4>. QED
        BY <4>2, <3>2
    <3>. QED
      BY <3>1, <3>2
  <2>. QED
    BY <2>1, <1>6 DEF IsInjective
<1>9. Range(r) = Range(s) \cup {e}
  <2>1. ASSUME NEW i \in 1 .. Len(r) PROVE r[i] \in Range(s) \cup {e}
    <3>1. CASE i = n
      BY <3>1, <1>6
    <3>2. CASE i < n
      BY <3>2, <1>6 DEF Range
    <3>3. CASE i > n
      <4>1. i - 1 \in DOMAIN s /\ r[i] = s[i-1]
        BY <3>3, <1>6
      <4>. QED
        BY <4>1 DEF Range
    <3>. QED
      BY <3>1, <3>2, <3>3
  <2>2. ASSUME NEW i \in 1 .. Len(s) PROVE s[i] \in Range(r)
    <3>1. CASE i < n
      BY <3>1, <1>6 DEF Range
    <3>2. CASE i >= n
      <4>1. i + 1 \in DOMAIN r /\ r[i+1] = s[i]
        BY <3>2, <1>6
      <4>. QED
        BY <4>1 DEF Range
    <3>. QED
      BY <3>1, <3>2
  <2>3. e \in Range(r)
    BY <1>6 DEF Range
  <2>4. Range(r) \subseteq Range(s) \cup {e}
    BY <1>6, <2>1 DEF Range
  <2>5. Range(s) \subseteq Range(r)
    BY <2>2 DEF Range
  <2>. QED
    BY <2>3, <2>4, <2>5
<1>. QED
  BY <1>6, <1>8, <1>9 DEF r

\* A list is empty when nothing is in it; its head is in it.
LEMMA ListRange ==
  ASSUME NEW S, NEW s \in Seq(S)
  PROVE  /\ Range(s) \in SUBSET S
         /\ s # << >> <=> Range(s) # {}
         /\ s # << >> => Head(s) \in Range(s)
BY DEF Range

-----------------------------------------------------------------------------
(* Tick counts. *)

\* The counter is a remainder, and near the range it wraps once.
LEMMA Wrap ==
  ASSUME NEW n \in Int, - TickMod <= n, n < 2 * TickMod
  PROVE  /\ n < 0 => n % TickMod = n + TickMod
         /\ n >= 0 /\ n < TickMod => n % TickMod = n
         /\ n >= TickMod => n % TickMod = n - TickMod
<1>1. TickMod \in Nat \ {0}
  BY TimersAssumption
<1>. DEFINE M == TickMod
<1>. HIDE DEF M
<1>2. M \in Nat \ {0} /\ - M <= n /\ n < 2 * M
  BY <1>1 DEF M
<1>3. /\ n < 0 => n % M = n + M
      /\ n >= 0 /\ n < M => n % M = n
      /\ n >= M => n % M = n - M
  BY <1>2
<1>. QED
  BY <1>3 DEF M

\* The numbers the comparisons are made of.
LEMMA Numbers ==
  /\ TickMod \in Nat \ {0} /\ MaxDelay \in Nat /\ Half \in Nat /\ Back = MaxDelay + 1
  /\ 2 * Half <= TickMod - 1 /\ TickMod - 1 <= 2 * Half + 1
  /\ \A time \in Times : time \in Nat /\ time + Back < Half
<1>1. /\ TickMod \in Nat \ {0} /\ MaxDelay \in Nat
      /\ \A time \in Times : time \in Nat /\ time + MaxDelay + 1 < RT_TICK_MAX \div 2
  BY TimersAssumption
<1>. DEFINE r == TickMod - 1
<1>2. r \in Nat /\ r = TickMod - 1
  BY <1>1
<1>. HIDE DEF r
<1>3. r \div 2 \in Nat /\ 2 * (r \div 2) <= r /\ r <= 2 * (r \div 2) + 1
  BY <1>2
<1>4. Half = r \div 2
  BY DEF r, Half, RT_TICK_MAX
<1>5. \A time \in Times : time \in Nat /\ time + Back < Half
  BY <1>1 DEF Half, Back
<1>. QED
  BY <1>1, <1>2, <1>3, <1>4, <1>5 DEF Back

\* What the code computes with two counts, in terms of how far ahead they are.
LEMMA Compare ==
  ASSUME NEW k \in 0 .. TickMod - 1, NEW a \in 0 .. TickMod - 1, Times # {},
         Ahead(a, k) < Half
  PROVE  /\ Ahead(a, k) \in Nat
         /\ NotBefore(k, a) <=> Ahead(a, k) <= Back
         /\ (a - k) % TickMod < Half <=> Ahead(a, k) >= Back
         /\ Ahead(a, k) >= Back => (a - k) % TickMod = Ahead(a, k) - Back
         /\ Ahead(a, k) >= 1 => Ahead(a, (k + 1) % TickMod) = Ahead(a, k) - 1
         /\ \A b \in 0 .. TickMod - 1 :
               Ahead(b, k) < Half => (NotBefore(b, a) <=> Ahead(b, k) >= Ahead(a, k))
<1>. DEFINE M == TickMod
            W(n) == n % TickMod
<1>0. /\ M \in Nat \ {0} /\ Half \in Nat /\ Back \in Nat \ {0} /\ 2 * Half <= M - 1
      /\ Back < Half
  BY Numbers
<1>1. \A n \in Int : - M <= n /\ n < 2 * M =>
         /\ n < 0 => W(n) = n + M
         /\ n >= 0 /\ n < M => W(n) = n
         /\ n >= M => W(n) = n - M
  BY Wrap
<1>2. /\ a \in 0 .. M - 1 /\ k \in 0 .. M - 1 /\ W(a - k + Back) < Half
      /\ \A b, c : Ahead(b, c) = W(b - c + Back)
      /\ \A b, c : NotBefore(b, c) <=> W(b - c) < Half
  BY DEF Ahead, NotBefore, Half
<1>3. (a - k) % TickMod = W(a - k) /\ (k + 1) % TickMod = W(k + 1) /\ TickMod = M
  OBVIOUS
<1>. HIDE DEF M, W
<1>4. a - k + Back \in Int /\ - M <= a - k + Back /\ a - k + Back < 2 * M
  BY <1>0, <1>2
<1>5. W(a - k + Back) \in Nat
  BY <1>0, <1>1, <1>2, <1>4
<1>6. W(k - a) < Half <=> W(a - k + Back) <= Back
  BY <1>0, <1>1, <1>2
<1>7. /\ W(a - k) < Half <=> W(a - k + Back) >= Back
      /\ W(a - k + Back) >= Back => W(a - k) = W(a - k + Back) - Back
  BY <1>0, <1>1, <1>2
<1>8. W(a - k + Back) >= 1 => W(a - W(k + 1) + Back) = W(a - k + Back) - 1
  <2>1. W(k + 1) \in 0 .. M - 1 /\ (W(k + 1) = k + 1 \/ W(k + 1) = k + 1 - M)
    BY <1>0, <1>1, <1>2
  <2>. QED
    BY <2>1, <1>0, <1>1, <1>2
<1>9. ASSUME NEW b \in 0 .. M - 1, W(b - k + Back) < Half
      PROVE  W(b - a) < Half <=> W(b - k + Back) >= W(a - k + Back)
  BY <1>9, <1>0, <1>1, <1>2
<1>. QED
  BY <1>2, <1>3, <1>5, <1>6, <1>7, <1>8, <1>9

\* The count that rt_timer_start computes, and the one it computed a while ago.
LEMMA StartAhead ==
  ASSUME NEW k \in 0 .. TickMod - 1, NEW time \in Times
  PROVE  /\ (k + time) % TickMod \in 0 .. TickMod - 1
         /\ Ahead((k + time) % TickMod, k) = time + Back
         /\ (k + time - ((k + time) % TickMod)) % TickMod = 0
         /\ \A a \in 0 .. TickMod - 1 :
               /\ (k + time - a) % TickMod \in Nat
               /\ (k + time - a) % TickMod <= MaxDelay =>
                     Ahead(a, k) = time + Back - ((k + time - a) % TickMod)
               /\ (k + time - a) % TickMod < MaxDelay =>
                     (((k + 1) % TickMod) + time - a) % TickMod <= MaxDelay
<1>. DEFINE M == TickMod
            W(n) == n % TickMod
<1>0. /\ M \in Nat \ {0} /\ Half \in Nat /\ MaxDelay \in Nat /\ Back = MaxDelay + 1
      /\ 2 * Half <= M - 1 /\ time \in Nat /\ time + Back < Half
  BY Numbers
<1>1. \A n \in Int : - M <= n /\ n < 2 * M =>
         /\ n < 0 => W(n) = n + M
         /\ n >= 0 /\ n < M => W(n) = n
         /\ n >= M => W(n) = n - M
  BY Wrap
<1>2. /\ k \in 0 .. M - 1
      /\ \A b, c : Ahead(b, c) = W(b - c + Back)
      /\ \A n : n % TickMod = W(n)
      /\ TickMod = M
  BY DEF Ahead
<1>. HIDE DEF M, W
<1>3. W(k + time) \in 0 .. M - 1 /\ (W(k + time) = k + time \/ W(k + time) = k + time - M)
  BY <1>0, <1>1, <1>2
<1>4. W(W(k + time) - k + Back) = time + Back
  <2>. DEFINE n == time + Back
  <2>1. /\ n \in Nat /\ n < M /\ W(n) = n
        /\ n - M \in Int /\ - M <= n - M /\ n - M < 0 /\ W(n - M) = n
    BY <1>0, <1>1
  <2>2. W(k + time) - k + Back = n \/ W(k + time) - k + Back = n - M
    BY <1>0, <1>2, <1>3
  <2>. QED
    BY <2>1, <2>2
<1>5. W(k + time - W(k + time)) = 0
  <2>1. k + time - W(k + time) = 0 \/ k + time - W(k + time) = M
    BY <1>0, <1>2, <1>3
  <2>2. W(0) = 0 /\ W(M) = 0
    BY <1>0, <1>1
  <2>. QED
    BY <2>1, <2>2
<1>6. ASSUME NEW a \in 0 .. M - 1
      PROVE  /\ W(k + time - a) \in Nat
             /\ W(k + time - a) <= MaxDelay => W(a - k + Back) = time + Back - W(k + time - a)
             /\ W(k + time - a) < MaxDelay => W(W(k + 1) + time - a) <= MaxDelay
  <2>1. W(k + 1) \in 0 .. M - 1 /\ (W(k + 1) = k + 1 \/ W(k + 1) = k + 1 - M)
    BY <1>0, <1>1, <1>2
  <2>2. W(k + time - a) \in Nat
    BY <1>0, <1>1, <1>2
  <2>3. ASSUME W(k + time - a) <= MaxDelay
        PROVE  W(a - k + Back) = time + Back - W(k + time - a)
    <3>. DEFINE d == k + time - a
                n == time + Back - d
    <3>1. /\ d \in Int /\ - M <= d /\ d < 2 * M
          /\ a - k + Back = n /\ n \in Int /\ - M <= n /\ n < 2 * M
      BY <1>0, <1>2
    <3>2. CASE d < 0
      <4>1. W(d) = d + M /\ n >= M
        BY <3>1, <3>2, <2>3, <1>0, <1>1
      <4>. QED
        BY <4>1, <3>1, <1>0, <1>1
    <3>3. CASE d >= 0 /\ d < M
      <4>1. W(d) = d /\ n >= 0 /\ n < M
        BY <3>1, <3>3, <2>3, <1>0, <1>1
      <4>. QED
        BY <4>1, <3>1, <1>0, <1>1
    <3>4. CASE d >= M
      <4>1. W(d) = d - M /\ n < 0
        BY <3>1, <3>4, <2>3, <1>0, <1>1
      <4>. QED
        BY <4>1, <3>1, <1>0, <1>1
    <3>. QED
      BY <3>1, <3>2, <3>3, <3>4, <1>0
  <2>4. W(k + time - a) < MaxDelay => W(W(k + 1) + time - a) <= MaxDelay
    BY <2>1, <1>0, <1>1, <1>2
  <2>. QED
    BY <2>2, <2>3, <2>4
<1>7. /\ W(k + time) \in 0 .. TickMod - 1
      /\ Ahead(W(k + time), k) = time + Back
      /\ W(k + time - W(k + time)) = 0
  BY <1>2, <1>3, <1>4, <1>5
<1>8. ASSUME NEW a \in 0 .. TickMod - 1
      PROVE  /\ W(k + time - a) \in Nat
             /\ W(k + time - a) <= MaxDelay => Ahead(a, k) = time + Back - W(k + time - a)
             /\ W(k + time - a) < MaxDelay => W(W(k + 1) + time - a) <= MaxDelay
  BY <1>2, <1>6
<1>9. /\ (k + time) % TickMod \in 0 .. TickMod - 1
      /\ Ahead((k + time) % TickMod, k) = time + Back
      /\ (k + time - ((k + time) % TickMod)) % TickMod = 0
  BY <1>7 DEF W
<1>10. ASSUME NEW a \in 0 .. TickMod - 1
       PROVE  /\ (k + time - a) % TickMod \in Nat
              /\ (k + time - a) % TickMod <= MaxDelay =>
                    Ahead(a, k) = time + Back - ((k + time - a) % TickMod)
              /\ (k + time - a) % TickMod < MaxDelay =>
                    (((k + 1) % TickMod) + time - a) % TickMod <= MaxDelay
  BY <1>8 DEF W
<1>. QED
  BY <1>9, <1>10

-----------------------------------------------------------------------------
(* The list. *)

InOrder(s) ==
    \A i, j \in DOMAIN s.list : i < j => Lead(s, s.list[i]) <= Lead(s, s.list[j])

ListOK(s) ==
    /\ s \in TimerState
    /\ IsInjective(s.list)
    /\ \A t \in Range(s.list) : Lead(s, t) < Half
    /\ InOrder(s)

\* What a state holds, field by field.
LEMMA StateFields ==
  ASSUME NEW s, ListOK(s)
  PROVE  /\ s.tick \in 0 .. TickMod - 1
         /\ s.list \in Seq(Timer) /\ IsInjective(s.list)
         /\ s.flags \in [Timer -> SUBSET Flags]
         /\ s.init_tick \in [Timer -> Times]
         /\ s.timeout_tick \in [Timer -> 0 .. TickMod - 1]
         /\ Range(s.list) \in SUBSET Timer
         /\ \A t \in Timer : Lead(s, t) \in Int
<1>1. /\ s.tick \in 0 .. TickMod - 1
      /\ s.list \in Seq(Timer) /\ IsInjective(s.list)
      /\ s.flags \in [Timer -> SUBSET Flags]
      /\ s.init_tick \in [Timer -> Times]
      /\ s.timeout_tick \in [Timer -> 0 .. TickMod - 1]
  BY DEF ListOK, TimerState
<1>2. Range(s.list) \in SUBSET Timer
  BY <1>1, ListRange
<1>3. ASSUME NEW t \in Timer PROVE Lead(s, t) \in Int
  <2>1. s.timeout_tick[t] \in Int /\ s.tick \in Int /\ Back \in Int
    BY <1>1, Numbers
  <2>2. TickMod \in Nat \ {0}
    BY Numbers
  <2>. DEFINE n == s.timeout_tick[t] - s.tick + Back
              M == TickMod
  <2>3. n \in Int /\ M \in Nat \ {0}
    BY <2>1, <2>2
  <2>. HIDE DEF n, M
  <2>4. n % M \in Int
    BY <2>3
  <2>. QED
    BY <2>4 DEF n, M, Lead, Ahead
<1>. QED
  BY <1>1, <1>2, <1>3

\* The comparison of the code is the order of the leads.
LEMMA CompareLeads ==
  ASSUME NEW s, ListOK(s), NEW t \in Timer, Lead(s, t) < Half,
         NEW u \in Timer, Lead(s, u) < Half
  PROVE  NotBefore(s.timeout_tick[u], s.timeout_tick[t]) <=> Lead(s, u) >= Lead(s, t)
<1>1. /\ s.tick \in 0 .. TickMod - 1
      /\ s.timeout_tick[t] \in 0 .. TickMod - 1
      /\ s.timeout_tick[u] \in 0 .. TickMod - 1
      /\ Times # {}
  BY StateFields
<1>. QED
  BY <1>1, Compare DEF Lead

\* The search of rt_timer_start ends behind all earlier timers and before all
\* later ones.
LEMMA PlaceOK ==
  ASSUME NEW s, ListOK(s), NEW t \in Timer, Lead(s, t) < Half
  PROVE  /\ Place(s, t) \in 1 .. Len(s.list) + 1
         /\ \A j \in DOMAIN s.list :
               /\ j < Place(s, t) => Lead(s, s.list[j]) <= Lead(s, t)
               /\ j >= Place(s, t) => Lead(s, t) <= Lead(s, s.list[j])
<1>. DEFINE n == Len(s.list)
            later == {i \in DOMAIN s.list :
                        NotBefore(s.timeout_tick[s.list[i]], s.timeout_tick[t])}
            L(i) == Lead(s, s.list[i])
<1>1. /\ s.list \in Seq(Timer) /\ DOMAIN s.list = 1 .. n /\ n \in Nat
      /\ Lead(s, t) \in Int
      /\ \A i \in DOMAIN s.list : s.list[i] \in Timer /\ L(i) \in Int /\ L(i) < Half
  <2>1. s.list \in Seq(Timer) /\ \A u \in Timer : Lead(s, u) \in Int
    BY StateFields
  <2>2. \A i \in DOMAIN s.list : s.list[i] \in Timer /\ s.list[i] \in Range(s.list)
    BY <2>1 DEF Range
  <2>. QED
    BY <2>1, <2>2 DEF ListOK
<1>2. \A i \in DOMAIN s.list : i \in later <=> L(i) >= Lead(s, t)
  BY <1>1, CompareLeads
<1>3. \A i, j \in DOMAIN s.list : i < j => L(i) <= L(j)
  BY DEF ListOK, InOrder
<1>4. Place(s, t) = IF later # {} THEN Min(later) ELSE n + 1
  BY DEF Place
<1>5. later \subseteq 1 .. n /\ later \subseteq 0 .. n
  BY <1>1
<1>. HIDE DEF later, L, n
<1>6. CASE later = {}
  <2>1. Place(s, t) = n + 1
    BY <1>4, <1>6
  <2>2. \A i \in 1 .. n : L(i) <= Lead(s, t)
    BY <1>1, <1>2, <1>6
  <2>. QED
    BY <1>1, <2>1, <2>2 DEF n, L
<1>7. CASE later # {}
  <2>. DEFINE p == Min(later)
  <2>1. p \in later /\ \A x \in later : p <= x
    BY <1>1, <1>5, <1>7, MinOfRange
  <2>. HIDE DEF p
  <2>2. Place(s, t) = p
    BY <1>4, <1>7 DEF p
  <2>3. p \in 1 .. n /\ L(p) >= Lead(s, t)
    BY <2>1, <1>1, <1>2, <1>5
  <2>4. ASSUME NEW j \in 1 .. n, j < p PROVE L(j) <= Lead(s, t)
    BY <2>1, <2>3, <2>4, <1>1, <1>2
  <2>5. ASSUME NEW j \in 1 .. n, j >= p PROVE Lead(s, t) <= L(j)
    <3>1. L(p) <= L(j)
      BY <2>3, <2>5, <1>1, <1>3
    <3>. QED
      BY <3>1, <2>3, <1>1
  <2>. QED
    BY <1>1, <2>2, <2>3, <2>4, <2>5 DEF n, L
<1>. QED
  BY <1>6, <1>7

\* rt_timer_start puts the timer where it belongs.
LEMMA LinkOK ==
  ASSUME NEW s, ListOK(s), NEW t \in Timer, t \notin Range(s.list), Lead(s, t) < Half
  PROVE  /\ ListOK(Link(s, t))
         /\ Range(Link(s, t).list) = Range(s.list) \cup {t}
         /\ Link(s, t).flags = [s.flags EXCEPT ![t] = @ \cup {"ACTIVATED"}]
         /\ Link(s, t).tick = s.tick
         /\ Link(s, t).init_tick = s.init_tick
         /\ Link(s, t).timeout_tick = s.timeout_tick
<1>. DEFINE r == Link(s, t)
            p == Place(s, t)
            l == InsertAt(s.list, p, t)
            f == [s.flags EXCEPT ![t] = @ \cup {"ACTIVATED"}]
<1>1. /\ s \in TimerState /\ s.list \in Seq(Timer) /\ IsInjective(s.list)
      /\ s.flags \in [Timer -> SUBSET Flags]
      /\ Range(s.list) \in SUBSET Timer
      /\ \A u \in Timer : Lead(s, u) \in Int
  BY StateFields DEF ListOK
<1>2. /\ p \in 1 .. Len(s.list) + 1
      /\ \A j \in DOMAIN s.list :
            /\ j < p => Lead(s, s.list[j]) <= Lead(s, t)
            /\ j >= p => Lead(s, t) <= Lead(s, s.list[j])
  BY PlaceOK
<1>. HIDE DEF p
<1>3. l \in Seq(Timer) /\ IsInjective(l) /\ Range(l) = Range(s.list) \cup {t}
  BY <1>1, <1>2, InsertAtList
<1>4. /\ Len(l) = Len(s.list) + 1
      /\ \A j \in 1 .. Len(s.list) + 1 :
            l[j] = IF j < p THEN s.list[j] ELSE IF j = p THEN t ELSE s.list[j-1]
  <2>. DEFINE q == s.list
  <2>1. q \in Seq(Timer) /\ p \in 1 .. Len(q) + 1
    BY <1>1, <1>2
  <2>. HIDE DEF q
  <2>2. /\ Len(InsertAt(q, p, t)) = Len(q) + 1
        /\ \A j \in 1 .. Len(q) + 1 :
              InsertAt(q, p, t)[j] = IF j < p THEN q[j] ELSE IF j = p THEN t ELSE q[j-1]
    BY <2>1, InsertAtElements
  <2>. QED
    BY <2>2 DEF q
<1>. HIDE DEF l
<1>5. f \in [Timer -> SUBSET Flags]
  BY <1>1 DEF Flags
<1>. HIDE DEF f
<1>6. r = [s EXCEPT !.list = l, !.flags = f]
  BY <1>1 DEF Link, p, l, f, TimerState
<1>. HIDE DEF r
<1>7. /\ r \in TimerState /\ r.list = l /\ r.flags = f /\ r.tick = s.tick
      /\ r.init_tick = s.init_tick /\ r.timeout_tick = s.timeout_tick
  BY <1>1, <1>3, <1>5, <1>6 DEF TimerState
<1>8. \A u : Lead(r, u) = Lead(s, u)
  BY <1>7 DEF Lead
<1>9. InOrder(r)
  <2>1. SUFFICES ASSUME NEW i \in 1 .. Len(s.list) + 1, NEW j \in 1 .. Len(s.list) + 1, i < j
                 PROVE  Lead(s, l[i]) <= Lead(s, l[j])
    BY <1>3, <1>4, <1>7, <1>8 DEF InOrder
  <2>. DEFINE a(x) == IF x < p THEN x ELSE x - 1
  <2>2. \A x, y \in DOMAIN s.list : x < y => Lead(s, s.list[x]) <= Lead(s, s.list[y])
    BY DEF ListOK, InOrder
  <2>3. CASE i # p /\ j # p
    <3>1. ASSUME NEW x \in 1 .. Len(s.list) + 1, x # p
          PROVE  a(x) \in DOMAIN s.list /\ l[x] = s.list[a(x)]
      BY <1>1, <1>2, <1>4, <3>1
    <3>2. a(i) < a(j)
      BY <1>1, <1>2, <2>1, <2>3
    <3>. HIDE DEF a
    <3>. QED
      BY <2>2, <2>3, <3>1, <3>2
  <2>4. CASE i = p
    <3>1. /\ a(j) \in DOMAIN s.list /\ a(j) >= p
          /\ l[i] = t /\ l[j] = s.list[a(j)]
      BY <1>1, <1>2, <1>4, <2>1, <2>4
    <3>. QED
      BY <1>2, <3>1
  <2>5. CASE j = p
    <3>1. /\ a(i) \in DOMAIN s.list /\ a(i) < p
          /\ l[j] = t /\ l[i] = s.list[a(i)]
      BY <1>1, <1>2, <1>4, <2>1, <2>5
    <3>. QED
      BY <1>2, <3>1
  <2>. QED
    BY <2>3, <2>4, <2>5
<1>10. \A u \in Range(l) : Lead(r, u) < Half
  BY <1>3, <1>8 DEF ListOK
<1>11. ListOK(r)
  BY <1>3, <1>7, <1>9, <1>10 DEF ListOK
<1>. QED
  BY <1>3, <1>7, <1>11 DEF r, f

\* A list whose elements another list has in the same order.
LEMMA SubListOK ==
  ASSUME NEW s, ListOK(s), NEW l \in Seq(Timer), IsInjective(l),
         Range(l) \subseteq Range(s.list),
         \A i, j \in DOMAIN l : i < j =>
            \E x, y \in DOMAIN s.list : x < y /\ s.list[x] = l[i] /\ s.list[y] = l[j]
  PROVE  ListOK([s EXCEPT !.list = l])
<1>. DEFINE r == [s EXCEPT !.list = l]
<1>1. /\ r \in TimerState /\ r.list = l
      /\ r.tick = s.tick /\ r.timeout_tick = s.timeout_tick
  BY DEF ListOK, TimerState
<1>. HIDE DEF r
<1>2. \A u : Lead(r, u) = Lead(s, u)
  BY <1>1 DEF Lead
<1>3. InOrder(r)
  BY <1>1, <1>2 DEF InOrder, ListOK
<1>4. \A u \in Range(l) : Lead(r, u) < Half
  BY <1>2 DEF ListOK
<1>5. ListOK(r)
  BY <1>1, <1>3, <1>4 DEF ListOK
<1>. QED
  BY <1>5 DEF r

\* rt_list_remove leaves the others in order.
LEMMA UnlinkOK ==
  ASSUME NEW s, ListOK(s), NEW t \in Timer
  PROVE  /\ ListOK([s EXCEPT !.list = RemoveFirst(@, t)])
         /\ Range(RemoveFirst(s.list, t)) = Range(s.list) \ {t}
<1>. DEFINE l == RemoveFirst(s.list, t)
            q == s.list
<1>1. q \in Seq(Timer) /\ IsInjective(q)
  BY StateFields
<1>. HIDE DEF q
<1>2. /\ RemoveFirst(q, t) \in Seq(Timer) /\ IsInjective(RemoveFirst(q, t))
      /\ Range(RemoveFirst(q, t)) = Range(q) \ {t}
  BY <1>1, RemoveFirstProperties
<1>3. l = RemoveFirst(q, t)
  BY DEF q
<1>. HIDE DEF l
<1>4. ASSUME NEW i \in DOMAIN l, NEW j \in DOMAIN l, i < j
      PROVE  \E x, y \in DOMAIN q : x < y /\ q[x] = l[i] /\ q[y] = l[j]
  <2>1. CASE l = q
    BY <1>4, <2>1
  <2>2. CASE \E k \in 1 .. Len(q) :
                /\ q[k] = t
                /\ l \in Seq(Timer)
                /\ Len(l) = Len(q) - 1
                /\ \A n \in 1 .. Len(q) - 1 : l[n] = IF n < k THEN q[n] ELSE q[n+1]
    <3>1. PICK k \in 1 .. Len(q) :
                /\ q[k] = t
                /\ l \in Seq(Timer)
                /\ Len(l) = Len(q) - 1
                /\ \A n \in 1 .. Len(q) - 1 : l[n] = IF n < k THEN q[n] ELSE q[n+1]
      BY <2>2
    <3>. DEFINE a(n) == IF n < k THEN n ELSE n + 1
    <3>2. i \in 1 .. Len(q) - 1 /\ j \in 1 .. Len(q) - 1 /\ Len(q) \in Nat
      BY <1>1, <1>4, <3>1
    <3>3. /\ a(i) \in DOMAIN q /\ a(j) \in DOMAIN q /\ a(i) < a(j)
          /\ q[a(i)] = l[i] /\ q[a(j)] = l[j]
      BY <1>1, <1>4, <3>1, <3>2
    <3>. QED
      BY <3>3
  <2>. QED
    BY <1>1, <1>3, <2>1, <2>2, RemoveFirstElements
<1>5. ListOK([s EXCEPT !.list = l])
  BY <1>2, <1>3, <1>4, SubListOK DEF q
<1>. QED
  BY <1>2, <1>3, <1>5 DEF l, q

\* rt_timer_check takes the head.
LEMMA PopOK ==
  ASSUME NEW s, ListOK(s), s.list # << >>
  PROVE  /\ ListOK([s EXCEPT !.list = Tail(@)])
         /\ Head(s.list) \in Timer /\ Head(s.list) \in Range(s.list)
         /\ Range(Tail(s.list)) = Range(s.list) \ {Head(s.list)}
         /\ \A u \in Range(s.list) : Lead(s, Head(s.list)) <= Lead(s, u)
<1>. DEFINE q == s.list
            l == Tail(q)
<1>1. q \in Seq(Timer) /\ IsInjective(q) /\ q # << >>
  BY StateFields
<1>0. /\ \A u \in Timer : Lead(s, u) \in Int
      /\ \A i, j \in DOMAIN q : i < j => Lead(s, q[i]) <= Lead(s, q[j])
  BY StateFields DEF ListOK, InOrder
<1>9. q = s.list
  OBVIOUS
<1>. HIDE DEF q
<1>2. /\ l \in Seq(Timer) /\ Len(l) = Len(q) - 1 /\ Len(q) \in Nat \ {0}
      /\ \A i \in 1 .. Len(q) - 1 : l[i] = q[i + 1]
      /\ Head(q) = q[1] /\ Head(q) \in Timer
  BY <1>1
<1>. HIDE DEF l
<1>3. IsInjective(l)
  <2>1. ASSUME NEW a \in 1 .. Len(l), NEW b \in 1 .. Len(l), l[a] = l[b]
        PROVE  a = b
    <3>1. /\ a + 1 \in DOMAIN q /\ b + 1 \in DOMAIN q
          /\ q[a + 1] = l[a] /\ q[b + 1] = l[b]
      BY <1>1, <1>2
    <3>2. a + 1 = b + 1
      BY <1>1, <2>1, <3>1 DEF IsInjective
    <3>. QED
      BY <3>2
  <2>. QED
    BY <1>2, <2>1 DEF IsInjective
<1>4. Range(l) = Range(q) \ {Head(q)}
  <2>1. ASSUME NEW i \in 1 .. Len(l) PROVE l[i] \in Range(q) \ {Head(q)}
    <3>1. i + 1 \in 1 .. Len(q) /\ i + 1 # 1 /\ 1 \in 1 .. Len(q) /\ l[i] = q[i + 1]
      BY <1>2
    <3>. QED
      BY <1>1, <1>2, <3>1 DEF Range, IsInjective
  <2>2. ASSUME NEW j \in 1 .. Len(q), q[j] # Head(q) PROVE q[j] \in Range(l)
    <3>1. j - 1 \in 1 .. Len(l) /\ l[j - 1] = q[j]
      BY <1>2, <2>2
    <3>. QED
      BY <1>2, <3>1 DEF Range
  <2>3. Range(l) \subseteq Range(q) \ {Head(q)}
    BY <1>2, <2>1 DEF Range
  <2>4. ASSUME NEW e \in Range(q), e # Head(q) PROVE e \in Range(l)
    <3>1. PICK j \in DOMAIN q : q[j] = e
      BY DEF Range
    <3>2. j \in 1 .. Len(q) /\ q[j] # Head(q)
      BY <1>2, <2>4, <3>1
    <3>. QED
      BY <2>2, <3>1, <3>2
  <2>. QED
    BY <2>3, <2>4
<1>5. ListOK([s EXCEPT !.list = l])
  <2>1. ASSUME NEW i \in DOMAIN l, NEW j \in DOMAIN l, i < j
        PROVE  \E x, y \in DOMAIN q : x < y /\ q[x] = l[i] /\ q[y] = l[j]
    <3>1. /\ i + 1 \in DOMAIN q /\ j + 1 \in DOMAIN q /\ i + 1 < j + 1
          /\ q[i + 1] = l[i] /\ q[j + 1] = l[j]
      BY <1>1, <1>2, <2>1
    <3>. QED
      BY <3>1
  <2>2. Range(l) \subseteq Range(q)
    BY <1>4
  <2>. QED
    BY <1>2, <1>3, <1>9, <2>1, <2>2, SubListOK
<1>6. ASSUME NEW u \in Range(q) PROVE Lead(s, Head(q)) <= Lead(s, u)
  <2>1. PICK i \in 1 .. Len(q) : q[i] = u
    BY <1>1 DEF Range
  <2>2. Lead(s, Head(q)) \in Int
    BY <1>0, <1>2
  <2>3. CASE i = 1
    BY <1>2, <2>1, <2>2, <2>3
  <2>4. CASE i # 1
    <3>1. 1 \in DOMAIN q /\ i \in DOMAIN q /\ 1 < i
      BY <1>1, <1>2, <2>4
    <3>. QED
      BY <1>0, <1>2, <2>1, <3>1
  <2>. QED
    BY <2>3, <2>4
<1>7. Head(q) \in Range(q)
  BY <1>1, ListRange
<1>. QED
  BY <1>2, <1>4, <1>5, <1>6, <1>7, <1>9 DEF l

-----------------------------------------------------------------------------
(* Starting and stopping. *)

Settled(s, t) == Active(s, t) <=> t \in Range(s.list)

IsPeriodic(s, t) == "PERIODIC" \in s.flags[t]

\* From s to r the timers of off have been stopped, those of on started, those
\* of both in this order, and nothing has happened to any other.
Effect(s, r, off, on) ==
    /\ ListOK(r)
    /\ r.tick = s.tick
    /\ r.init_tick = s.init_tick
    /\ Range(r.list) = (Range(s.list) \ off) \cup on
    /\ \A u \in on : r.timeout_tick[u] = (s.tick + s.init_tick[u]) % TickMod
    /\ \A u \in Timer \ (off \cup on) :
          /\ r.timeout_tick[u] = s.timeout_tick[u]
          /\ Active(r, u) <=> Active(s, u)
    /\ \A u \in off \cup on : Settled(r, u)
    /\ \A u \in Timer : IsPeriodic(r, u) <=> IsPeriodic(s, u)

\* What rt_timer_start does before it disables interrupts does not disturb the
\* list; the timer then is within the range of the comparison.
LEMMA TimeoutOK ==
  ASSUME NEW s, ListOK(s), NEW t \in Timer, t \notin Range(s.list)
  PROVE  /\ ListOK(Timeout(s, t))
         /\ Timeout(s, t).list = s.list /\ Timeout(s, t).flags = s.flags
         /\ Timeout(s, t).tick = s.tick /\ Timeout(s, t).init_tick = s.init_tick
         /\ Timeout(s, t).timeout_tick =
               [s.timeout_tick EXCEPT ![t] = (s.tick + s.init_tick[t]) % TickMod]
         /\ Lead(Timeout(s, t), t) = s.init_tick[t] + Back
         /\ Lead(Timeout(s, t), t) < Half
<1>. DEFINE r == Timeout(s, t)
            a == (s.tick + s.init_tick[t]) % TickMod
<1>1. /\ s \in TimerState
      /\ s.tick \in 0 .. TickMod - 1
      /\ s.init_tick[t] \in Times
      /\ s.timeout_tick \in [Timer -> 0 .. TickMod - 1]
      /\ Range(s.list) \in SUBSET Timer
  BY StateFields DEF ListOK
<1>2. a \in 0 .. TickMod - 1 /\ Ahead(a, s.tick) = s.init_tick[t] + Back
  BY <1>1, StartAhead
<1>3. r = [s EXCEPT !.timeout_tick = [s.timeout_tick EXCEPT ![t] = a]]
  BY <1>1 DEF Timeout, TimerState
<1>. HIDE DEF r, a
<1>4. /\ r \in TimerState
      /\ r.list = s.list /\ r.flags = s.flags
      /\ r.tick = s.tick /\ r.init_tick = s.init_tick
      /\ r.timeout_tick = [s.timeout_tick EXCEPT ![t] = a]
  BY <1>1, <1>2, <1>3 DEF TimerState
<1>5. \A u \in Range(s.list) : Lead(r, u) = Lead(s, u)
  BY <1>1, <1>4 DEF Lead
<1>6. \A i \in DOMAIN s.list : s.list[i] \in Range(s.list)
  BY DEF Range
<1>7. InOrder(r)
  BY <1>4, <1>5, <1>6 DEF ListOK, InOrder
<1>8. ListOK(r)
  BY <1>4, <1>5, <1>7 DEF ListOK
<1>9. Lead(r, t) = s.init_tick[t] + Back
  BY <1>1, <1>2, <1>4 DEF Lead
<1>10. s.init_tick[t] + Back < Half
  BY <1>1, Numbers
<1>. QED
  BY <1>4, <1>8, <1>9, <1>10 DEF r, a

\* rt_timer_start in the tick interrupt starts the timer or finds it started.
LEMMA StartNowOK ==
  ASSUME NEW s, ListOK(s), NEW t \in Timer, Settled(s, t)
  PROVE  \E on \in SUBSET {t} : Effect(s, StartNow(s, t), {}, on) /\ Active(StartNow(s, t), t)
<1>1. CASE Active(s, t)
  <2>1. StartNow(s, t) = s
    BY <1>1 DEF StartNow
  <2>2. Effect(s, s, {}, {})
    BY DEF Effect
  <2>. QED
    BY <1>1, <2>1, <2>2
<1>2. CASE ~ Active(s, t)
  <2>1. t \notin Range(s.list)
    BY <1>2 DEF Settled
  <2>. DEFINE q == Timeout(s, t)
              r == Link(q, t)
  <2>2. /\ ListOK(q) /\ Lead(q, t) < Half
        /\ q.list = s.list /\ q.flags = s.flags
        /\ q.tick = s.tick /\ q.init_tick = s.init_tick
        /\ q.timeout_tick = [s.timeout_tick EXCEPT ![t] = (s.tick + s.init_tick[t]) % TickMod]
    BY <2>1, TimeoutOK
  <2>. HIDE DEF q
  <2>3. /\ ListOK(r) /\ Range(r.list) = Range(q.list) \cup {t}
        /\ r.flags = [q.flags EXCEPT ![t] = @ \cup {"ACTIVATED"}]
        /\ r.tick = q.tick /\ r.init_tick = q.init_tick /\ r.timeout_tick = q.timeout_tick
    BY <2>1, <2>2, LinkOK
  <2>. HIDE DEF r
  <2>4. s.flags \in [Timer -> SUBSET Flags] /\ s.timeout_tick \in [Timer -> 0 .. TickMod - 1]
    BY StateFields
  <2>5. /\ Active(r, t) /\ \A u \in Timer \ {t} : Active(r, u) <=> Active(s, u)
        /\ \A u \in Timer : IsPeriodic(r, u) <=> IsPeriodic(s, u)
    BY <2>2, <2>3, <2>4 DEF Active, IsPeriodic
  <2>6. Effect(s, r, {}, {t})
    BY <2>2, <2>3, <2>4, <2>5 DEF Effect, Settled
  <2>7. StartNow(s, t) = r
    BY <1>2 DEF StartNow, q, r
  <2>. QED
    BY <2>5, <2>6, <2>7
<1>. QED
  BY <1>1, <1>2

\* rt_timer_stop in the tick interrupt leaves the timer stopped.
LEMMA StopNowOK ==
  ASSUME NEW s, ListOK(s), NEW t \in Timer, Settled(s, t)
  PROVE  Effect(s, StopNow(s, t), {t}, {})
<1>1. CASE ~ Active(s, t)
  <2>1. StopNow(s, t) = s /\ t \notin Range(s.list)
    BY <1>1 DEF StopNow, Settled
  <2>. QED
    BY <2>1 DEF Effect
<1>2. CASE Active(s, t)
  <2>. DEFINE q == [s EXCEPT !.list = RemoveFirst(@, t)]
              f == [s.flags EXCEPT ![t] = @ \ {"ACTIVATED"}]
              r == StopNow(s, t)
  <2>1. /\ ListOK(q) /\ Range(RemoveFirst(s.list, t)) = Range(s.list) \ {t}
    BY UnlinkOK
  <2>2. s \in TimerState /\ s.flags \in [Timer -> SUBSET Flags]
    BY StateFields DEF ListOK
  <2>3. q.list = RemoveFirst(s.list, t)
    BY <2>2 DEF TimerState
  <2>4. r = [q EXCEPT !.flags = f]
    BY <1>2, <2>2 DEF StopNow, TimerState
  <2>5. /\ q.tick = s.tick /\ q.init_tick = s.init_tick /\ q.timeout_tick = s.timeout_tick
    BY <2>2 DEF TimerState
  <2>6. /\ f \in [Timer -> SUBSET Flags] /\ "ACTIVATED" \notin f[t]
        /\ \A u \in Timer \ {t} : f[u] = s.flags[u]
        /\ "PERIODIC" \in f[t] <=> "PERIODIC" \in s.flags[t]
    BY <2>2
  <2>. HIDE DEF q, f, r
  <2>7. /\ r \in TimerState /\ r.list = q.list /\ r.flags = f
        /\ r.tick = q.tick /\ r.init_tick = q.init_tick /\ r.timeout_tick = q.timeout_tick
    BY <2>1, <2>4, <2>6 DEF ListOK, TimerState
  <2>8. ListOK(r)
    BY <2>1, <2>7 DEF ListOK, InOrder, Lead
  <2>9. ~ Active(r, t) /\ \A u \in Timer \ {t} : Active(r, u) <=> Active(s, u)
    BY <2>6, <2>7 DEF Active
  <2>11. ASSUME NEW u \in Timer PROVE IsPeriodic(r, u) <=> IsPeriodic(s, u)
    <3>1. CASE u = t
      BY <2>6, <2>7, <3>1 DEF IsPeriodic
    <3>2. CASE u # t
      BY <2>6, <2>7, <3>2 DEF IsPeriodic
    <3>. QED
      BY <3>1, <3>2
  <2>10. Effect(s, r, {t}, {})
    BY <2>1, <2>3, <2>5, <2>7, <2>8, <2>9, <2>11 DEF Effect, Settled
  <2>. QED
    BY <2>10 DEF r
<1>. QED
  BY <1>1, <1>2

\* One effect after another.
LEMMA EffectThenEffect ==
  ASSUME NEW s, NEW r, NEW q,
         NEW off1 \in SUBSET Timer, NEW on1 \in SUBSET Timer, Effect(s, r, off1, on1),
         NEW off2 \in SUBSET Timer, NEW on2 \in SUBSET Timer, Effect(r, q, off2, on2)
  PROVE  Effect(s, q, off1 \cup off2, (on1 \ off2) \cup on2)
<1>. DEFINE off == off1 \cup off2
            on  == (on1 \ off2) \cup on2
<1>1. /\ ListOK(q) /\ q.tick = s.tick /\ q.init_tick = s.init_tick
      /\ Range(q.list) = (Range(s.list) \ off) \cup on
  BY DEF Effect
<1>2. \A u \in on : q.timeout_tick[u] = (s.tick + s.init_tick[u]) % TickMod
  BY DEF Effect
<1>3. ASSUME NEW u \in Timer \ (off \cup on)
      PROVE  /\ q.timeout_tick[u] = s.timeout_tick[u]
             /\ Active(q, u) <=> Active(s, u)
  <2>1. u \in Timer \ (off1 \cup on1) /\ u \in Timer \ (off2 \cup on2)
    OBVIOUS
  <2>. QED
    BY <2>1 DEF Effect
<1>4. ASSUME NEW u \in off \cup on
      PROVE  Settled(q, u)
  <2>1. CASE u \in off2 \cup on2
    BY <2>1 DEF Effect
  <2>2. CASE u \notin off2 \cup on2
    <3>1. Settled(r, u) /\ (Active(q, u) <=> Active(r, u))
      BY <2>2 DEF Effect
    <3>2. u \in Range(q.list) <=> u \in Range(r.list)
      BY <2>2 DEF Effect
    <3>. QED
      BY <3>1, <3>2 DEF Settled
  <2>. QED
    BY <2>1, <2>2
<1>. QED
  BY <1>1, <1>2, <1>3, <1>4 DEF Effect

\* The flags of timer t are written.
WithFlags(s, t, f) == [s EXCEPT !.flags[t] = f]

\* They do not matter to the list, nor to the other timers.
FlagsOnly(s, r, t, f) ==
    /\ ListOK(r)
    /\ r.list = s.list /\ r.tick = s.tick
    /\ r.init_tick = s.init_tick /\ r.timeout_tick = s.timeout_tick
    /\ \A u : Lead(r, u) = Lead(s, u)
    /\ \A u \in Timer \ {t} : Active(r, u) <=> Active(s, u)
    /\ Active(r, t) <=> "ACTIVATED" \in f
    /\ \A u \in Timer \ {t} : IsPeriodic(r, u) <=> IsPeriodic(s, u)
    /\ IsPeriodic(r, t) <=> "PERIODIC" \in f

LEMMA FlagsOK ==
  ASSUME NEW s, ListOK(s), NEW t \in Timer, NEW f \in SUBSET Flags,
         NEW r, r = WithFlags(s, t, f)
  PROVE  FlagsOnly(s, r, t, f)
<1>. DEFINE g == [s.flags EXCEPT ![t] = f]
<1>1. s \in TimerState /\ s.flags \in [Timer -> SUBSET Flags]
  BY StateFields DEF ListOK
<1>2. /\ g \in [Timer -> SUBSET Flags] /\ g[t] = f
      /\ \A u \in Timer \ {t} : g[u] = s.flags[u]
  BY <1>1
<1>3. r = [s EXCEPT !.flags = g]
  BY <1>1 DEF TimerState, WithFlags
<1>4. r.flags = g
  BY <1>1, <1>3 DEF TimerState
<1>. HIDE DEF g
<1>5. /\ r \in TimerState /\ r.list = s.list /\ r.tick = s.tick
      /\ r.init_tick = s.init_tick /\ r.timeout_tick = s.timeout_tick
  BY <1>1, <1>2, <1>3 DEF TimerState
<1>6. \A u : Lead(r, u) = Lead(s, u)
  BY <1>5 DEF Lead
<1>7. ListOK(r)
  BY <1>5, <1>6 DEF ListOK, InOrder
<1>8. /\ \A u \in Timer \ {t} : Active(r, u) <=> Active(s, u)
      /\ Active(r, t) <=> "ACTIVATED" \in f
      /\ \A u \in Timer \ {t} : IsPeriodic(r, u) <=> IsPeriodic(s, u)
      /\ IsPeriodic(r, t) <=> "PERIODIC" \in f
  BY <1>2, <1>4 DEF Active, IsPeriodic
<1>. QED
  BY <1>5, <1>6, <1>7, <1>8 DEF FlagsOnly

\* The timeout function stops and starts timers of Inner[t].
LEMMA CallbacksOK ==
  ASSUME NEW s, ListOK(s), NEW t \in Timer, \A u \in Inner[t] : Settled(s, u),
         NEW r \in Callbacks(s, t)
  PROVE  \E off, on \in SUBSET Inner[t] : Effect(s, r, off, on)
<1>0. Inner[t] \in SUBSET Timer
  BY TimersAssumption
<1>1. CASE r = s
  <2>1. Effect(s, r, {}, {})
    BY <1>1 DEF Effect
  <2>. QED
    BY <2>1
<1>2. CASE \E u \in Inner[t] : r = StartNow(s, u)
  BY <1>0, <1>2, StartNowOK
<1>3. CASE \E u \in Inner[t] : r = StopNow(s, u)
  BY <1>0, <1>3, StopNowOK
<1>4. CASE \E u \in Inner[t] : r = StartNow(StopNow(s, u), u)
  <2>1. PICK u \in Inner[t] : r = StartNow(StopNow(s, u), u)
    BY <1>4
  <2>. DEFINE q == StopNow(s, u)
  <2>2. Effect(s, q, {u}, {})
    BY <1>0, StopNowOK
  <2>3. ListOK(q) /\ Settled(q, u)
    BY <2>2 DEF Effect
  <2>. HIDE DEF q
  <2>4. PICK on \in SUBSET {u} : Effect(q, StartNow(q, u), {}, on)
    BY <1>0, <2>3, StartNowOK
  <2>5. r = StartNow(q, u)
    BY <2>1 DEF q
  <2>6. Effect(s, r, {u} \cup {}, ({} \ {}) \cup on)
    BY <1>0, <2>2, <2>4, <2>5, EffectThenEffect
  <2>. QED
    BY <2>6
<1>. QED
  BY <1>1, <1>2, <1>3, <1>4 DEF Callbacks

\* A timer that has fired is started again or not active.
LEMMA RearmedOK ==
  ASSUME NEW s, ListOK(s), NEW t \in Timer, t \notin Range(s.list)
  PROVE  \E on \in SUBSET {t} :
            /\ Effect(s, Rearmed(s, t), {t}, on)
            /\ Active(s, t) /\ IsPeriodic(s, t) => t \in on
<1>. DEFINE f == s.flags[t] \ {"ACTIVATED"}
            q == WithFlags(s, t, f)
<1>1. f \in SUBSET Flags
  BY StateFields
<1>7. f = s.flags[t] \ {"ACTIVATED"}
  OBVIOUS
<1>. HIDE DEF f, q
<1>8. q = WithFlags(s, t, f)
  BY DEF q
<1>2. /\ ListOK(q)
      /\ q.list = s.list /\ q.tick = s.tick
      /\ q.init_tick = s.init_tick /\ q.timeout_tick = s.timeout_tick
      /\ \A u \in Timer \ {t} : Active(q, u) <=> Active(s, u)
      /\ Active(q, t) <=> "ACTIVATED" \in f
      /\ \A u \in Timer \ {t} : IsPeriodic(q, u) <=> IsPeriodic(s, u)
      /\ IsPeriodic(q, t) <=> "PERIODIC" \in f
  <2>1. FlagsOnly(s, q, t, f)
    BY <1>1, <1>8, FlagsOK
  <2>. QED
    BY <2>1 DEF FlagsOnly
<1>3. Effect(s, q, {t}, {}) /\ Settled(q, t)
  <2>1. \A u \in Timer : IsPeriodic(q, u) <=> IsPeriodic(s, u)
    BY <1>2, <1>7 DEF IsPeriodic
  <2>. QED
    BY <1>2, <1>7, <2>1 DEF Effect, Settled
<1>4. Rearmed(s, t) = IF {"PERIODIC", "ACTIVATED"} \subseteq s.flags[t] THEN StartNow(q, t) ELSE q
  BY DEF Rearmed, WithFlags, f, q
<1>5. CASE {"PERIODIC", "ACTIVATED"} \subseteq s.flags[t]
  <2>1. PICK on \in SUBSET {t} : Effect(q, StartNow(q, t), {}, on) /\ Active(StartNow(q, t), t)
    BY <1>2, <1>3, StartNowOK
  <2>2. Effect(s, StartNow(q, t), {t} \cup {}, ({} \ {}) \cup on)
    BY <1>3, <2>1, EffectThenEffect
  <2>3. t \in Range(StartNow(q, t).list) /\ t \notin Range(s.list)
    BY <2>1, <2>2 DEF Effect, Settled
  <2>4. t \in on
    BY <2>2, <2>3 DEF Effect
  <2>. QED
    BY <1>4, <1>5, <2>2, <2>4
<1>6. CASE ~ ({"PERIODIC", "ACTIVATED"} \subseteq s.flags[t])
  BY <1>3, <1>4, <1>6 DEF Active, IsPeriodic
<1>. QED
  BY <1>5, <1>6

-----------------------------------------------------------------------------
(* The invariant. *)

Operation == {"none", "starting", "stopping", "stopped", "setting"}

\* The timers whose flags say whether they are linked: a store of rt_timer_control
\* can make a one-shot timer active again that has fired since the load.
Told == Timer \ (Controlled \ Periodic)

\* What a thread has loaded is what the flags are, but for one-shot timers that
\* have fired since.
LoadedOK(t) ==
    /\ t \in Periodic => IsPeriodic(m, t)
    /\ op[t] = "setting" =>
          /\ t \in Controlled
          /\ t \in Periodic => "PERIODIC" \in loaded[t]
          /\ Active(m, t) => "ACTIVATED" \in loaded[t]
          /\ t \in Told => ("ACTIVATED" \in loaded[t] <=> Active(m, t))

\* Where the thread that operates on t is, and what it has left behind.  The
\* tick interrupt may stop a timer before the thread that is stopping it does.
OperationOK(t) ==
    /\ op[t] \in {"none", "stopping", "setting"} =>
          /\ t \in Range(m.list) => Active(m, t)
          /\ t \in Told => Settled(m, t)
    /\ op[t] = "starting" => ~ Active(m, t) /\ t \notin Range(m.list) /\ Delay(t) <= MaxDelay
    /\ op[t] = "stopped" => t \notin Range(m.list)
    /\ t \notin Client => op[t] = "none"
    /\ LoadedOK(t)

Inv ==
    /\ ListOK(m)
    /\ op \in [Timer -> Operation]
    /\ checking \in BOOLEAN
    /\ \A t \in Timer : OperationOK(t)
    /\ loaded \in [Timer -> SUBSET Flags]
    /\ ~ checking => \A t \in Range(m.list) : Lead(m, t) >= 1

\* The turn of the loop: the head is taken, its timeout function called, and
\* it is started again or not.
LEMMA FireEffect ==
  ASSUME Inv, m.list # << >>, NEW t, t = Head(m.list),
         NEW s \in Callbacks([m EXCEPT !.list = Tail(@)], t)
  PROVE  \E off, on \in SUBSET (Inner[t] \cup {t}) :
            /\ t \in off
            /\ Effect(m, Rearmed(s, t), off, on)
            /\ Active(m, t) /\ IsPeriodic(m, t) => t \in on
<1>. DEFINE p == [m EXCEPT !.list = Tail(@)]
<1>0. t \in Timer /\ t \in Range(m.list) /\ ListOK(m)
  BY PopOK DEF Inv
<1>1. Inner[t] \in SUBSET Timer /\ t \notin Inner[t] /\ Inner[t] \cap Client = {}
  BY <1>0, TimersAssumption
<1>2. ListOK(p) /\ Range(Tail(m.list)) = Range(m.list) \ {t}
  BY <1>0, PopOK
<1>3. /\ p.list = Tail(m.list) /\ p.tick = m.tick /\ p.flags = m.flags
      /\ p.init_tick = m.init_tick /\ p.timeout_tick = m.timeout_tick
  BY <1>0 DEF ListOK, TimerState
<1>4. \A u \in Inner[t] : Settled(p, u)
  <2>1. ASSUME NEW u \in Inner[t] PROVE Settled(m, u) /\ u # t /\ u \in Timer
    BY <1>1, TimersAssumption DEF Inv, OperationOK, Told
  <2>. QED
    BY <1>2, <1>3, <2>1 DEF Settled, Active
<1>. HIDE DEF p
<1>5. PICK off1, on1 \in SUBSET Inner[t] : Effect(p, s, off1, on1)
  BY <1>0, <1>2, <1>4, CallbacksOK DEF p
<1>6. ListOK(s) /\ t \notin Range(s.list)
  BY <1>1, <1>2, <1>3, <1>5 DEF Effect
<1>7. PICK on2 \in SUBSET {t} :
         /\ Effect(s, Rearmed(s, t), {t}, on2)
         /\ Active(s, t) /\ IsPeriodic(s, t) => t \in on2
  BY <1>0, <1>6, RearmedOK
<1>. DEFINE r == Rearmed(s, t)
            off == off1 \cup {t}
            on  == (on1 \ {t}) \cup on2
<1>8. Effect(p, r, off, on)
  <2>1. off1 \in SUBSET Timer /\ on1 \in SUBSET Timer /\ {t} \in SUBSET Timer /\ on2 \in SUBSET Timer
    BY <1>0, <1>1
  <2>. QED
    BY <1>5, <1>7, <2>1, EffectThenEffect
<1>. HIDE DEF r
<1>9. Effect(m, r, off, on)
  BY <1>2, <1>3, <1>8 DEF Effect, Active, IsPeriodic
<1>10. Active(m, t) /\ IsPeriodic(m, t) => t \in on
  <2>1. Active(p, t) /\ IsPeriodic(p, t) => Active(s, t) /\ IsPeriodic(s, t)
    BY <1>0, <1>1, <1>5 DEF Effect
  <2>. QED
    BY <1>3, <1>7, <2>1 DEF Active, IsPeriodic
<1>. QED
  BY <1>1, <1>9, <1>10 DEF r

\* The initial state has an empty list and nothing active.
LEMMA InitOK == Init => Inv
<1>. SUFFICES ASSUME Init PROVE Inv
  OBVIOUS
<1>1. PICK init_tick \in [Timer -> Times] :
          m = [tick |-> 0,
               list |-> << >>,
               flags |-> [t \in Timer |-> IF t \in Periodic THEN {"PERIODIC"} ELSE {}],
               init_tick |-> init_tick,
               timeout_tick |-> [t \in Timer |-> 0]]
  BY DEF Init
<1>2. 0 \in 0 .. TickMod - 1
  BY Numbers
<1>3. m \in TimerState
  BY <1>1, <1>2 DEF TimerState, Flags
<1>4. m.list = << >> /\ Range(m.list) = {} /\ \A t \in Timer : ~ Active(m, t)
  BY <1>1 DEF Range, Active
<1>5. ListOK(m)
  BY <1>3, <1>4 DEF ListOK, InOrder, IsInjective
<1>6. op = [t \in Timer |-> "none"] /\ loaded = [t \in Timer |-> {}] /\ checking = FALSE
  BY DEF Init
<1>7. \A t \in Timer : t \in Periodic => IsPeriodic(m, t)
  BY <1>1 DEF IsPeriodic
<1>. QED
  BY <1>4, <1>5, <1>6, <1>7 DEF Inv, OperationOK, LoadedOK, Operation, Settled

\* What a step does not touch stays as it was.
LEMMA OthersOK ==
  ASSUME Inv, NEW t \in Timer,
         m'.tick = m.tick, m'.init_tick[t] = m.init_tick[t],
         m'.timeout_tick[t] = m.timeout_tick[t],
         t \in Range(m'.list) <=> t \in Range(m.list),
         Active(m', t) <=> Active(m, t),
         IsPeriodic(m', t) <=> IsPeriodic(m, t),
         op'[t] = op[t], loaded'[t] = loaded[t]
  PROVE  OperationOK(t)'
<1>1. OperationOK(t)
  BY DEF Inv
<1>2. Delay(t)' = Delay(t)
  BY DEF Delay
<1>. QED
  BY <1>1, <1>2 DEF OperationOK, LoadedOK, Settled

LEMMA StartBeginOK ==
  ASSUME Inv, NEW t \in Client, StartBegin(t)
  PROVE  Inv'
<1>1. t \in Timer /\ ListOK(m) /\ op \in [Timer -> Operation] /\ checking = FALSE
  BY TimersAssumption DEF Inv, StartBegin
<1>2. op[t] = "none" /\ ~ Active(m, t) /\ t \notin Range(m.list)
  BY <1>1 DEF Inv, OperationOK, StartBegin
<1>3. /\ m' = Timeout(m, t) /\ checking' = FALSE /\ loaded' = loaded
      /\ op' = [op EXCEPT ![t] = "starting"]
  BY <1>1 DEF StartBegin, Goto
<1>4. /\ ListOK(m')
      /\ m'.list = m.list /\ m'.flags = m.flags
      /\ m'.tick = m.tick /\ m'.init_tick = m.init_tick
      /\ m'.timeout_tick = [m.timeout_tick EXCEPT ![t] = (m.tick + m.init_tick[t]) % TickMod]
  BY <1>1, <1>2, <1>3, TimeoutOK
<1>5. /\ m.timeout_tick \in [Timer -> 0 .. TickMod - 1] /\ m.tick \in 0 .. TickMod - 1
      /\ m.init_tick[t] \in Times /\ Range(m.list) \in SUBSET Timer
  BY <1>1, StateFields
<1>6. ASSUME NEW u \in Timer PROVE OperationOK(u)'
  <2>1. CASE u = t
    <3>1. Delay(t)' = 0
      BY <1>1, <1>4, <1>5, StartAhead DEF Delay
    <3>2. Delay(t)' <= MaxDelay
      BY <3>1, Numbers
    <3>3. op'[t] = "starting" /\ ~ Active(m', t) /\ t \notin Range(m'.list)
      BY <1>1, <1>2, <1>3, <1>4 DEF Active
    <3>. QED
      BY <1>1, <1>4, <2>1, <3>2, <3>3 DEF Inv, OperationOK, LoadedOK, IsPeriodic
  <2>2. CASE u # t
    <3>1. /\ op'[u] = op[u] /\ m'.timeout_tick[u] = m.timeout_tick[u]
          /\ Active(m', u) <=> Active(m, u)
          /\ IsPeriodic(m', u) <=> IsPeriodic(m, u)
      BY <1>1, <1>3, <1>4, <1>5, <2>2 DEF Active, IsPeriodic
    <3>. QED
      BY <1>3, <1>4, <3>1, OthersOK
  <2>. QED
    BY <2>1, <2>2
<1>7. \A u \in Range(m'.list) : Lead(m', u) >= 1
  <2>1. \A u \in Range(m.list) : Lead(m', u) = Lead(m, u)
    BY <1>2, <1>4, <1>5 DEF Lead
  <2>. QED
    BY <1>1, <1>4, <2>1 DEF Inv
<1>. QED
  BY <1>1, <1>3, <1>4, <1>6, <1>7 DEF Inv, Operation

\* rt_timer_start has been held up for MaxDelay ticks at most: its timer still
\* is within the range of the comparison.
LEMMA StartingLead ==
  ASSUME Inv, NEW t \in Timer, op[t] = "starting"
  PROVE  /\ Lead(m, t) = m.init_tick[t] + Back - Delay(t)
         /\ Lead(m, t) \in Int /\ Lead(m, t) >= 1 /\ Lead(m, t) < Half
<1>1. Delay(t) <= MaxDelay /\ ListOK(m)
  BY DEF Inv, OperationOK
<1>2. /\ m.tick \in 0 .. TickMod - 1 /\ m.init_tick[t] \in Times
      /\ m.timeout_tick[t] \in 0 .. TickMod - 1
  BY <1>1, StateFields
<1>3. Delay(t) \in Nat /\ Lead(m, t) = m.init_tick[t] + Back - Delay(t)
  BY <1>1, <1>2, StartAhead DEF Delay, Lead
<1>4. /\ MaxDelay \in Nat /\ Half \in Nat /\ Back = MaxDelay + 1
      /\ m.init_tick[t] \in Nat /\ m.init_tick[t] + Back < Half
  BY <1>2, Numbers
<1>. QED
  BY <1>1, <1>3, <1>4

LEMMA StartEndOK ==
  ASSUME Inv, NEW t \in Client, StartEnd(t)
  PROVE  Inv'
<1>1. t \in Timer /\ ListOK(m) /\ op \in [Timer -> Operation] /\ checking = FALSE
  BY TimersAssumption DEF Inv, StartEnd
<1>2. op[t] = "starting" /\ t \notin Range(m.list)
  BY <1>1 DEF Inv, OperationOK, StartEnd
<1>3. /\ m' = Link(m, t) /\ checking' = FALSE /\ loaded' = loaded
      /\ op' = [op EXCEPT ![t] = "none"]
  BY <1>1 DEF StartEnd, Goto
<1>4. Lead(m, t) >= 1 /\ Lead(m, t) < Half
  BY <1>1, <1>2, StartingLead
<1>5. /\ ListOK(m') /\ Range(m'.list) = Range(m.list) \cup {t}
      /\ m'.flags = [m.flags EXCEPT ![t] = @ \cup {"ACTIVATED"}]
      /\ m'.tick = m.tick /\ m'.init_tick = m.init_tick /\ m'.timeout_tick = m.timeout_tick
  BY <1>1, <1>2, <1>3, <1>4, LinkOK
<1>6. m.flags \in [Timer -> SUBSET Flags]
  BY <1>1, StateFields
<1>7. ASSUME NEW u \in Timer PROVE OperationOK(u)'
  <2>1. CASE u = t
    <3>1. op'[t] = "none" /\ Active(m', t) /\ t \in Range(m'.list)
      BY <1>1, <1>3, <1>5, <1>6 DEF Active
    <3>2. IsPeriodic(m', t) <=> IsPeriodic(m, t)
      BY <1>1, <1>5, <1>6 DEF IsPeriodic
    <3>. QED
      BY <1>1, <2>1, <3>1, <3>2 DEF Inv, OperationOK, LoadedOK, Settled
  <2>2. CASE u # t
    <3>1. /\ op'[u] = op[u] /\ (Active(m', u) <=> Active(m, u))
          /\ IsPeriodic(m', u) <=> IsPeriodic(m, u)
          /\ u \in Range(m'.list) <=> u \in Range(m.list)
      BY <1>1, <1>3, <1>5, <1>6, <2>2 DEF Active, IsPeriodic
    <3>. QED
      BY <1>3, <1>5, <3>1, OthersOK
  <2>. QED
    BY <2>1, <2>2
<1>8. \A u \in Range(m'.list) : Lead(m', u) >= 1
  <2>1. \A u : Lead(m', u) = Lead(m, u)
    BY <1>5 DEF Lead
  <2>. QED
    BY <1>1, <1>4, <1>5, <2>1 DEF Inv
<1>. QED
  BY <1>1, <1>3, <1>5, <1>7, <1>8 DEF Inv, Operation

LEMMA StopBeginOK ==
  ASSUME Inv, NEW t \in Client, StopBegin(t)
  PROVE  Inv'
<1>1. t \in Timer /\ op \in [Timer -> Operation] /\ op[t] = "none"
  BY TimersAssumption DEF Inv, StopBegin
<1>2. /\ m' = m /\ checking' = checking /\ loaded' = loaded
      /\ op' = [op EXCEPT ![t] = "stopping"]
  BY DEF StopBegin, Goto
<1>3. ASSUME NEW u \in Timer PROVE OperationOK(u)'
  <2>1. CASE u = t
    BY <1>1, <1>2, <2>1 DEF Inv, OperationOK, LoadedOK
  <2>2. CASE u # t
    <3>1. op'[u] = op[u]
      BY <1>1, <1>2, <2>2
    <3>. QED
      BY <1>2, <3>1, OthersOK
  <2>. QED
    BY <2>1, <2>2
<1>. QED
  BY <1>1, <1>2, <1>3 DEF Inv, Operation

LEMMA StopUnlinkOK ==
  ASSUME Inv, NEW t \in Client, StopUnlink(t)
  PROVE  Inv'
<1>1. t \in Timer /\ ListOK(m) /\ op \in [Timer -> Operation] /\ checking = FALSE
  BY TimersAssumption DEF Inv, StopUnlink
<1>2. /\ m' = [m EXCEPT !.list = RemoveFirst(@, t)] /\ checking' = FALSE
      /\ loaded' = loaded /\ op' = [op EXCEPT ![t] = "stopped"]
  BY <1>1 DEF StopUnlink, Goto
<1>3. /\ ListOK(m') /\ Range(RemoveFirst(m.list, t)) = Range(m.list) \ {t}
  BY <1>1, <1>2, UnlinkOK
<1>4. /\ m'.list = RemoveFirst(m.list, t) /\ m'.flags = m.flags
      /\ m'.tick = m.tick /\ m'.init_tick = m.init_tick /\ m'.timeout_tick = m.timeout_tick
  BY <1>1, <1>2 DEF ListOK, TimerState
<1>5. ASSUME NEW u \in Timer PROVE OperationOK(u)'
  <2>1. CASE u = t
    <3>1. op'[t] = "stopped" /\ t \notin Range(m'.list)
      BY <1>1, <1>2, <1>3, <1>4
    <3>. QED
      BY <1>1, <1>4, <2>1, <3>1 DEF Inv, OperationOK, LoadedOK, IsPeriodic
  <2>2. CASE u # t
    <3>1. /\ op'[u] = op[u] /\ (Active(m', u) <=> Active(m, u))
          /\ IsPeriodic(m', u) <=> IsPeriodic(m, u)
          /\ u \in Range(m'.list) <=> u \in Range(m.list)
      BY <1>1, <1>2, <1>3, <1>4, <2>2 DEF Active, IsPeriodic
    <3>. QED
      BY <1>2, <1>4, <3>1, OthersOK
  <2>. QED
    BY <2>1, <2>2
<1>6. \A u \in Range(m'.list) : Lead(m', u) >= 1
  BY <1>1, <1>3, <1>4 DEF Inv, Lead
<1>. QED
  BY <1>1, <1>2, <1>3, <1>5, <1>6 DEF Inv, Operation

\* A step that writes the flags of one timer that no other step is about.
LEMMA FlagStepOK ==
  ASSUME Inv, NEW t \in Timer, NEW f \in SUBSET Flags,
         m' = WithFlags(m, t, f), checking' = checking,
         op' \in [Timer -> Operation], loaded' \in [Timer -> SUBSET Flags],
         \A u \in Timer \ {t} : op'[u] = op[u] /\ loaded'[u] = loaded[u],
         OperationOK(t)'
  PROVE  Inv'
<1>1. /\ ListOK(m') /\ m'.list = m.list /\ m'.tick = m.tick
      /\ m'.init_tick = m.init_tick /\ m'.timeout_tick = m.timeout_tick
      /\ \A u : Lead(m', u) = Lead(m, u)
      /\ \A u \in Timer \ {t} : Active(m', u) <=> Active(m, u)
      /\ \A u \in Timer \ {t} : IsPeriodic(m', u) <=> IsPeriodic(m, u)
  <2>1. ListOK(m)
    BY DEF Inv
  <2>2. FlagsOnly(m, m', t, f)
    BY <2>1, FlagsOK
  <2>. QED
    BY <2>2 DEF FlagsOnly
<1>2. ASSUME NEW u \in Timer \ {t} PROVE OperationOK(u)'
  BY <1>1, OthersOK
<1>. QED
  BY <1>1, <1>2 DEF Inv

LEMMA StopEndOK ==
  ASSUME Inv, NEW t \in Client, StopEnd(t)
  PROVE  Inv'
<1>. DEFINE f == m.flags[t] \ {"ACTIVATED"}
<1>1. t \in Timer /\ ListOK(m) /\ op \in [Timer -> Operation] /\ op[t] = "stopped"
  BY TimersAssumption DEF Inv, StopEnd
<1>2. t \notin Range(m.list)
  BY <1>1 DEF Inv, OperationOK
<1>3. /\ f \in SUBSET Flags /\ "ACTIVATED" \notin f
      /\ "PERIODIC" \in f <=> IsPeriodic(m, t)
  BY <1>1, StateFields DEF IsPeriodic
<1>4. /\ m' = WithFlags(m, t, f) /\ checking' = checking /\ loaded' = loaded
      /\ op' = [op EXCEPT ![t] = "none"]
  BY DEF StopEnd, Goto, WithFlags
<1>. HIDE DEF f
<1>5. m'.list = m.list /\ ~ Active(m', t) /\ (IsPeriodic(m', t) <=> IsPeriodic(m, t))
  <2>1. FlagsOnly(m, m', t, f)
    BY <1>1, <1>3, <1>4, FlagsOK
  <2>. QED
    BY <1>3, <2>1 DEF FlagsOnly
<1>6. OperationOK(t)'
  BY <1>1, <1>2, <1>4, <1>5 DEF Inv, OperationOK, LoadedOK, Settled
<1>7. /\ op' \in [Timer -> Operation] /\ loaded' \in [Timer -> SUBSET Flags]
      /\ \A u \in Timer \ {t} : op'[u] = op[u] /\ loaded'[u] = loaded[u]
  BY <1>1, <1>4 DEF Inv, Operation
<1>. QED
  BY <1>1, <1>3, <1>4, <1>6, <1>7, FlagStepOK

LEMMA LoadFlagsOK ==
  ASSUME Inv, NEW t \in Controlled, LoadFlags(t)
  PROVE  Inv'
<1>1. /\ t \in Timer /\ t \in Client /\ ListOK(m)
      /\ op \in [Timer -> Operation] /\ op[t] = "none"
  BY TimersAssumption DEF Inv, LoadFlags
<1>2. /\ m' = m /\ checking' = checking /\ op' = [op EXCEPT ![t] = "setting"]
      /\ loaded' = [loaded EXCEPT ![t] = m.flags[t]]
  BY DEF LoadFlags, Goto
<1>3. m.flags[t] \in SUBSET Flags
  BY <1>1, StateFields
<1>4. op'[t] = "setting" /\ loaded'[t] = m.flags[t]
  BY <1>1, <1>2 DEF Inv
<1>5. ASSUME NEW u \in Timer PROVE OperationOK(u)'
  <2>1. CASE u = t
    BY <1>1, <1>2, <1>4, <2>1 DEF Inv, OperationOK, LoadedOK, Active, IsPeriodic, Settled
  <2>2. CASE u # t
    <3>1. op'[u] = op[u] /\ loaded'[u] = loaded[u]
      BY <1>1, <1>2, <2>2 DEF Inv
    <3>. QED
      BY <1>2, <3>1, OthersOK
  <2>. QED
    BY <2>1, <2>2
<1>6. loaded' \in [Timer -> SUBSET Flags] /\ op' \in [Timer -> Operation]
  BY <1>1, <1>2, <1>3 DEF Inv, Operation
<1>. QED
  BY <1>1, <1>2, <1>5, <1>6 DEF Inv

\* The store may make an unlinked one-shot timer active again, nothing else.
LEMMA SetFlagOK ==
  ASSUME Inv, NEW t \in Controlled, SetPeriodic(t) \/ SetOneShot(t)
  PROVE  Inv'
<1>1. /\ t \in Timer /\ t \in Client /\ ListOK(m)
      /\ op \in [Timer -> Operation] /\ op[t] = "setting"
      /\ loaded \in [Timer -> SUBSET Flags] /\ OperationOK(t)
  BY TimersAssumption DEF Inv, SetPeriodic, SetOneShot, StoreFlags
<1>2. loaded[t] \in SUBSET Flags
  BY <1>1
<1>3. PICK f \in SUBSET Flags :
         /\ m' = WithFlags(m, t, f)
         /\ "ACTIVATED" \in f <=> "ACTIVATED" \in loaded[t]
         /\ "PERIODIC" \in f <=> "PERIODIC" \in loaded[t]
  BY <1>2 DEF SetPeriodic, SetOneShot, StoreFlags, Flags, WithFlags
<1>4. /\ checking' = checking /\ op' = [op EXCEPT ![t] = "none"]
      /\ loaded' = [loaded EXCEPT ![t] = {}]
  BY DEF SetPeriodic, SetOneShot, StoreFlags, Goto
<1>5. /\ m'.list = m.list
      /\ Active(m', t) <=> "ACTIVATED" \in f
      /\ IsPeriodic(m', t) <=> "PERIODIC" \in f
  <2>1. ListOK(m) /\ t \in Timer /\ m' = WithFlags(m, t, f)
    BY <1>1, <1>3
  <2>2. FlagsOnly(m, m', t, f)
    BY <2>1, FlagsOK
  <2>. QED
    BY <2>2 DEF FlagsOnly
<1>6. op'[t] = "none" /\ \A u \in Timer \ {t} : op'[u] = op[u] /\ loaded'[u] = loaded[u]
  BY <1>1, <1>4
<1>7. OperationOK(t)'
  BY <1>1, <1>3, <1>5, <1>6 DEF OperationOK, LoadedOK, Settled
<1>8. op' \in [Timer -> Operation] /\ loaded' \in [Timer -> SUBSET Flags]
  BY <1>1, <1>4 DEF Operation
<1>. QED
  BY <1>1, <1>3, <1>4, <1>6, <1>7, <1>8, FlagStepOK

LEMMA SetTimeOK ==
  ASSUME Inv, NEW t \in Client, SetTime(t)
  PROVE  Inv'
<1>1. t \in Timer /\ ListOK(m) /\ op \in [Timer -> Operation] /\ op[t] = "none"
  BY TimersAssumption DEF Inv, SetTime
<1>2. PICK time \in Times : m' = [m EXCEPT !.init_tick[t] = time]
  BY DEF SetTime
<1>3. op' = op /\ loaded' = loaded /\ checking' = checking
  BY DEF SetTime
<1>4. m.init_tick \in [Timer -> Times] /\ m \in TimerState
  BY <1>1, StateFields DEF ListOK
<1>5. /\ m' \in TimerState /\ m'.list = m.list /\ m'.tick = m.tick /\ m'.flags = m.flags
      /\ m'.timeout_tick = m.timeout_tick
      /\ m'.init_tick = [m.init_tick EXCEPT ![t] = time]
  BY <1>2, <1>4 DEF TimerState
<1>6. \A u : Lead(m', u) = Lead(m, u)
  BY <1>5 DEF Lead
<1>7. ListOK(m')
  BY <1>1, <1>5, <1>6 DEF ListOK, InOrder
<1>8. ASSUME NEW u \in Timer PROVE OperationOK(u)'
  <2>1. CASE u = t
    BY <1>1, <1>3, <1>5, <2>1 DEF Inv, OperationOK, LoadedOK, Settled, Active, IsPeriodic
  <2>2. CASE u # t
    <3>1. /\ m'.init_tick[u] = m.init_tick[u] /\ (Active(m', u) <=> Active(m, u))
          /\ IsPeriodic(m', u) <=> IsPeriodic(m, u)
      BY <1>4, <1>5, <2>2 DEF Active, IsPeriodic
    <3>. QED
      BY <1>3, <1>5, <3>1, OthersOK
  <2>. QED
    BY <2>1, <2>2
<1>. QED
  BY <1>3, <1>5, <1>6, <1>7, <1>8 DEF Inv

\* A tick brings every timer nearer by one, whether the counter wraps or not.
LEMMA TickLead ==
  ASSUME Inv, NEW t \in Timer, Lead(m, t) >= 1, Lead(m, t) < Half, Tick
  PROVE  Lead(m', t) = Lead(m, t) - 1
<1>1. /\ ListOK(m) /\ m \in TimerState
  BY DEF Inv, ListOK
<1>2. /\ m.tick \in 0 .. TickMod - 1 /\ m.timeout_tick[t] \in 0 .. TickMod - 1
      /\ Times # {}
  BY <1>1, StateFields
<1>3. m'.tick = (m.tick + 1) % TickMod /\ m'.timeout_tick = m.timeout_tick
  BY <1>1 DEF Tick, TimerState
<1>. QED
  BY <1>2, <1>3, Compare DEF Lead

LEMMA TickOK ==
  ASSUME Inv, Tick
  PROVE  Inv'
<1>1. /\ ListOK(m) /\ m \in TimerState /\ op \in [Timer -> Operation] /\ checking = FALSE
      /\ \A t \in Range(m.list) : Lead(m, t) >= 1
  BY DEF Inv, ListOK, Tick
<1>2. /\ m' = [m EXCEPT !.tick = (m.tick + 1) % TickMod] /\ checking' = TRUE /\ op' = op
      /\ loaded' = loaded
      /\ \A t \in Timer : op[t] = "starting" => Delay(t) < MaxDelay
  BY DEF Tick
<1>3. (m.tick + 1) % TickMod \in 0 .. TickMod - 1
  <2>. DEFINE M == TickMod
              n == m.tick + 1
  <2>1. M \in Nat \ {0} /\ n \in Int
    BY <1>1, Numbers, StateFields
  <2>. HIDE DEF M, n
  <2>2. n % M \in 0 .. M - 1
    BY <2>1
  <2>. QED
    BY <2>2 DEF M, n
<1>4. /\ m' \in TimerState /\ m'.list = m.list /\ m'.flags = m.flags
      /\ m'.init_tick = m.init_tick /\ m'.timeout_tick = m.timeout_tick
      /\ m'.tick = (m.tick + 1) % TickMod
  BY <1>1, <1>2, <1>3 DEF TimerState
<1>5. Range(m.list) \in SUBSET Timer /\ \A t \in Timer : Lead(m, t) \in Int
  BY <1>1, StateFields
<1>6. \A t \in Range(m.list) : Lead(m', t) = Lead(m, t) - 1
  BY <1>1, <1>5, TickLead DEF ListOK
<1>7. \A i \in DOMAIN m.list : m.list[i] \in Range(m.list)
  BY DEF Range
<1>8. ListOK(m')
  <2>1. InOrder(m')
    BY <1>1, <1>4, <1>5, <1>6, <1>7 DEF ListOK, InOrder
  <2>2. \A t \in Range(m.list) : Lead(m', t) < Half
    BY <1>1, <1>5, <1>6, Numbers DEF ListOK
  <2>. QED
    BY <1>1, <1>4, <2>1, <2>2 DEF ListOK
<1>9. ASSUME NEW t \in Timer PROVE OperationOK(t)'
  <2>1. CASE op[t] = "starting"
    <3>1. Delay(t) < MaxDelay
      BY <1>2, <2>1
    <3>2. /\ m.tick \in 0 .. TickMod - 1 /\ m.timeout_tick[t] \in 0 .. TickMod - 1
          /\ m.init_tick[t] \in Times
      BY <1>1, StateFields
    <3>3. Delay(t)' <= MaxDelay
      BY <1>4, <3>1, <3>2, StartAhead DEF Delay
    <3>. QED
      BY <1>2, <1>4, <2>1, <3>3 DEF Inv, OperationOK, LoadedOK, Active, IsPeriodic
  <2>2. CASE op[t] # "starting"
    BY <1>2, <1>4, <2>2 DEF Inv, OperationOK, LoadedOK, Settled, Active, IsPeriodic
  <2>. QED
    BY <2>1, <2>2
<1>. QED
  BY <1>1, <1>2, <1>8, <1>9 DEF Inv

\* What a thread has loaded of a timer that fires: it was active then, and still
\* is if it is periodic.
LEMMA FiredLoad ==
  ASSUME Inv, NEW t \in Timer, t \in Range(m.list),
         NEW off, NEW on, on \in SUBSET Timer, Effect(m, m', off, on), t \in off,
         Active(m, t) /\ IsPeriodic(m, t) => t \in on,
         NEW u \in Timer, u = t \/ u \notin Client,
         op' = op, loaded' = loaded,
         Settled(m', u), IsPeriodic(m', u) <=> IsPeriodic(m, u)
  PROVE  LoadedOK(u)'
<1>1. OperationOK(u) /\ LoadedOK(u)
  BY DEF Inv, OperationOK
<1>2. CASE op[u] # "setting"
  BY <1>1, <1>2 DEF LoadedOK
<1>3. CASE op[u] = "setting"
  <2>1. u = t /\ Active(m, t) /\ "ACTIVATED" \in loaded[t] /\ t \in Controlled
    BY <1>1, <1>3 DEF OperationOK, LoadedOK
  <2>2. t \in Told => t \in Periodic
    BY <2>1 DEF Told
  <2>3. t \in Periodic => Active(m', t)
    BY <1>1, <2>1 DEF LoadedOK, Effect, Settled
  <2>. QED
    BY <1>1, <1>3, <2>1, <2>2, <2>3 DEF LoadedOK
<1>. QED
  BY <1>2, <1>3

\* A turn of the loop touches the head and timers no thread is operating on.
LEMMA FireOK ==
  ASSUME Inv, Fire
  PROVE  Inv'
<1>. DEFINE t == Head(m.list)
<1>1. /\ checking = TRUE /\ checking' = TRUE /\ op' = op /\ op \in [Timer -> Operation]
      /\ loaded' = loaded
      /\ m.list # << >> /\ ListOK(m)
  BY DEF Fire, Expired, Inv
<1>2. PICK s \in Callbacks([m EXCEPT !.list = Tail(@)], t) : m' = Rearmed(s, t)
  BY DEF Fire
<1>3. t \in Timer /\ t \in Range(m.list)
  BY <1>1, PopOK
<1>. HIDE DEF t
<1>4. PICK off, on \in SUBSET (Inner[t] \cup {t}) :
         /\ t \in off /\ Effect(m, m', off, on)
         /\ Active(m, t) /\ IsPeriodic(m, t) => t \in on
  BY <1>1, <1>2, FireEffect DEF t
<1>5. /\ off \in SUBSET Timer /\ on \in SUBSET Timer
      /\ \A u \in off \cup on : u = t \/ u \notin Client
  BY <1>3, <1>4, TimersAssumption
<1>6. ASSUME NEW u \in Timer PROVE OperationOK(u)'
  <2>1. CASE u \in off \cup on
    <3>1. op[u] \in {"none", "stopping", "setting"}
      BY <1>1, <1>3, <1>5, <2>1 DEF Inv, OperationOK, Operation
    <3>2. Settled(m', u) /\ (IsPeriodic(m', u) <=> IsPeriodic(m, u))
      BY <1>4, <2>1 DEF Effect
    <3>3. LoadedOK(u)'
      BY <1>1, <1>3, <1>4, <1>5, <2>1, <3>2, FiredLoad
    <3>. QED
      BY <1>1, <3>1, <3>2, <3>3 DEF Inv, OperationOK, Settled
  <2>2. CASE u \notin off \cup on
    <3>1. /\ m'.tick = m.tick /\ m'.init_tick = m.init_tick
          /\ m'.timeout_tick[u] = m.timeout_tick[u]
          /\ u \in Range(m'.list) <=> u \in Range(m.list)
          /\ Active(m', u) <=> Active(m, u)
          /\ IsPeriodic(m', u) <=> IsPeriodic(m, u)
      BY <1>4, <2>2 DEF Effect
    <3>. QED
      BY <1>1, <3>1, OthersOK
  <2>. QED
    BY <2>1, <2>2
<1>7. ListOK(m')
  BY <1>4 DEF Effect
<1>. QED
  BY <1>1, <1>6, <1>7 DEF Inv

\* The loop has ended at a timer that is still to come, and so are all behind it.
LEMMA NotExpired ==
  ASSUME Inv, ~ Expired(m), NEW t \in Range(m.list)
  PROVE  Lead(m, t) > Back
<1>. DEFINE h == Head(m.list)
<1>1. ListOK(m) /\ m.list # << >>
  BY DEF Inv, Range
<1>2. h \in Timer /\ h \in Range(m.list) /\ Lead(m, h) <= Lead(m, t)
  BY <1>1, PopOK
<1>3. /\ m.tick \in 0 .. TickMod - 1 /\ m.timeout_tick[h] \in 0 .. TickMod - 1
      /\ Times # {} /\ t \in Timer /\ Lead(m, t) \in Int /\ Lead(m, h) \in Int
  BY <1>1, <1>2, StateFields
<1>4. Lead(m, h) < Half
  BY <1>1, <1>2 DEF ListOK
<1>5. ~ NotBefore(m.tick, m.timeout_tick[h])
  BY <1>1 DEF Expired
<1>6. ~ (Lead(m, h) <= Back)
  BY <1>3, <1>4, <1>5, Compare DEF Lead
<1>. QED
  BY <1>2, <1>3, <1>6, Numbers

LEMMA CheckEndOK ==
  ASSUME Inv, CheckEnd
  PROVE  Inv'
<1>1. m' = m /\ op' = op /\ loaded' = loaded /\ checking' = FALSE /\ ~ Expired(m)
  BY DEF CheckEnd
<1>2. ASSUME NEW t \in Range(m.list) PROVE Lead(m, t) >= 1
  <2>1. Lead(m, t) > Back /\ Lead(m, t) \in Int
    BY <1>1, NotExpired, StateFields DEF Inv
  <2>. QED
    BY <2>1, Numbers
<1>3. ASSUME NEW t \in Timer PROVE OperationOK(t)'
  BY <1>1, OthersOK
<1>. QED
  BY <1>1, <1>2, <1>3 DEF Inv

\* The invariant holds in every reachable state: the list of rt_timer_start and
\* rt_timer_check is in order and the flags agree with it but for what a thread is
\* in the middle of.
THEOREM Invariant == Spec => []Inv
<1>1. Inv /\ [Next]_vars => Inv'
  <2>. SUFFICES ASSUME Inv, [Next]_vars PROVE Inv'
    OBVIOUS
  <2>1. CASE UNCHANGED vars
    <3>1. m' = m /\ op' = op /\ loaded' = loaded /\ checking' = checking
      BY <2>1 DEF vars
    <3>2. \A t \in Timer : OperationOK(t)'
      BY <3>1, OthersOK
    <3>. QED
      BY <3>1, <3>2 DEF Inv
  <2>2. CASE \E t \in Client : StartBegin(t)
    BY <2>2, StartBeginOK
  <2>3. CASE \E t \in Client : StartEnd(t)
    BY <2>3, StartEndOK
  <2>4. CASE \E t \in Client : StopBegin(t)
    BY <2>4, StopBeginOK
  <2>5. CASE \E t \in Client : StopUnlink(t)
    BY <2>5, StopUnlinkOK
  <2>6. CASE \E t \in Client : StopEnd(t)
    BY <2>6, StopEndOK
  <2>7. CASE \E t \in Client : SetTime(t)
    BY <2>7, SetTimeOK
  <2>8. CASE \E t \in Controlled : SetPeriodic(t) \/ SetOneShot(t)
    BY <2>8, SetFlagOK
  <2>12. CASE \E t \in Controlled : LoadFlags(t)
    BY <2>12, LoadFlagsOK
  <2>9. CASE Tick
    BY <2>9, TickOK
  <2>10. CASE Fire
    BY <2>10, FireOK
  <2>11. CASE CheckEnd
    BY <2>11, CheckEndOK
  <2>. QED
    BY <2>1, <2>2, <2>3, <2>4, <2>5, <2>6, <2>7, <2>8, <2>9, <2>10, <2>11,
       <2>12 DEF Next
<1>. QED
  BY InitOK, <1>1, PTL DEF Spec

\* A timer in the list is flagged active, always; a flagged one is in the list
\* unless rt_timer_stop is about to clear the flag or the timer is a one-shot one
\* that a thread uses rt_timer_control on.  It is this flag by which
\* rt_timer_start and rt_timer_stop refuse their work.
THEOREM ActiveIsLinkedHolds == Spec => []ActiveIsLinked
<1>1. Inv => ActiveIsLinked
  <2>. SUFFICES ASSUME Inv, NEW t \in Timer
                PROVE  /\ Linked(t) => Active(m, t)
                       /\ Active(m, t) /\ op[t] # "stopped" /\ t \notin Controlled \ Periodic
                             => Linked(t)
    BY DEF ActiveIsLinked
  <2>1. OperationOK(t) /\ op[t] \in Operation
    BY DEF Inv
  <2>. QED
    BY <2>1 DEF OperationOK, Operation, Settled, Linked, Told
<1>. QED
  BY Invariant, <1>1, PTL

\* The list holds every timer once, in the order of the comparison of the code,
\* across any wrap of the counter.
THEOREM ListInOrderHolds == Spec => []ListInOrder
<1>1. ASSUME Inv PROVE ListInOrder
  <2>1. ListOK(m) /\ m.list \in Seq(Timer) /\ \A t \in Timer : Lead(m, t) \in Int
    BY <1>1, StateFields DEF Inv
  <2>2. ASSUME NEW i \in DOMAIN m.list, NEW j \in DOMAIN m.list, i < j
        PROVE  NotBefore(m.timeout_tick[m.list[j]], m.timeout_tick[m.list[i]])
    <3>1. /\ m.list[i] \in Timer /\ m.list[j] \in Timer
          /\ m.list[i] \in Range(m.list) /\ m.list[j] \in Range(m.list)
      BY <2>1 DEF Range
    <3>2. Lead(m, m.list[i]) <= Lead(m, m.list[j])
      BY <2>1, <2>2 DEF ListOK, InOrder
    <3>3. Lead(m, m.list[j]) >= Lead(m, m.list[i])
      BY <2>1, <3>1, <3>2
    <3>. QED
      BY <2>1, <3>1, <3>3, CompareLeads DEF ListOK
  <2>. QED
    BY <2>1, <2>2 DEF ListInOrder, ListOK
<1>. QED
  BY Invariant, <1>1, PTL

-----------------------------------------------------------------------------
(* The list implements Countdown. *)

\* Ticks until t expires.
TicksLeft(s, t) == IF Lead(s, t) >= Back THEN Lead(s, t) - Back ELSE 0

\* The difference of the counts is what is left, unless the time is over.
LEMMA CountLeft ==
  ASSUME NEW s, ListOK(s), NEW t \in Timer, Lead(s, t) < Half
  PROVE  TicksLeft(s, t) =
            LET d == (s.timeout_tick[t] - s.tick) % TickMod
            IN  IF d < RT_TICK_MAX \div 2 THEN d ELSE 0
<1>1. /\ s.tick \in 0 .. TickMod - 1 /\ s.timeout_tick[t] \in 0 .. TickMod - 1
      /\ Times # {}
  BY StateFields
<1>. DEFINE d == (s.timeout_tick[t] - s.tick) % TickMod
<1>2. /\ d < Half <=> Lead(s, t) >= Back
      /\ Lead(s, t) >= Back => d = Lead(s, t) - Back
  BY <1>1, Compare DEF Lead
<1>. HIDE DEF d
<1>3. TicksLeft(s, t) = IF d < Half THEN d ELSE 0
  BY <1>2 DEF TicksLeft
<1>. QED
  BY <1>3 DEF d, Half

LEMMA LeftNow ==
  ASSUME Inv, NEW t \in Timer
  PROVE  Left(t) = IF t \in Range(m.list) \/ op[t] = "starting" THEN TicksLeft(m, t) ELSE 0
<1>1. CASE t \in Range(m.list) \/ op[t] = "starting"
  <2>1. ListOK(m) /\ Lead(m, t) < Half
    BY <1>1, StartingLead DEF Inv, ListOK
  <2>. QED
    BY <1>1, <2>1, CountLeft DEF Left, Linked
<1>2. CASE ~ (t \in Range(m.list) \/ op[t] = "starting")
  BY <1>2 DEF Left, Linked
<1>. QED
  BY <1>1, <1>2

LEMMA LeftNext ==
  ASSUME ListOK(m'), NEW t \in Timer,
         t \in Range(m'.list) \/ op'[t] = "starting", Lead(m', t) < Half
  PROVE  Left(t)' = TicksLeft(m', t)
BY CountLeft DEF Left, Linked

\* A step that leaves a timer alone leaves it the same time.
LEMMA LeftSame ==
  ASSUME NEW t \in Timer,
         m'.tick = m.tick, m'.timeout_tick[t] = m.timeout_tick[t],
         (t \in Range(m'.list) \/ op'[t] = "starting")
            <=> (t \in Range(m.list) \/ op[t] = "starting")
  PROVE  Left(t)' = Left(t)
BY DEF Left, Linked

\* rt_timer_start computes the timeout.
LEMMA StartBeginIsSet ==
  ASSUME Inv, NEW t \in Client, StartBegin(t)
  PROVE  C!Set(t)
<1>1. t \in Timer /\ ListOK(m) /\ op \in [Timer -> Operation]
  BY TimersAssumption DEF Inv
<1>2. t \notin Range(m.list)
  BY <1>1 DEF Inv, OperationOK, StartBegin
<1>3. m' = Timeout(m, t) /\ checking' = checking /\ op' = [op EXCEPT ![t] = "starting"]
  BY DEF StartBegin, Goto
<1>4. /\ ListOK(m') /\ m'.list = m.list /\ m'.tick = m.tick
      /\ m'.timeout_tick = [m.timeout_tick EXCEPT ![t] = (m.tick + m.init_tick[t]) % TickMod]
      /\ Lead(m', t) = m.init_tick[t] + Back
      /\ Lead(m', t) < Half
  BY <1>1, <1>2, <1>3, TimeoutOK
<1>5. m.init_tick[t] \in Times /\ m.timeout_tick \in [Timer -> 0 .. TickMod - 1]
  BY <1>1, StateFields
<1>6. Left(t)' = m.init_tick[t]
  <2>1. Left(t)' = TicksLeft(m', t)
    BY <1>1, <1>3, <1>4, LeftNext
  <2>2. m.init_tick[t] \in Nat /\ Back \in Nat
    BY <1>5, Numbers
  <2>. QED
    BY <1>4, <2>1, <2>2 DEF TicksLeft
<1>7. ASSUME NEW u \in Timer \ {t} PROVE Left(u)' = Left(u)
  <2>1. /\ m'.timeout_tick[u] = m.timeout_tick[u] /\ op'[u] = op[u]
    BY <1>1, <1>3, <1>4, <1>5
  <2>. QED
    BY <1>4, <2>1, LeftSame
<1>8. [u \in Timer |-> Left(u)]' = [[u \in Timer |-> Left(u)] EXCEPT ![t] = m.init_tick[t]]
  BY <1>1, <1>6, <1>7
<1>. QED
  BY <1>2, <1>3, <1>4, <1>5, <1>8 DEF C!Set

\* rt_timer_start links the timer, however late.
LEMMA StartEndIsArm ==
  ASSUME Inv, NEW t \in Client, StartEnd(t)
  PROVE  C!Arm(t)
<1>1. t \in Timer /\ ListOK(m) /\ op \in [Timer -> Operation]
  BY TimersAssumption DEF Inv
<1>2. op[t] = "starting" /\ t \notin Range(m.list)
  BY <1>1 DEF Inv, OperationOK, StartEnd
<1>3. m' = Link(m, t) /\ checking' = checking /\ op' = [op EXCEPT ![t] = "none"]
  BY DEF StartEnd, Goto
<1>4. Lead(m, t) < Half
  BY <1>1, <1>2, StartingLead
<1>5. /\ Range(m'.list) = Range(m.list) \cup {t}
      /\ m'.tick = m.tick /\ m'.timeout_tick = m.timeout_tick
  BY <1>1, <1>2, <1>3, <1>4, LinkOK
<1>6. ASSUME NEW u \in Timer PROVE Left(u)' = Left(u)
  <2>1. (u \in Range(m'.list) \/ op'[u] = "starting")
           <=> (u \in Range(m.list) \/ op[u] = "starting")
    BY <1>1, <1>2, <1>3, <1>5
  <2>. QED
    BY <1>5, <2>1, LeftSame
<1>7. [u \in Timer |-> Left(u)]' = [u \in Timer |-> Left(u)]
  BY <1>6
<1>. QED
  BY <1>3, <1>5, <1>7 DEF C!Arm

\* rt_timer_stop unlinks the timer, if it has not fired meanwhile.
LEMMA StopUnlinkIsDisarm ==
  ASSUME Inv, NEW t \in Client, StopUnlink(t)
  PROVE  C!Disarm(t)
<1>1. t \in Timer /\ ListOK(m) /\ op \in [Timer -> Operation] /\ op[t] = "stopping"
  BY TimersAssumption DEF Inv, StopUnlink
<1>2. /\ m' = [m EXCEPT !.list = RemoveFirst(@, t)] /\ checking' = checking
      /\ op' = [op EXCEPT ![t] = "stopped"]
  BY DEF StopUnlink, Goto
<1>3. Range(RemoveFirst(m.list, t)) = Range(m.list) \ {t}
  BY <1>1, UnlinkOK
<1>4. /\ Range(m'.list) = Range(m.list) \ {t}
      /\ m'.tick = m.tick /\ m'.timeout_tick = m.timeout_tick
  BY <1>1, <1>2, <1>3 DEF ListOK, TimerState
<1>5. Left(t)' = 0
  <2>1. ~ (t \in Range(m'.list) \/ op'[t] = "starting")
    BY <1>1, <1>2, <1>4
  <2>. QED
    BY <2>1 DEF Left, Linked
<1>6. ASSUME NEW u \in Timer \ {t} PROVE Left(u)' = Left(u)
  <2>1. (u \in Range(m'.list) \/ op'[u] = "starting")
           <=> (u \in Range(m.list) \/ op[u] = "starting")
    BY <1>1, <1>2, <1>4
  <2>. QED
    BY <1>4, <2>1, LeftSame
<1>7. [u \in Timer |-> Left(u)]' = [[u \in Timer |-> Left(u)] EXCEPT ![t] = 0]
  BY <1>1, <1>5, <1>6
<1>. QED
  BY <1>2, <1>4, <1>7 DEF C!Disarm

\* The tick counts every timer down, past the wrap of the counter.
LEMMA TickIsTick ==
  ASSUME Inv, Tick
  PROVE  C!Tick
<1>1. ListOK(m) /\ checking = FALSE /\ checking' = TRUE /\ op' = op
  BY DEF Inv, Tick
<1>2. m'.list = m.list
  BY <1>1 DEF Tick, ListOK, TimerState
<1>3. Inv'
  BY TickOK
<1>4. ASSUME NEW u \in Timer
      PROVE  Left(u)' = IF Left(u) > 0 THEN Left(u) - 1 ELSE 0
  <2>1. CASE u \in Range(m.list) \/ op[u] = "starting"
    <3>1. Lead(m, u) >= 1 /\ Lead(m, u) < Half /\ Lead(m, u) \in Int
      BY <1>1, <2>1, StartingLead, StateFields DEF Inv, ListOK
    <3>2. Lead(m', u) = Lead(m, u) - 1
      BY <3>1, TickLead
    <3>3. Lead(m', u) < Half /\ Back \in Nat
      BY <3>1, <3>2, Numbers
    <3>4. Left(u)' = TicksLeft(m', u)
      BY <1>1, <1>2, <1>3, <2>1, <3>3, LeftNext DEF Inv
    <3>5. Left(u) = TicksLeft(m, u)
      BY <2>1, LeftNow
    <3>. QED
      BY <3>1, <3>2, <3>3, <3>4, <3>5 DEF TicksLeft
  <2>2. CASE ~ (u \in Range(m.list) \/ op[u] = "starting")
    BY <1>1, <1>2, <2>2 DEF Left, Linked
  <2>. QED
    BY <2>1, <2>2
<1>5. [u \in Timer |-> Left(u)]'
         = [u \in Timer |-> IF [v \in Timer |-> Left(v)][u] > 0
                            THEN [v \in Timer |-> Left(v)][u] - 1 ELSE 0]
  BY <1>4
<1>. QED
  BY <1>1, <1>2, <1>5 DEF C!Tick

\* Only a timer whose time is up fires.
LEMMA FireIsFire ==
  ASSUME Inv, Fire
  PROVE  C!Fire(Head(m.list))
<1>. DEFINE t == Head(m.list)
<1>1. /\ checking = TRUE /\ checking' = TRUE /\ op' = op /\ op \in [Timer -> Operation]
      /\ m.list # << >> /\ ListOK(m)
  BY DEF Fire, Expired, Inv
<1>2. PICK s \in Callbacks([m EXCEPT !.list = Tail(@)], t) : m' = Rearmed(s, t)
  BY DEF Fire
<1>3. t \in Timer /\ t \in Range(m.list)
  BY <1>1, PopOK
<1>4. NotBefore(m.tick, m.timeout_tick[t])
  BY DEF Fire, Expired
<1>5. PICK off, on \in SUBSET (Inner[t] \cup {t}) : t \in off /\ Effect(m, m', off, on)
  BY <1>1, <1>2, FireEffect
<1>. HIDE DEF t
<1>6. /\ off \in SUBSET Timer /\ on \in SUBSET Timer
      /\ \A u \in off \cup on : u = t \/ u \notin Client
  BY <1>3, <1>5, TimersAssumption
<1>7. \A u \in off \cup on : op[u] \in {"none", "stopping", "setting"}
  BY <1>3, <1>6 DEF Inv, OperationOK, Operation
<1>8. /\ m.tick \in 0 .. TickMod - 1 /\ m.timeout_tick[t] \in 0 .. TickMod - 1
      /\ m.init_tick \in [Timer -> Times] /\ Times # {} /\ Lead(m, t) \in Int
  BY <1>1, <1>3, StateFields
<1>9. Left(t) = 0
  <2>1. Lead(m, t) <= Back
    BY <1>1, <1>3, <1>4, <1>8, Compare DEF ListOK, Lead
  <2>2. Left(t) = TicksLeft(m, t)
    BY <1>3, LeftNow
  <2>. QED
    BY <1>8, <2>1, <2>2, Numbers DEF TicksLeft
<1>10. ASSUME NEW u \in on PROVE Left(u)' \in Times
  <2>1. u \in Timer /\ m.init_tick[u] \in Times
    BY <1>6, <1>8
  <2>2. u \in Range(m'.list) /\ m'.timeout_tick[u] = (m.tick + m.init_tick[u]) % TickMod
        /\ m'.tick = m.tick /\ ListOK(m')
    BY <1>5 DEF Effect
  <2>3. Lead(m', u) = m.init_tick[u] + Back
    <3>1. Ahead((m.tick + m.init_tick[u]) % TickMod, m.tick) = m.init_tick[u] + Back
      BY <1>8, <2>1, StartAhead
    <3>. QED
      BY <2>2, <3>1 DEF Lead
  <2>4. /\ Lead(m', u) < Half /\ m.init_tick[u] \in Nat /\ Back \in Nat
    BY <2>1, <2>3, Numbers
  <2>5. Left(u)' = TicksLeft(m', u)
    BY <2>1, <2>2, <2>4, LeftNext
  <2>. QED
    BY <2>1, <2>3, <2>4, <2>5 DEF TicksLeft
<1>11. ASSUME NEW u \in off \ on PROVE Left(u)' = 0
  <2>1. u \notin Range(m'.list) /\ op'[u] # "starting"
    BY <1>1, <1>5, <1>7 DEF Effect
  <2>. QED
    BY <2>1 DEF Left, Linked
<1>12. ASSUME NEW u \in Timer \ (off \cup on) PROVE Left(u)' = Left(u)
  <2>1. /\ m'.tick = m.tick /\ m'.timeout_tick[u] = m.timeout_tick[u]
        /\ u \in Range(m'.list) <=> u \in Range(m.list)
    BY <1>5, <1>12 DEF Effect
  <2>. QED
    BY <1>1, <2>1, LeftSame
<1>13. Range(m'.list) = (Range(m.list) \ ({t} \cup off)) \cup on
  BY <1>5 DEF Effect
<1>14. \A u \in Timer :
          CASE u \in on             -> [v \in Timer |-> Left(v)]'[u] \in Times
            [] u \in off \ on       -> [v \in Timer |-> Left(v)]'[u] = 0
            [] u \notin on \cup off -> [v \in Timer |-> Left(v)]'[u] = [v \in Timer |-> Left(v)][u]
  BY <1>10, <1>11, <1>12
<1>15. [v \in Timer |-> Left(v)][t] = 0
  BY <1>3, <1>9
<1>16. C!Fire(t)
  BY <1>1, <1>3, <1>6, <1>13, <1>14, <1>15 DEF C!Fire
<1>. QED
  BY <1>16 DEF t

\* No tick interrupt ends before every timer whose time is up has fired.
LEMMA CheckEndIsEndTick ==
  ASSUME Inv, CheckEnd
  PROVE  C!EndTick
<1>1. m' = m /\ op' = op /\ checking = TRUE /\ checking' = FALSE /\ ~ Expired(m)
  BY DEF CheckEnd, Inv
<1>2. ASSUME NEW t \in Range(m.list) PROVE t \in Timer /\ Left(t) > 0
  <2>1. t \in Timer /\ Lead(m, t) \in Int /\ Back \in Nat
    BY StateFields, Numbers DEF Inv
  <2>2. Lead(m, t) > Back
    BY <1>1, NotExpired
  <2>3. Left(t) = TicksLeft(m, t)
    BY <2>1, LeftNow
  <2>. QED
    BY <2>1, <2>2, <2>3 DEF TicksLeft
<1>3. \A t \in Timer : Left(t)' = Left(t)
  BY <1>1, LeftSame
<1>4. [u \in Timer |-> Left(u)]' = [u \in Timer |-> Left(u)]
  BY <1>3
<1>5. \A t \in Range(m.list) : [u \in Timer |-> Left(u)][t] > 0
  BY <1>2
<1>. QED
  BY <1>1, <1>4, <1>5 DEF C!EndTick

\* What Countdown sees of the state.
Seen == <<[t \in Timer |-> Left(t)], Range(m.list), checking>>

\* Everything else only changes what Countdown does not see.
LEMMA UnseenSteps ==
  ASSUME Inv,
         \/ UNCHANGED vars
         \/ \E t \in Client : StopBegin(t) \/ StopEnd(t) \/ SetTime(t)
         \/ \E t \in Controlled : LoadFlags(t) \/ SetPeriodic(t) \/ SetOneShot(t)
  PROVE  UNCHANGED Seen
<1>1. ListOK(m) /\ op \in [Timer -> Operation] /\ m \in TimerState
  BY DEF Inv, ListOK
<1>2. /\ m'.list = m.list /\ m'.tick = m.tick /\ m'.timeout_tick = m.timeout_tick
      /\ checking' = checking
  BY <1>1 DEF vars, StopBegin, StopEnd, SetTime, LoadFlags, SetPeriodic,
               SetOneShot, StoreFlags, TimerState
<1>3. \A u \in Timer : op'[u] = "starting" <=> op[u] = "starting"
  BY <1>1 DEF vars, StopBegin, StopEnd, SetTime, LoadFlags, SetPeriodic,
               SetOneShot, StoreFlags, Goto
<1>4. \A u \in Timer : Left(u)' = Left(u)
  BY <1>2, <1>3, LeftSame
<1>5. [u \in Timer |-> Left(u)]' = [u \in Timer |-> Left(u)]
  BY <1>4
<1>. QED
  BY <1>2, <1>5 DEF Seen

LEMMA StepIsStep == Inv /\ [Next]_vars => C!Next \/ UNCHANGED Seen
<1>. SUFFICES ASSUME Inv, [Next]_vars PROVE C!Next \/ UNCHANGED Seen
  OBVIOUS
<1>0. Client \subseteq Timer
  BY TimersAssumption
<1>1. ASSUME NEW t \in Client, StartBegin(t) PROVE C!Next
  BY <1>0, <1>1, StartBeginIsSet DEF C!Next
<1>2. ASSUME NEW t \in Client, StartEnd(t) PROVE C!Next
  BY <1>0, <1>2, StartEndIsArm DEF C!Next
<1>3. ASSUME NEW t \in Client, StopUnlink(t) PROVE C!Next
  BY <1>0, <1>3, StopUnlinkIsDisarm DEF C!Next
<1>4. ASSUME Tick PROVE C!Next
  BY <1>4, TickIsTick DEF C!Next
<1>5. ASSUME Fire PROVE C!Next
  <2>1. Head(m.list) \in Timer
    BY <1>5, PopOK DEF Inv, Fire, Expired
  <2>. QED
    BY <1>5, <2>1, FireIsFire DEF C!Next
<1>6. ASSUME CheckEnd PROVE C!Next
  BY <1>6, CheckEndIsEndTick DEF C!Next
<1>. QED
  BY <1>1, <1>2, <1>3, <1>4, <1>5, <1>6, UnseenSteps DEF Next

\* Every timer fires in the tick in which its time is up, neither earlier nor
\* later, and no tick interrupt ends before all of those have fired: whatever the
\* counter reads, and however rt_timer_start and rt_timer_stop are interrupted.
THEOREM ImplementsCountdownHolds == Spec => ImplementsCountdown
<1>1. Init => C!Init
  <2>. SUFFICES ASSUME Init PROVE C!Init
    OBVIOUS
  <2>1. m.list = << >> /\ Range(m.list) = {} /\ op = [t \in Timer |-> "none"] /\ checking = FALSE
    BY DEF Init, Range
  <2>2. \A t \in Timer : Left(t) = 0
    BY <2>1 DEF Left, Linked
  <2>. QED
    BY <2>1, <2>2 DEF C!Init
<1>2. Inv /\ [Next]_vars => [C!Next]_Seen
  BY StepIsStep
<1>. QED
  BY <1>1, <1>2, Invariant, PTL DEF Spec, ImplementsCountdown, C!Spec, Seen
=============================================================================
