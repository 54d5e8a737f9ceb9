--------------------------- MODULE ThreadsProofs ---------------------------
(***************************************************************************)
(* What the routines of module Kernel and the steps of module Threads      *)
(* keep, for any IPC object built from them.                               *)
(*                                                                         *)
(* KernelOK is the consistency of the kernel's lists; the first part has   *)
(* one lemma per routine, with what the routine needs and what it does to  *)
(* the lists, the states and the priorities.  ThreadsOK says, beside       *)
(* KernelOK, where every suspended thread is in the code: what the         *)
(* routines of ipc.c rely on when they resume the head of a list without   *)
(* looking at it.                                                          *)
(***************************************************************************)
EXTENDS Threads, SequenceTheorems, FiniteSetTheorems, TLAPS

-----------------------------------------------------------------------------
(* Lists without repetition: what rt_list_remove, rt_list_insert_before and *)
(* rt_list_insert_after do to the sequences that stand for them.            *)

\* The smallest element of a non-empty finite set of numbers: the priority
\* bitmap, where rt_schedule looks for it, always has one.
LEMMA MinOfRange ==
  ASSUME NEW n \in Nat, NEW S \in SUBSET (0 .. n), S # {}
  PROVE  Min(S) \in S /\ \A x \in S : Min(S) <= x
<1>. DEFINE D(x) == {y \in S : y <= x}
            T    == {D(x) : x \in S}
            R    == StrictSubsetOrdering(S)
<1>1. IsFiniteSet(S)
  <2>1. IsFiniteSet(0 .. n)
    BY FS_Interval
  <2>. QED
    BY <2>1, FS_Subset
<1>2. IsWellFoundedOn(R, SUBSET S)
  <2>1. IsWellFoundedOn(R, FiniteSubsetsOf(S))
    BY FS_StrictSubsetOrderingWellFounded
  <2>2. SUBSET S \subseteq FiniteSubsetsOf(S)
    BY <1>1, FS_Subset DEF FiniteSubsetsOf
  <2>. QED
    BY <2>1, <2>2, IsWellFoundedOnSubset
<1>3. PICK m \in T : \A d \in T : ~ (<<d, m>> \in R)
  <2>1. T \subseteq SUBSET S /\ T # {}
    OBVIOUS
  <2>. HIDE DEF T, R
  <2>. QED
    BY <1>2, <2>1, WFMin
<1>4. PICK x \in S : m = D(x)
  BY <1>3
<1>5. ASSUME NEW y \in S
      PROVE  x <= y
  <2>1. SUFFICES ASSUME y < x PROVE FALSE
    OBVIOUS
  <2>2. D(y) \in T
    OBVIOUS
  <2>3. D(y) \subseteq D(x) /\ x \in D(x) /\ x \notin D(y)
    <3>1. x \in Int /\ y \in Int /\ \A z \in S : z \in Int
      OBVIOUS
    <3>2. ~ (x <= y) /\ x <= x /\ \A z \in S : z <= y => z <= x
      BY <2>1, <3>1
    <3>. QED
      BY <3>2
  <2>4. <<D(y), D(x)>> \in R
    BY <2>3 DEF StrictSubsetOrdering
  <2>. QED
    BY <1>3, <1>4, <2>2, <2>4
<1>. QED
  BY <1>5 DEF Min

\* rt_list_remove, element by element: one place is taken out, and what is
\* behind it moves up.
LEMMA RemoveFirstElements ==
  ASSUME NEW S, NEW s \in Seq(S), NEW e
  PROVE  \/ e \notin Range(s) /\ RemoveFirst(s, e) = s
         \/ \E i \in 1 .. Len(s) :
               /\ s[i] = e
               /\ RemoveFirst(s, e) \in Seq(S)
               /\ Len(RemoveFirst(s, e)) = Len(s) - 1
               /\ \A j \in 1 .. Len(s) - 1 :
                     RemoveFirst(s, e)[j] = IF j < i THEN s[j] ELSE s[j+1]
<1>. DEFINE I == {i \in 1 .. Len(s) : s[i] = e}
            i == SelectInSeq(s, LAMBDA v : v = e)
<1>1. CASE I = {}
  <2>1. RemoveFirst(s, e) = s
    BY <1>1 DEF RemoveFirst
  <2>2. e \notin Range(s)
    BY <1>1 DEF Range
  <2>. QED
    BY <2>1, <2>2
<1>2. CASE I # {}
  <2>1. I \in SUBSET (0 .. Len(s)) /\ Len(s) \in Nat
    OBVIOUS
  <2>2. i \in 1 .. Len(s) /\ s[i] = e
    BY <1>2, <2>1, MinOfRange DEF SelectInSeq
  <2>. DEFINE a == SubSeq(s, 1, i-1)
              b == SubSeq(s, i+1, Len(s))
              r == a \o b
  <2>3. RemoveFirst(s, e) = r
    BY <1>2 DEF RemoveFirst, RemoveAt
  <2>. HIDE DEF i, I
  <2>4. /\ a \in Seq(S) /\ Len(a) = i - 1
        /\ \A j \in 1 .. i - 1 : a[j] = s[j]
    BY <2>2, SubSeqProperties
  <2>5. /\ b \in Seq(S) /\ Len(b) = Len(s) - i
        /\ \A j \in 1 .. Len(s) - i : b[j] = s[i + j]
    BY <2>2, SubSeqProperties
  <2>. HIDE DEF a, b
  <2>6. /\ a \o b \in Seq(S) /\ Len(a \o b) = Len(a) + Len(b)
        /\ \A j \in 1 .. Len(a) + Len(b) :
              (a \o b)[j] = IF j <= Len(a) THEN a[j] ELSE b[j - Len(a)]
    BY <2>4, <2>5, ConcatProperties
  <2>7. r = a \o b
    OBVIOUS
  <2>. HIDE DEF r
  <2>8. /\ r \in Seq(S)
        /\ Len(r) = Len(s) - 1
        /\ \A j \in 1 .. Len(s) - 1 : r[j] = IF j < i THEN s[j] ELSE s[j+1]
    <3>1. Len(s) \in Nat /\ i \in 1 .. Len(s)
      BY <2>2
    <3>2. r \in Seq(S) /\ Len(r) = Len(s) - 1
      <4>1. r \in Seq(S) /\ Len(r) = Len(a) + Len(b)
        BY <2>6, <2>7
      <4>. QED
        BY <2>4, <2>5, <3>1, <4>1
    <3>3. ASSUME NEW j \in 1 .. Len(s) - 1
          PROVE  r[j] = IF j < i THEN s[j] ELSE s[j+1]
      <4>1. j \in 1 .. Len(a) + Len(b)
        BY <2>4, <2>5, <3>1
      <4>4. r[j] = IF j <= Len(a) THEN a[j] ELSE b[j - Len(a)]
        BY <2>6, <2>7, <4>1
      <4>2. CASE j < i
        <5>1. j \in 1 .. i - 1 /\ j <= Len(a)
          BY <2>4, <3>1, <4>2
        <5>. QED
          BY <2>4, <4>4, <4>2, <5>1
      <4>3. CASE ~ j < i
        <5>1. j - (i - 1) \in 1 .. Len(s) - i /\ ~ j <= Len(a) /\ i + (j - (i - 1)) = j + 1
          BY <2>4, <3>1, <4>3
        <5>2. r[j] = b[j - (i - 1)]
          BY <2>4, <4>4, <5>1
        <5>. QED
          BY <2>5, <4>3, <5>1, <5>2
      <4>. QED
        BY <4>2, <4>3
    <3>. QED
      BY <3>2, <3>3
  <2>. QED
    BY <2>2, <2>3, <2>8
<1>. QED
  BY <1>1, <1>2

\* rt_list_remove on a list that holds the node at most once.
LEMMA RemoveFirstProperties ==
  ASSUME NEW S, NEW s \in Seq(S), NEW e, IsInjective(s)
  PROVE  /\ RemoveFirst(s, e) \in Seq(S)
         /\ IsInjective(RemoveFirst(s, e))
         /\ Range(RemoveFirst(s, e)) = Range(s) \ {e}
<1>. DEFINE r == RemoveFirst(s, e)
<1>1. CASE e \notin Range(s) /\ r = s
  BY <1>1
<1>2. CASE \E i \in 1 .. Len(s) :
              /\ s[i] = e
              /\ r \in Seq(S)
              /\ Len(r) = Len(s) - 1
              /\ \A j \in 1 .. Len(s) - 1 : r[j] = IF j < i THEN s[j] ELSE s[j+1]
  <2>2. PICK i \in 1 .. Len(s) :
              /\ s[i] = e
              /\ r \in Seq(S)
              /\ Len(r) = Len(s) - 1
              /\ \A j \in 1 .. Len(s) - 1 : r[j] = IF j < i THEN s[j] ELSE s[j+1]
    BY <1>2
  <2>4. /\ r \in Seq(S)
        /\ Len(r) = Len(s) - 1
        /\ \A j \in 1 .. Len(r) : r[j] = IF j < i THEN s[j] ELSE s[j+1]
    BY <2>2
  <2>. HIDE DEF r
  <2>5. IsInjective(r)
    <3>1. ASSUME NEW a \in 1 .. Len(r), NEW b \in 1 .. Len(r), r[a] = r[b]
          PROVE  a = b
      <4>. DEFINE f(j) == IF j < i THEN j ELSE j + 1
      <4>1. /\ f(a) \in 1 .. Len(s) /\ f(b) \in 1 .. Len(s)
            /\ s[f(a)] = r[a] /\ s[f(b)] = r[b]
        BY <2>2, <2>4
      <4>2. f(a) = f(b)
        BY <3>1, <4>1 DEF IsInjective
      <4>. QED
        BY <4>2, <2>2
    <3>. QED
      BY <3>1, <2>4 DEF IsInjective
  <2>6. Range(r) = Range(s) \ {e}
    <3>1. ASSUME NEW j \in 1 .. Len(r) PROVE r[j] \in Range(s) \ {e}
      BY <2>2, <2>4 DEF Range, IsInjective
    <3>2. ASSUME NEW j \in 1 .. Len(s), s[j] # e PROVE s[j] \in Range(r)
      <4>1. CASE j < i
        BY <4>1, <2>2, <2>4 DEF Range
      <4>2. CASE j > i
        <5>1. j - 1 \in 1 .. Len(r) /\ r[j-1] = s[j]
          BY <4>2, <2>2, <2>4
        <5>. QED
          BY <5>1, <2>4 DEF Range
      <4>. QED
        BY <4>1, <4>2, <2>2, <3>2
    <3>. QED
      BY <3>1, <3>2, <2>4 DEF Range
  <2>. QED
    BY <2>4, <2>5, <2>6 DEF r
<1>. QED
  <2>. HIDE DEF r
  <2>1. r = RemoveFirst(s, e)
    BY DEF r
  <2>. QED
    BY <2>1, <1>1, <1>2, RemoveFirstElements

\* rt_list_insert_before at the head of a list puts the node at its end.
LEMMA AppendList ==
  ASSUME NEW S, NEW s \in Seq(S), NEW e \in S, IsInjective(s), e \notin Range(s)
  PROVE  /\ Append(s, e) \in Seq(S)
         /\ IsInjective(Append(s, e))
         /\ Range(Append(s, e)) = Range(s) \cup {e}
         /\ Append(s, e) # << >>
<1>. DEFINE r == Append(s, e)
<1>1. /\ r \in Seq(S) /\ r # << >> /\ Len(r) = Len(s) + 1
      /\ \A i \in 1 .. Len(s) : r[i] = s[i]
      /\ r[Len(s) + 1] = e
  BY AppendProperties
<1>. HIDE DEF r
<1>2. \A i \in 1 .. Len(s) : s[i] # e
  BY DEF Range
<1>3. IsInjective(r)
  BY <1>1, <1>2 DEF IsInjective
<1>4. Range(r) = Range(s) \cup {e}
  <2>1. ASSUME NEW i \in 1 .. Len(r) PROVE r[i] \in Range(s) \cup {e}
    BY <1>1 DEF Range
  <2>2. ASSUME NEW i \in 1 .. Len(s) PROVE s[i] \in Range(r)
    BY <1>1 DEF Range
  <2>3. e \in Range(r)
    BY <1>1 DEF Range
  <2>. QED
    BY <1>1, <2>1, <2>2, <2>3 DEF Range
<1>. QED
  BY <1>1, <1>3, <1>4 DEF r

\* An insertion, element by element: what is behind the place moves down.
LEMMA InsertAtElements ==
  ASSUME NEW S, NEW s \in Seq(S), NEW e \in S, NEW n \in 1 .. Len(s) + 1
  PROVE  /\ InsertAt(s, n, e) \in Seq(S)
         /\ Len(InsertAt(s, n, e)) = Len(s) + 1
         /\ \A j \in 1 .. Len(s) + 1 :
               InsertAt(s, n, e)[j] = IF j < n THEN s[j] ELSE IF j = n THEN e ELSE s[j-1]
<1>. DEFINE a == SubSeq(s, 1, n-1)
            b == SubSeq(s, n, Len(s))
            r == InsertAt(s, n, e)
<1>1. /\ a \in Seq(S) /\ Len(a) = n - 1
      /\ \A j \in 1 .. n - 1 : a[j] = s[j]
  BY SubSeqProperties
<1>2. /\ b \in Seq(S) /\ Len(b) = Len(s) - n + 1
      /\ \A j \in 1 .. Len(s) - n + 1 : b[j] = s[n + j - 1]
  BY SubSeqProperties
<1>3. r = (a \o <<e>>) \o b
  BY DEF InsertAt
<1>. HIDE DEF a, b, r
<1>4. <<e>> \in Seq(S) /\ Len(<<e>>) = 1 /\ <<e>>[1] = e
  OBVIOUS
<1>5. /\ a \o <<e>> \in Seq(S) /\ Len(a \o <<e>>) = n
      /\ \A j \in 1 .. n : (a \o <<e>>)[j] = IF j <= n - 1 THEN a[j] ELSE e
  BY <1>1, <1>4, ConcatProperties
<1>6. /\ r \in Seq(S) /\ Len(r) = Len(s) + 1
      /\ \A j \in 1 .. Len(s) + 1 :
            r[j] = IF j < n THEN s[j] ELSE IF j = n THEN e ELSE s[j-1]
  <2>1. /\ r \in Seq(S) /\ Len(r) = n + Len(b)
        /\ \A j \in 1 .. n + Len(b) : r[j] = IF j <= n THEN (a \o <<e>>)[j] ELSE b[j - n]
    <3>. DEFINE c == a \o <<e>>
    <3>1. r = c \o b /\ c \in Seq(S) /\ Len(c) = n
      BY <1>3, <1>5
    <3>. HIDE DEF c
    <3>2. /\ c \o b \in Seq(S) /\ Len(c \o b) = Len(c) + Len(b)
          /\ \A j \in 1 .. Len(c) + Len(b) :
                (c \o b)[j] = IF j <= Len(c) THEN c[j] ELSE b[j - Len(c)]
      BY <1>2, <3>1, ConcatProperties
    <3>. QED
      BY <3>1, <3>2 DEF c
  <2>. QED
    BY <2>1, <1>1, <1>2, <1>5
<1>. QED
  BY <1>6 DEF r

\* An insertion into a list that does not hold the node.
LEMMA InsertAtList ==
  ASSUME NEW S, NEW s \in Seq(S), NEW e \in S, IsInjective(s), e \notin Range(s),
         NEW n \in 1 .. Len(s) + 1
  PROVE  /\ InsertAt(s, n, e) \in Seq(S)
         /\ IsInjective(InsertAt(s, n, e))
         /\ Range(InsertAt(s, n, e)) = Range(s) \cup {e}
<1>. DEFINE r == InsertAt(s, n, e)
<1>6. /\ r \in Seq(S) /\ Len(r) = Len(s) + 1
      /\ \A j \in 1 .. Len(s) + 1 :
            r[j] = IF j < n THEN s[j] ELSE IF j = n THEN e ELSE s[j-1]
  BY InsertAtElements
<1>. HIDE DEF r
<1>7. \A i \in 1 .. Len(s) : s[i] # e
  BY DEF Range
<1>8. IsInjective(r)
  <2>1. ASSUME NEW i \in 1 .. Len(r), NEW j \in 1 .. Len(r), r[i] = r[j]
        PROVE  i = j
    <3>. DEFINE f(x) == IF x < n THEN x ELSE x - 1
    <3>0. ASSUME NEW q \in 1 .. Len(r), q # n PROVE r[q] # e
      <4>1. CASE q < n
        BY <3>0, <4>1, <1>6, <1>7
      <4>2. CASE q > n
        <5>1. q - 1 \in 1 .. Len(s) /\ r[q] = s[q - 1]
          BY <4>2, <1>6
        <5>. QED
          BY <5>1, <1>7
      <4>. QED
        BY <3>0, <4>1, <4>2, <1>6
    <3>1. CASE i = n \/ j = n
      <4>1. r[n] = e /\ n \in 1 .. Len(r)
        BY <1>6
      <4>. QED
        BY <3>1, <2>1, <4>1, <3>0
    <3>2. CASE i # n /\ j # n
      <4>1. /\ f(i) \in 1 .. Len(s) /\ f(j) \in 1 .. Len(s)
            /\ s[f(i)] = r[i] /\ s[f(j)] = r[j]
        BY <3>2, <1>6
      <4>2. f(i) = f(j)
        BY <2>1, <4>1 DEF IsInjective
      <4>. QED
        BY <4>2, <3>2
    <3>. QED
      BY <3>1, <3>2
  <2>. QED
    BY <2>1, <1>6 DEF IsInjective
<1>9. Range(r) = Range(s) \cup {e}
  <2>1. ASSUME NEW i \in 1 .. Len(r) PROVE r[i] \in Range(s) \cup {e}
    <3>1. CASE i = n
      BY <3>1, <1>6
    <3>2. CASE i < n
      BY <3>2, <1>6 DEF Range
    <3>3. CASE i > n
      <4>1. i - 1 \in DOMAIN s /\ r[i] = s[i-1]
        BY <3>3, <1>6
      <4>. QED
        BY <4>1 DEF Range
    <3>. QED
      BY <3>1, <3>2, <3>3
  <2>2. ASSUME NEW i \in 1 .. Len(s) PROVE s[i] \in Range(r)
    <3>1. CASE i < n
      BY <3>1, <1>6 DEF Range
    <3>2. CASE i >= n
      <4>1. i + 1 \in DOMAIN r /\ r[i+1] = s[i]
        BY <3>2, <1>6
      <4>. QED
        BY <4>1 DEF Range
    <3>. QED
      BY <3>1, <3>2
  <2>3. e \in Range(r)
    BY <1>6 DEF Range
  <2>4. Range(r) \subseteq Range(s) \cup {e}
    BY <1>6, <2>1 DEF Range
  <2>5. Range(s) \subseteq Range(r)
    BY <2>2 DEF Range
  <2>. QED
    BY <2>3, <2>4, <2>5
<1>. QED
  BY <1>6, <1>8, <1>9 DEF r

\* A list is empty when nothing is in it; its head is in it.
LEMMA ListRange ==
  ASSUME NEW S, NEW s \in Seq(S)
  PROVE  /\ Range(s) \in SUBSET S
         /\ s # << >> <=> Range(s) # {}
         /\ s # << >> => Head(s) \in Range(s)
BY DEF Range

-----------------------------------------------------------------------------
(* Kernel routines. *)

\* Half-way through a routine thread t is on no list, and everything else is
\* as KernelOK wants it.
Detached(K, t) ==
    /\ \A p \in Prio : IsInjective(K.ready[p]) /\ t \notin Range(K.ready[p])
    /\ \A u \in Thread \ {t}, p \in Prio :
          u \in Range(K.ready[p]) <=> (K.stat[u] = "READY" /\ K.prio[u] = p)
    /\ GroupMatches(K)
    /\ WaitLists(K)
    /\ \A w \in WaitList : t \notin Range(K.wait[w])
    /\ TimersOfSuspended(K)
    /\ t # Idle => K.stat[Idle] = "READY"

LEMMA KernelTypeFields ==
  ASSUME NEW K \in KernelType
  PROVE  /\ K.ready \in [Prio -> Seq(Thread)]
         /\ K.group \in SUBSET Prio
         /\ K.wait \in [WaitList -> Seq(Thread)]
         /\ K.stat \in [Thread -> Stat]
         /\ K.prio \in [Thread -> Prio]
         /\ K.error \in [Thread -> Error]
         /\ K.timer \in [Thread -> Nat]
         /\ K.due \in SUBSET Thread
         /\ K.cur \in Thread
         /\ K.lock \in Nat
         /\ K.irqOff \in BOOLEAN
BY DEF KernelType

\* The suspend lists with thread t taken out of them.
Without(lists, t) == [w \in WaitList |-> RemoveFirst(lists[w], t)]

LEMMA WithoutAbsent ==
  ASSUME NEW lists \in [WaitList -> Seq(Thread)], NEW t,
         \A w \in WaitList : t \notin Range(lists[w])
  PROVE  Without(lists, t) = lists
<1>1. ASSUME NEW w \in WaitList PROVE RemoveFirst(lists[w], t) = lists[w]
  BY DEF RemoveFirst, Range
<1>. QED
  BY <1>1 DEF Without

LEMMA UnlinkLists ==
  ASSUME NEW K \in KernelType, NEW t \in Thread,
         \A p \in Prio : IsInjective(K.ready[p]),
         \A w \in WaitList : IsInjective(K.wait[w])
  PROVE  LET u == Unlink(K, t) IN
         /\ u \in KernelType
         /\ u = [K EXCEPT !.ready = u.ready, !.wait = u.wait]
         /\ u.wait = Without(K.wait, t)
         /\ \A p \in Prio : /\ IsInjective(u.ready[p])
                            /\ Range(u.ready[p]) = Range(K.ready[p]) \ {t}
         /\ \A w \in WaitList : /\ IsInjective(u.wait[w])
                                /\ Range(u.wait[w]) = Range(K.wait[w]) \ {t}
<1>. DEFINE r == [p \in Prio |-> RemoveFirst(K.ready[p], t)]
            v == [w \in WaitList |-> RemoveFirst(K.wait[w], t)]
            u == Unlink(K, t)
<1>0. v = Without(K.wait, t)
  BY DEF Without
<1>1. \A p \in Prio : /\ r[p] \in Seq(Thread) /\ IsInjective(r[p])
                     /\ Range(r[p]) = Range(K.ready[p]) \ {t}
  BY KernelTypeFields, RemoveFirstProperties
<1>2. \A w \in WaitList : /\ v[w] \in Seq(Thread) /\ IsInjective(v[w])
                         /\ Range(v[w]) = Range(K.wait[w]) \ {t}
  BY KernelTypeFields, RemoveFirstProperties
<1>3. r \in [Prio -> Seq(Thread)] /\ v \in [WaitList -> Seq(Thread)]
  BY <1>1, <1>2
<1>4. u = [K EXCEPT !.ready = r, !.wait = v]
  BY DEF Unlink
<1>. HIDE DEF r, v, u
<1>5. u.ready = r /\ u.wait = v
  BY <1>4 DEF KernelType
<1>6. u \in KernelType
  BY <1>3, <1>4 DEF KernelType
<1>. QED
  BY <1>0, <1>1, <1>2, <1>4, <1>5, <1>6 DEF u

LEMMA InsertThreadOK ==
  ASSUME NEW K \in KernelType, NEW t \in Thread, Detached(K, t), K.timer[t] = 0
  PROVE  LET j == InsertThread(K, t) IN
         /\ j \in KernelType /\ KernelOK(j)
         /\ j = [K EXCEPT !.stat = j.stat, !.ready = j.ready, !.group = j.group]
         /\ j.stat = [K.stat EXCEPT ![t] = "READY"]
<1>. DEFINE j == InsertThread(K, t)
            p0 == K.prio[t]
            r == [K.ready EXCEPT ![p0] = Append(@, t)]
<1>0. /\ K.ready \in [Prio -> Seq(Thread)] /\ p0 \in Prio
      /\ K.stat \in [Thread -> Stat] /\ K.group \in SUBSET Prio
      /\ K.prio \in [Thread -> Prio]
  BY KernelTypeFields
<1>1. /\ r[p0] \in Seq(Thread) /\ IsInjective(r[p0]) /\ r[p0] # << >>
      /\ Range(r[p0]) = Range(K.ready[p0]) \cup {t}
  BY <1>0, AppendList DEF Detached
<1>2. \A p \in Prio \ {p0} : r[p] = K.ready[p]
  BY <1>0
<1>3. /\ r \in [Prio -> Seq(Thread)]
  BY <1>0, <1>1
<1>4. /\ j = [K EXCEPT !.stat = [K.stat EXCEPT ![t] = "READY"],
                       !.ready = r, !.group = K.group \cup {p0}]
  BY <1>0 DEF InsertThread, KernelType
<1>. HIDE DEF j, r, p0
<1>5. /\ j.ready = r /\ j.group = K.group \cup {p0}
      /\ j.stat = [K.stat EXCEPT ![t] = "READY"]
      /\ j.wait = K.wait /\ j.prio = K.prio /\ j.timer = K.timer /\ j.due = K.due
  BY <1>4 DEF KernelType
<1>6. j \in KernelType
  BY <1>0, <1>3, <1>4 DEF KernelType, Stat
<1>7. ReadyLists(j)
  <2>1. \A p \in Prio : IsInjective(j.ready[p])
    BY <1>1, <1>2, <1>5 DEF Detached
  <2>2. ASSUME NEW u \in Thread \ {t}, NEW p \in Prio
        PROVE  u \in Range(j.ready[p]) <=> (j.stat[u] = "READY" /\ j.prio[u] = p)
    <3>1. u \in Range(j.ready[p]) <=> u \in Range(K.ready[p])
      BY <1>1, <1>2, <1>5
    <3>2. j.stat[u] = K.stat[u] /\ j.prio[u] = K.prio[u]
      BY <1>0, <1>5
    <3>. QED
      BY <3>1, <3>2 DEF Detached
  <2>3. ASSUME NEW p \in Prio
        PROVE  t \in Range(j.ready[p]) <=> (j.stat[t] = "READY" /\ j.prio[t] = p)
    <3>1. t \in Range(j.ready[p]) <=> p = p0
      BY <1>1, <1>2, <1>5 DEF Detached
    <3>2. j.stat[t] = "READY" /\ j.prio[t] = p0
      BY <1>0, <1>5 DEF p0
    <3>. QED
      BY <3>1, <3>2
  <2>. QED
    BY <2>1, <2>2, <2>3 DEF ReadyLists
<1>8. GroupMatches(j)
  BY <1>0, <1>1, <1>2, <1>5 DEF GroupMatches, Detached
<1>9. WaitLists(j)
  BY <1>0, <1>5 DEF WaitLists, Detached
<1>10. TimersOfSuspended(j)
  BY <1>0, <1>5 DEF TimersOfSuspended, Detached
<1>11. j.stat[Idle] = "READY"
  BY <1>0, <1>5, KernelAssumption DEF Detached
<1>. QED
  BY <1>4, <1>5, <1>6, <1>7, <1>8, <1>9, <1>10, <1>11 DEF KernelOK, j

\* Taking a suspended thread off its list, as rt_thread_resume and
\* rt_thread_timeout begin.
LEMMA UnlinkSuspended ==
  ASSUME NEW K \in KernelType, NEW t \in Thread, KernelOK(K), K.stat[t] = "SUSPEND"
  PROVE  LET u == Unlink(K, t) IN
         /\ u \in KernelType /\ Detached(u, t)
         /\ u = [K EXCEPT !.ready = u.ready, !.wait = u.wait]
         /\ u.wait = Without(K.wait, t)
         /\ \A w \in WaitList : Range(u.wait[w]) = Range(K.wait[w]) \ {t}
<1>. DEFINE u == Unlink(K, t)
<1>0. /\ \A p \in Prio : IsInjective(K.ready[p])
      /\ \A w \in WaitList : IsInjective(K.wait[w])
  BY DEF KernelOK, ReadyLists, WaitLists
<1>1. /\ u \in KernelType
      /\ u = [K EXCEPT !.ready = u.ready, !.wait = u.wait]
      /\ u.wait = Without(K.wait, t)
      /\ \A p \in Prio : /\ IsInjective(u.ready[p])
                         /\ Range(u.ready[p]) = Range(K.ready[p]) \ {t}
      /\ \A w \in WaitList : /\ IsInjective(u.wait[w])
                             /\ Range(u.wait[w]) = Range(K.wait[w]) \ {t}
  BY <1>0, UnlinkLists
<1>. HIDE DEF u
<1>2. /\ u.stat = K.stat /\ u.prio = K.prio /\ u.group = K.group
      /\ u.timer = K.timer /\ u.due = K.due
  BY <1>1 DEF KernelType
<1>3. \A p \in Prio : t \notin Range(K.ready[p])
  BY DEF KernelOK, ReadyLists
<1>4. ASSUME NEW p \in Prio PROVE Range(u.ready[p]) = Range(K.ready[p])
  <2>1. Range(u.ready[p]) = Range(K.ready[p]) \ {t} /\ t \notin Range(K.ready[p])
    BY <1>1, <1>3
  <2>. QED
    BY <2>1
<1>5. GroupMatches(u)
  <2>1. \A p \in Prio : u.ready[p] # << >> <=> K.ready[p] # << >>
    BY <1>1, <1>4, KernelTypeFields, ListRange
  <2>. QED
    BY <1>2, <2>1 DEF KernelOK, GroupMatches
<1>6. WaitLists(u)
  BY <1>1, <1>2 DEF KernelOK, WaitLists
<1>7. TimersOfSuspended(u)
  BY <1>2 DEF KernelOK, TimersOfSuspended
<1>. QED
  BY <1>1, <1>2, <1>3, <1>4, <1>5, <1>6, <1>7 DEF KernelOK, ReadyLists, Detached, u

\* rt_thread_resume
LEMMA ResumeOK ==
  ASSUME NEW K \in KernelType, NEW t \in Thread, KernelOK(K), t \notin K.due
  PROVE  LET j == Resume(K, t) IN
         /\ j \in KernelType /\ KernelOK(j)
         /\ j.error = K.error /\ j.due = K.due /\ j.cur = K.cur
         /\ j.lock = K.lock /\ j.irqOff = K.irqOff /\ j.prio = K.prio
         /\ K.stat[t] = "SUSPEND" =>
               /\ j.stat = [K.stat EXCEPT ![t] = "READY"]
               /\ j.wait = Without(K.wait, t)
               /\ \A w \in WaitList : Range(j.wait[w]) = Range(K.wait[w]) \ {t}
<1>1. CASE K.stat[t] # "SUSPEND"
  BY <1>1 DEF Resume
<1>2. CASE K.stat[t] = "SUSPEND"
  <2>. DEFINE u == Unlink(K, t)
              v == [u EXCEPT !.timer[t] = 0]
              j == InsertThread(v, t)
  <2>1. /\ u \in KernelType /\ Detached(u, t)
        /\ u = [K EXCEPT !.ready = u.ready, !.wait = u.wait]
        /\ u.wait = Without(K.wait, t)
        /\ \A w \in WaitList : Range(u.wait[w]) = Range(K.wait[w]) \ {t}
    BY <1>2, UnlinkSuspended
  <2>. HIDE DEF u
  <2>2. /\ v \in KernelType /\ v.timer = [u.timer EXCEPT ![t] = 0]
        /\ v = [u EXCEPT !.timer = v.timer]
        /\ u.timer \in [Thread -> Nat]
    BY <2>1 DEF KernelType
  <2>. HIDE DEF v
  <2>3. /\ v.ready = u.ready /\ v.wait = u.wait /\ v.stat = u.stat /\ v.prio = u.prio
        /\ v.group = u.group /\ v.due = u.due /\ u.due = K.due /\ K.due \in SUBSET Thread
    BY <2>1, <2>2 DEF KernelType
  <2>4. Detached(v, t) /\ v.timer[t] = 0
    <3>1. TimersOfSuspended(v)
      <4>1. TimersOfSuspended(u)
        BY <2>1 DEF Detached
      <4>2. \A x \in Thread : v.timer[x] = IF x = t THEN 0 ELSE u.timer[x]
        BY <2>2
      <4>. QED
        BY <2>3, <4>1, <4>2 DEF TimersOfSuspended
    <3>. QED
      BY <2>1, <2>2, <2>3, <3>1 DEF Detached, GroupMatches, WaitLists
  <2>5. /\ j \in KernelType /\ KernelOK(j)
        /\ j = [v EXCEPT !.stat = j.stat, !.ready = j.ready, !.group = j.group]
        /\ j.stat = [v.stat EXCEPT ![t] = "READY"]
    BY <2>2, <2>4, InsertThreadOK
  <2>6. Resume(K, t) = j
    BY <1>2 DEF Resume, u, v
  <2>. HIDE DEF j
  <2>7. /\ j.error = K.error /\ j.due = K.due /\ j.cur = K.cur
        /\ j.lock = K.lock /\ j.irqOff = K.irqOff /\ j.prio = K.prio
    <3>1. /\ u.error = K.error /\ u.due = K.due /\ u.cur = K.cur
          /\ u.lock = K.lock /\ u.irqOff = K.irqOff /\ u.prio = K.prio
      BY <2>1 DEF KernelType
    <3>2. /\ v.error = u.error /\ v.due = u.due /\ v.cur = u.cur
          /\ v.lock = u.lock /\ v.irqOff = u.irqOff /\ v.prio = u.prio
      BY <2>2 DEF KernelType
    <3>3. /\ j.error = v.error /\ j.due = v.due /\ j.cur = v.cur
          /\ j.lock = v.lock /\ j.irqOff = v.irqOff /\ j.prio = v.prio
      BY <2>2, <2>5 DEF KernelType
    <3>. QED
      BY <3>1, <3>2, <3>3
  <2>8. j.stat = [K.stat EXCEPT ![t] = "READY"] /\ j.wait = u.wait
    <3>1. u.stat = K.stat
      BY <2>1 DEF KernelType
    <3>2. j.wait = v.wait
      BY <2>2, <2>5 DEF KernelType
    <3>. QED
      BY <2>3, <2>5, <3>1, <3>2
  <2>. QED
    BY <2>1, <2>5, <2>6, <2>7, <2>8
<1>. QED
  BY <1>1, <1>2

\* rt_schedule
LEMMA ScheduleOK ==
  ASSUME NEW K \in KernelType, KernelOK(K)
  PROVE  LET j == Schedule(K) IN
         /\ j \in KernelType /\ KernelOK(j)
         /\ j = [K EXCEPT !.cur = j.cur]
         /\ K.lock = 0 => /\ j.stat[j.cur] = "READY"
                          /\ \A u \in Thread : j.stat[u] = "READY" => j.prio[j.cur] <= j.prio[u]
<1>. DEFINE j == Schedule(K)
            m == Min(K.group)
<1>1. CASE K.lock # 0
  <2>1. j = K
    BY <1>1 DEF Schedule
  <2>. QED
    BY <1>1, <2>1 DEF KernelType
<1>2. CASE K.lock = 0
  <2>1. /\ K.prio[Idle] \in K.group /\ K.group \in SUBSET (0 .. PrioMax - 1)
        /\ PrioMax - 1 \in Nat
    <3>1. Idle \in Range(K.ready[K.prio[Idle]])
      BY KernelTypeFields, KernelAssumption DEF KernelOK, ReadyLists
    <3>2. K.prio[Idle] \in Prio /\ K.group \in SUBSET Prio /\ PrioMax \in Nat
      BY KernelTypeFields, KernelAssumption
    <3>3. K.ready[K.prio[Idle]] # << >>
      BY <3>1, <3>2, KernelTypeFields, ListRange
    <3>4. K.prio[Idle] \in K.group
      BY <3>2, <3>3 DEF KernelOK, GroupMatches
    <3>. QED
      BY <3>2, <3>4 DEF Prio
  <2>2. m \in K.group /\ m \in Prio /\ \A p \in K.group : m <= p
    BY <2>1, MinOfRange DEF Prio
  <2>. HIDE DEF m
  <2>3. Head(K.ready[m]) \in Range(K.ready[m]) /\ Range(K.ready[m]) \in SUBSET Thread
    BY <2>2, KernelTypeFields, ListRange DEF KernelOK, GroupMatches
  <2>4. j = [K EXCEPT !.cur = Head(K.ready[m])]
    BY <1>2 DEF Schedule, m
  <2>. HIDE DEF j
  <2>5. /\ j \in KernelType /\ j.cur = Head(K.ready[m])
        /\ j.ready = K.ready /\ j.group = K.group /\ j.wait = K.wait /\ j.stat = K.stat
        /\ j.prio = K.prio /\ j.timer = K.timer /\ j.due = K.due
    BY <2>3, <2>4 DEF KernelType
  <2>6. KernelOK(j)
    BY <2>5 DEF KernelOK, ReadyLists, GroupMatches, WaitLists, TimersOfSuspended
  <2>7. j.stat[j.cur] = "READY" /\ j.prio[j.cur] = m
    BY <2>2, <2>3, <2>5 DEF KernelOK, ReadyLists
  <2>8. ASSUME NEW u \in Thread, j.stat[u] = "READY" PROVE m <= j.prio[u]
    <3>1. u \in Range(K.ready[K.prio[u]])
      BY <2>5, <2>8, KernelTypeFields DEF KernelOK, ReadyLists
    <3>2. K.prio[u] \in K.group
      BY <3>1, KernelTypeFields, ListRange DEF KernelOK, GroupMatches
    <3>. QED
      BY <2>2, <2>5, <3>2
  <2>. QED
    BY <2>4, <2>5, <2>6, <2>7, <2>8 DEF j
<1>. QED
  BY <1>1, <1>2

\* rt_schedule_remove_thread, called while the thread is on the ready list of
\* its own priority
LEMMA RemoveThreadLists ==
  ASSUME NEW K \in KernelType, NEW t \in Thread, GroupMatches(K),
         \A p \in Prio : IsInjective(K.ready[p]),
         \A w \in WaitList : IsInjective(K.wait[w]),
         \A p \in Prio : t \in Range(K.ready[p]) <=> p = K.prio[t]
  PROVE  LET j == RemoveThread(K, t) IN
         /\ j \in KernelType /\ GroupMatches(j)
         /\ j = [K EXCEPT !.ready = j.ready, !.wait = j.wait, !.group = j.group]
         /\ j.wait = Without(K.wait, t)
         /\ \A p \in Prio : /\ IsInjective(j.ready[p])
                            /\ Range(j.ready[p]) = Range(K.ready[p]) \ {t}
         /\ \A w \in WaitList : /\ IsInjective(j.wait[w])
                                /\ Range(j.wait[w]) = Range(K.wait[w]) \ {t}
<1>. DEFINE u == Unlink(K, t)
            p0 == K.prio[t]
            j == RemoveThread(K, t)
<1>1. /\ u \in KernelType
      /\ u = [K EXCEPT !.ready = u.ready, !.wait = u.wait]
      /\ u.wait = Without(K.wait, t)
      /\ \A p \in Prio : /\ IsInjective(u.ready[p])
                         /\ Range(u.ready[p]) = Range(K.ready[p]) \ {t}
      /\ \A w \in WaitList : /\ IsInjective(u.wait[w])
                             /\ Range(u.wait[w]) = Range(K.wait[w]) \ {t}
  BY UnlinkLists
<1>3. j = [u EXCEPT !.group = IF u.ready[u.prio[t]] = << >> THEN @ \ {u.prio[t]} ELSE @]
  BY DEF RemoveThread
<1>. HIDE DEF u, j
<1>4. /\ u.prio = K.prio /\ u.group = K.group /\ p0 \in Prio /\ K.group \in SUBSET Prio
  BY <1>1 DEF KernelType
<1>5. /\ j.ready = u.ready /\ j.wait = u.wait
      /\ j.group = IF u.ready[p0] = << >> THEN K.group \ {p0} ELSE K.group
  BY <1>1, <1>3, <1>4 DEF KernelType
<1>6. j \in KernelType /\ j = [K EXCEPT !.ready = j.ready, !.wait = j.wait, !.group = j.group]
  BY <1>1, <1>3, <1>4, <1>5 DEF KernelType
<1>7. ASSUME NEW p \in Prio, p # p0 PROVE p \in j.group <=> j.ready[p] # << >>
  <2>1. Range(u.ready[p]) = Range(K.ready[p]) \ {t} /\ t \notin Range(K.ready[p])
    BY <1>1, <1>7
  <2>2. Range(u.ready[p]) = Range(K.ready[p])
    BY <2>1
  <2>3. u.ready[p] # << >> <=> K.ready[p] # << >>
    BY <2>2, <1>1, KernelTypeFields, ListRange
  <2>. QED
    BY <1>5, <1>7, <2>3 DEF GroupMatches
<1>8. p0 \in j.group <=> j.ready[p0] # << >>
  <2>1. t \in Range(K.ready[p0])
    BY <1>4
  <2>2. p0 \in K.group
    BY <1>4, <2>1, KernelTypeFields, ListRange DEF GroupMatches
  <2>. QED
    BY <1>5, <2>2
<1>9. GroupMatches(j)
  BY <1>7, <1>8 DEF GroupMatches
<1>. QED
  BY <1>1, <1>5, <1>6, <1>9 DEF j

\* rt_thread_suspend on a ready thread
LEMMA SuspendOK ==
  ASSUME NEW K \in KernelType, NEW t \in Thread \ {Idle}, KernelOK(K), K.stat[t] = "READY"
  PROVE  LET j == Suspend(K, t) IN
         /\ j \in KernelType /\ KernelOK(j)
         /\ j = [K EXCEPT !.stat = j.stat, !.ready = j.ready, !.group = j.group]
         /\ j.stat = [K.stat EXCEPT ![t] = "SUSPEND"]
         /\ \A w \in WaitList : t \notin Range(K.wait[w])
<1>. DEFINE h == [K EXCEPT !.stat[t] = "SUSPEND"]
            j == RemoveThread(h, t)
<1>1. /\ h \in KernelType /\ h = [K EXCEPT !.stat = h.stat]
      /\ h.stat = [K.stat EXCEPT ![t] = "SUSPEND"]
      /\ K.stat \in [Thread -> Stat] /\ K.prio[t] \in Prio
  BY DEF KernelType, Stat
<1>2. Suspend(K, t) = j
  BY DEF Suspend
<1>. HIDE DEF h
<1>3. /\ h.ready = K.ready /\ h.wait = K.wait /\ h.group = K.group /\ h.prio = K.prio
      /\ h.timer = K.timer /\ h.due = K.due
  BY <1>1 DEF KernelType
<1>4. /\ j \in KernelType /\ GroupMatches(j)
      /\ j = [h EXCEPT !.ready = j.ready, !.wait = j.wait, !.group = j.group]
      /\ j.wait = Without(h.wait, t)
      /\ \A p \in Prio : /\ IsInjective(j.ready[p])
                         /\ Range(j.ready[p]) = Range(h.ready[p]) \ {t}
      /\ \A w \in WaitList : /\ IsInjective(j.wait[w])
                             /\ Range(j.wait[w]) = Range(h.wait[w]) \ {t}
  <2>1. /\ h \in KernelType /\ GroupMatches(h)
        /\ \A p \in Prio : IsInjective(h.ready[p])
        /\ \A w \in WaitList : IsInjective(h.wait[w])
        /\ \A p \in Prio : t \in Range(h.ready[p]) <=> p = h.prio[t]
    BY <1>1, <1>3 DEF KernelOK, ReadyLists, WaitLists, GroupMatches
  <2>. HIDE DEF j
  <2>. QED
    BY <2>1, RemoveThreadLists DEF j
<1>. HIDE DEF j
<1>6. j.stat = h.stat /\ j.prio = K.prio /\ j.timer = K.timer /\ j.due = K.due
  BY <1>1, <1>3, <1>4 DEF KernelType
<1>8. j.wait = K.wait /\ \A w \in WaitList : t \notin Range(K.wait[w])
  <2>1. \A w \in WaitList : t \notin Range(K.wait[w])
    BY DEF KernelOK, WaitLists
  <2>. QED
    BY <1>3, <1>4, <2>1, WithoutAbsent, KernelTypeFields
<1>9. ReadyLists(j)
  <2>1. \A p \in Prio : IsInjective(j.ready[p])
    BY <1>3, <1>4, <1>6
  <2>2. ASSUME NEW x \in Thread, NEW p \in Prio
        PROVE  x \in Range(j.ready[p]) <=> (j.stat[x] = "READY" /\ j.prio[x] = p)
    <3>1. x \in Range(j.ready[p]) <=> x \in Range(K.ready[p]) /\ x # t
      BY <1>3, <1>4, <1>6
    <3>2. j.stat[x] = IF x = t THEN "SUSPEND" ELSE K.stat[x]
      BY <1>1, <1>6
    <3>. QED
      BY <3>1, <3>2, <1>6 DEF KernelOK, ReadyLists
  <2>. QED
    BY <2>1, <2>2 DEF ReadyLists
<1>11. WaitLists(j)
  <2>1. \A x \in Thread : K.stat[x] = "SUSPEND" => j.stat[x] = "SUSPEND"
    BY <1>1, <1>6
  <2>2. \A w \in WaitList : IsInjective(j.wait[w]) /\ Range(K.wait[w]) \in SUBSET Thread
    BY <1>3, <1>4, <1>6, KernelTypeFields, ListRange
  <2>. QED
    BY <1>8, <2>1, <2>2 DEF KernelOK, WaitLists
<1>12. TimersOfSuspended(j) /\ j.stat[Idle] = "READY"
  <2>1. \A x \in Thread : j.stat[x] = IF x = t THEN "SUSPEND" ELSE K.stat[x]
    BY <1>1, <1>6
  <2>. QED
    BY <2>1, <1>6, KernelAssumption DEF KernelOK, TimersOfSuspended
<1>13. j = [K EXCEPT !.stat = j.stat, !.ready = j.ready, !.group = j.group]
  <2>1. j = [h EXCEPT !.ready = j.ready, !.wait = h.wait, !.group = j.group]
    BY <1>3, <1>4, <1>8
  <2>2. j = [h EXCEPT !.ready = j.ready, !.group = j.group]
    <3>1. h = [h EXCEPT !.wait = h.wait]
      BY <1>1 DEF KernelType
    <3>2. [h EXCEPT !.ready = j.ready, !.wait = h.wait, !.group = j.group]
             = [[h EXCEPT !.wait = h.wait] EXCEPT !.ready = j.ready, !.group = j.group]
      BY <1>1 DEF KernelType
    <3>. QED
      BY <2>1, <3>1, <3>2
  <2>. QED
    BY <1>1, <1>6, <2>2 DEF KernelType
<1>14. KernelOK(j)
  BY <1>4, <1>9, <1>11, <1>12 DEF KernelOK
<1>15. j.stat = [K.stat EXCEPT ![t] = "SUSPEND"]
  BY <1>1, <1>6
<1>. QED
  BY <1>2, <1>4, <1>8, <1>13, <1>14, <1>15

\* rt_thread_control(RT_THREAD_CTRL_CHANGE_PRIORITY)
LEMMA ChangePriorityOK ==
  ASSUME NEW K \in KernelType, NEW t \in Thread, NEW p \in Prio, KernelOK(K)
  PROVE  LET j == ChangePriority(K, t, p) IN
         /\ j \in KernelType /\ KernelOK(j)
         /\ j.stat = K.stat /\ j.wait = K.wait /\ j.error = K.error /\ j.cur = K.cur
         /\ j.lock = K.lock /\ j.due = K.due /\ j.irqOff = K.irqOff
         /\ j.prio = [K.prio EXCEPT ![t] = p]
<1>1. CASE K.stat[t] = "READY"
  <2>. DEFINE r == RemoveThread(K, t)
              v == [r EXCEPT !.prio[t] = p]
              j == InsertThread(v, t)
  <2>1. /\ r \in KernelType /\ GroupMatches(r)
        /\ r = [K EXCEPT !.ready = r.ready, !.wait = r.wait, !.group = r.group]
        /\ r.wait = Without(K.wait, t)
        /\ \A q \in Prio : /\ IsInjective(r.ready[q])
                           /\ Range(r.ready[q]) = Range(K.ready[q]) \ {t}
    <3>1. /\ GroupMatches(K)
          /\ \A q \in Prio : IsInjective(K.ready[q])
          /\ \A w \in WaitList : IsInjective(K.wait[w])
          /\ \A q \in Prio : t \in Range(K.ready[q]) <=> q = K.prio[t]
      BY <1>1 DEF KernelOK, ReadyLists, WaitLists
    <3>. HIDE DEF r
    <3>. QED
      BY <3>1, RemoveThreadLists DEF r
  <2>. HIDE DEF r
  <2>2. /\ v \in KernelType /\ v = [r EXCEPT !.prio = v.prio]
        /\ v.prio = [r.prio EXCEPT ![t] = p] /\ r.prio \in [Thread -> Prio]
    BY <2>1 DEF KernelType
  <2>. HIDE DEF v
  <2>3. \A w \in WaitList : t \notin Range(K.wait[w])
    BY <1>1 DEF KernelOK, WaitLists
  <2>4. r.wait = K.wait
    BY <2>1, <2>3, WithoutAbsent, KernelTypeFields
  <2>5. /\ v.ready = r.ready /\ v.group = r.group /\ v.wait = K.wait /\ v.stat = K.stat
        /\ v.timer = K.timer /\ v.due = K.due /\ v.error = K.error /\ v.cur = K.cur
        /\ v.lock = K.lock /\ v.irqOff = K.irqOff /\ r.prio = K.prio
    <3>1. /\ r.stat = K.stat /\ r.timer = K.timer /\ r.due = K.due /\ r.error = K.error
          /\ r.cur = K.cur /\ r.lock = K.lock /\ r.irqOff = K.irqOff /\ r.prio = K.prio
      BY <2>1 DEF KernelType
    <3>2. /\ v.ready = r.ready /\ v.group = r.group /\ v.wait = r.wait /\ v.stat = r.stat
          /\ v.timer = r.timer /\ v.due = r.due /\ v.error = r.error /\ v.cur = r.cur
          /\ v.lock = r.lock /\ v.irqOff = r.irqOff
      BY <2>1, <2>2 DEF KernelType
    <3>. QED
      BY <2>4, <3>1, <3>2
  <2>6. Detached(v, t) /\ v.timer[t] = 0
    <3>1. ASSUME NEW u \in Thread \ {t}, NEW q \in Prio
          PROVE  u \in Range(v.ready[q]) <=> (v.stat[u] = "READY" /\ v.prio[u] = q)
      <4>1. v.prio[u] = K.prio[u]
        BY <2>2, <2>5
      <4>2. u \in Range(v.ready[q]) <=> u \in Range(K.ready[q])
        BY <2>1, <2>5
      <4>. QED
        BY <2>5, <4>1, <4>2 DEF KernelOK, ReadyLists
    <3>2. \A q \in Prio : IsInjective(v.ready[q]) /\ t \notin Range(v.ready[q])
      BY <2>1, <2>5
    <3>3. GroupMatches(v)
      BY <2>1, <2>5 DEF GroupMatches
    <3>4. WaitLists(v) /\ \A w \in WaitList : t \notin Range(v.wait[w])
      BY <2>3, <2>5 DEF KernelOK, WaitLists
    <3>5. TimersOfSuspended(v) /\ v.timer[t] = 0
      BY <1>1, <2>5 DEF KernelOK, TimersOfSuspended
    <3>. QED
      BY <2>5, <3>1, <3>2, <3>3, <3>4, <3>5 DEF Detached, KernelOK
  <2>7. /\ j \in KernelType /\ KernelOK(j)
        /\ j = [v EXCEPT !.stat = j.stat, !.ready = j.ready, !.group = j.group]
        /\ j.stat = [v.stat EXCEPT ![t] = "READY"]
    BY <2>2, <2>6, InsertThreadOK
  <2>8. ChangePriority(K, t, p) = j
    BY <1>1 DEF ChangePriority, r, v
  <2>. HIDE DEF j
  <2>9. /\ j.wait = v.wait /\ j.error = v.error /\ j.cur = v.cur
        /\ j.lock = v.lock /\ j.due = v.due /\ j.irqOff = v.irqOff /\ j.prio = v.prio
    BY <2>2, <2>7 DEF KernelType
  <2>10. j.stat = K.stat
    <3>1. K.stat \in [Thread -> Stat] /\ j.stat = [K.stat EXCEPT ![t] = "READY"]
      BY <2>5, <2>7, KernelTypeFields
    <3>. QED
      BY <1>1, <3>1
  <2>. QED
    BY <2>2, <2>5, <2>7, <2>8, <2>9, <2>10
<1>2. CASE K.stat[t] # "READY"
  <2>. DEFINE j == [K EXCEPT !.prio[t] = p]
  <2>1. /\ j \in KernelType /\ j.prio = [K.prio EXCEPT ![t] = p] /\ K.prio \in [Thread -> Prio]
        /\ j.ready = K.ready /\ j.group = K.group /\ j.wait = K.wait /\ j.stat = K.stat
        /\ j.timer = K.timer /\ j.due = K.due /\ j.error = K.error /\ j.cur = K.cur
        /\ j.lock = K.lock /\ j.irqOff = K.irqOff
    BY DEF KernelType
  <2>2. ChangePriority(K, t, p) = j
    BY <1>2 DEF ChangePriority
  <2>. HIDE DEF j
  <2>3. ReadyLists(j)
    <3>1. \A u \in Thread : j.prio[u] = IF u = t THEN p ELSE K.prio[u]
      BY <2>1
    <3>. QED
      BY <1>2, <2>1, <3>1 DEF KernelOK, ReadyLists
  <2>4. KernelOK(j)
    BY <2>1, <2>3 DEF KernelOK, GroupMatches, WaitLists, TimersOfSuspended
  <2>. QED
    BY <2>1, <2>2, <2>4
<1>. QED
  BY <1>1, <1>2

\* rt_timer_start on the timer of a thread that has just been suspended
LEMMA StartTimerOK ==
  ASSUME NEW K \in KernelType, NEW t \in Thread, NEW time \in Nat,
         KernelOK(K), K.stat[t] = "SUSPEND"
  PROVE  LET j == StartTimer(K, t, time) IN
         /\ j \in KernelType /\ KernelOK(j)
         /\ j = [K EXCEPT !.timer = j.timer]
<1>. DEFINE j == StartTimer(K, t, time)
<1>1. CASE K.timer[t] # 0
  <2>1. j = K
    BY <1>1 DEF StartTimer
  <2>. QED
    BY <2>1 DEF KernelType
<1>2. CASE K.timer[t] = 0
  <2>1. PICK n \in Nat : j = [K EXCEPT !.timer[t] = n]
    BY <1>2 DEF StartTimer
  <2>. HIDE DEF j
  <2>2. /\ j \in KernelType /\ j = [K EXCEPT !.timer = j.timer]
        /\ j.timer = [K.timer EXCEPT ![t] = n] /\ K.timer \in [Thread -> Nat]
        /\ K.due \in SUBSET Thread
    BY <2>1 DEF KernelType
  <2>3. /\ j.ready = K.ready /\ j.group = K.group /\ j.wait = K.wait /\ j.stat = K.stat
        /\ j.prio = K.prio /\ j.due = K.due
    BY <2>2 DEF KernelType
  <2>4. TimersOfSuspended(j)
    <3>1. t \notin K.due
      BY <1>2 DEF KernelOK, TimersOfSuspended
    <3>2. \A x \in Thread : j.timer[x] = IF x = t THEN n ELSE K.timer[x]
      BY <2>2
    <3>. QED
      BY <2>2, <2>3, <3>1, <3>2 DEF KernelOK, TimersOfSuspended
  <2>5. KernelOK(j)
    BY <2>3, <2>4 DEF KernelOK, ReadyLists, GroupMatches, WaitLists
  <2>. QED
    BY <2>2, <2>5 DEF j
<1>. QED
  BY <1>1, <1>2

\* rt_thread_sleep, up to its rt_schedule
LEMMA SleepOK ==
  ASSUME NEW K \in KernelType, NEW t \in Thread \ {Idle}, NEW time \in Nat,
         KernelOK(K), K.stat[t] = "READY"
  PROVE  LET j == StartTimer(Suspend(K, t), t, time) IN
         /\ j \in KernelType /\ KernelOK(j)
         /\ j.cur = K.cur /\ j.lock = K.lock /\ j.irqOff = K.irqOff /\ j.due = K.due
         /\ j.error = K.error /\ j.prio = K.prio /\ j.wait = K.wait
         /\ j.stat = [K.stat EXCEPT ![t] = "SUSPEND"]
<1>. DEFINE s == Suspend(K, t)
            j == StartTimer(s, t, time)
<1>1. /\ s \in KernelType /\ KernelOK(s)
      /\ s = [K EXCEPT !.stat = s.stat, !.ready = s.ready, !.group = s.group]
      /\ s.stat = [K.stat EXCEPT ![t] = "SUSPEND"]
  BY SuspendOK
<1>. HIDE DEF s
<1>2. s.stat[t] = "SUSPEND"
  BY <1>1, KernelTypeFields
<1>3. /\ j \in KernelType /\ KernelOK(j)
      /\ j = [s EXCEPT !.timer = j.timer]
  BY <1>1, <1>2, StartTimerOK
<1>. HIDE DEF j
<1>4. /\ s.cur = K.cur /\ s.lock = K.lock /\ s.irqOff = K.irqOff /\ s.due = K.due /\ s.error = K.error
      /\ s.prio = K.prio /\ s.wait = K.wait
  BY <1>1 DEF KernelType
<1>5. /\ j.cur = s.cur /\ j.lock = s.lock /\ j.irqOff = s.irqOff /\ j.due = s.due
      /\ j.stat = s.stat /\ j.wait = s.wait /\ j.error = s.error /\ j.prio = s.prio
  BY <1>1, <1>3 DEF KernelType
<1>. QED
  BY <1>1, <1>3, <1>4, <1>5 DEF j, s

\* What a section that puts t on list w leaves of kernel K: j.
SuspendedOn(K, j, t, w, flag) ==
    /\ j \in KernelType /\ KernelOK(j)
    /\ j.cur = K.cur /\ j.lock = K.lock /\ j.irqOff = K.irqOff /\ j.due = K.due
    /\ j.prio = K.prio /\ j.stat = [K.stat EXCEPT ![t] = "SUSPEND"]
    /\ j.wait = [K.wait EXCEPT ![w] = InsertAt(K.wait[w], WaitPosition(K, w, t, flag), t)]
    /\ WaitPosition(K, w, t, flag) \in 1 .. Len(K.wait[w]) + 1
    /\ \A v \in WaitList : Range(j.wait[v]) = IF v = w THEN Range(K.wait[v]) \cup {t}
                                                        ELSE Range(K.wait[v])

Blocked(K, j, t, w, flag) == SuspendedOn(K, j, t, w, flag) /\ j.error = [K.error EXCEPT ![t] = "EOK"]

\* rt_ipc_list_suspend
LEMMA ListSuspendOK ==
  ASSUME NEW K \in KernelType, NEW t \in Thread \ {Idle}, NEW w \in WaitList, NEW flag,
         KernelOK(K), K.stat[t] = "READY"
  PROVE  LET j == ListSuspend(K, w, t, flag) IN
         SuspendedOn(K, j, t, w, flag) /\ j.error = K.error /\ j.timer = K.timer
<1>. DEFINE s == Suspend(K, t)
            j == ListSuspend(K, w, t, flag)
            n == WaitPosition(K, w, t, flag)
<1>1. /\ s \in KernelType /\ KernelOK(s)
      /\ s = [K EXCEPT !.stat = s.stat, !.ready = s.ready, !.group = s.group]
      /\ s.stat = [K.stat EXCEPT ![t] = "SUSPEND"]
      /\ \A v \in WaitList : t \notin Range(K.wait[v])
  BY SuspendOK
<1>. HIDE DEF s
<1>7. /\ s.cur = K.cur /\ s.lock = K.lock /\ s.irqOff = K.irqOff /\ s.due = K.due
      /\ s.error = K.error /\ s.timer = K.timer /\ s.prio = K.prio /\ s.wait = K.wait
  BY <1>1 DEF KernelType
<1>2. n \in 1 .. Len(K.wait[w]) + 1
  <2>. DEFINE L == {i \in DOMAIN K.wait[w] : K.prio[t] < K.prio[K.wait[w][i]]}
  <2>1. K.wait[w] \in Seq(Thread) /\ Len(K.wait[w]) \in Nat
    BY KernelTypeFields
  <2>2. L \in SUBSET (0 .. Len(K.wait[w])) /\ L \subseteq 1 .. Len(K.wait[w])
    BY <2>1
  <2>3. n = IF flag = "PRIO" /\ L # {} THEN Min(L) ELSE Len(K.wait[w]) + 1
    BY DEF WaitPosition
  <2>. HIDE DEF n, L
  <2>4. L # {} => Min(L) \in L
    BY <2>1, <2>2, MinOfRange
  <2>. QED
    <3>1. CASE flag = "PRIO" /\ L # {}
      <4>1. n \in L
        BY <3>1, <2>3, <2>4
      <4>2. n \in 1 .. Len(K.wait[w])
        BY <4>1, <2>2
      <4>. QED
        BY <4>2, <2>1
    <3>2. CASE ~ (flag = "PRIO" /\ L # {})
      BY <3>2, <2>1, <2>3
    <3>. QED
      BY <3>1, <3>2
<1>3. /\ InsertAt(K.wait[w], n, t) \in Seq(Thread) /\ IsInjective(InsertAt(K.wait[w], n, t))
      /\ Range(InsertAt(K.wait[w], n, t)) = Range(K.wait[w]) \cup {t}
  <2>1. K.wait[w] \in Seq(Thread) /\ IsInjective(K.wait[w]) /\ t \notin Range(K.wait[w])
    BY <1>1, KernelTypeFields DEF KernelOK, WaitLists
  <2>. HIDE DEF n
  <2>. QED
    BY <1>2, <2>1, InsertAtList
<1>4. j = [s EXCEPT !.wait = [K.wait EXCEPT ![w] = InsertAt(K.wait[w], n, t)]]
  <2>1. WaitPosition(s, w, t, flag) = n
    BY <1>7 DEF WaitPosition
  <2>. HIDE DEF n
  <2>2. j = [s EXCEPT !.wait[w] = InsertAt(s.wait[w], n, t)]
    BY <2>1 DEF ListSuspend, s
  <2>. HIDE DEF j
  <2>. QED
    BY <1>1, <1>7, <2>2 DEF KernelType
<1>. HIDE DEF n, j
<1>5. K.wait \in [WaitList -> Seq(Thread)] /\ s.stat \in [Thread -> Stat] /\ K.stat \in [Thread -> Stat]
  BY <1>1, KernelTypeFields
<1>6. /\ j \in KernelType
      /\ j.wait = [K.wait EXCEPT ![w] = InsertAt(K.wait[w], n, t)]
      /\ j.ready = s.ready /\ j.group = s.group /\ j.stat = s.stat /\ j.prio = s.prio
      /\ j.timer = s.timer /\ j.due = s.due /\ j.error = s.error /\ j.cur = s.cur
      /\ j.lock = s.lock /\ j.irqOff = s.irqOff
  BY <1>1, <1>3, <1>4, <1>5 DEF KernelType
<1>8. \A v \in WaitList : j.wait[v] = IF v = w THEN InsertAt(K.wait[w], n, t) ELSE K.wait[v]
  BY <1>5, <1>6
<1>9. WaitLists(j)
  <2>1. \A v \in WaitList : IsInjective(j.wait[v])
    BY <1>3, <1>8 DEF KernelOK, WaitLists
  <2>2. \A v \in WaitList : \A x : x \in Range(j.wait[v]) <=> x \in Range(K.wait[v]) \/ (v = w /\ x = t)
    BY <1>3, <1>8
  <2>3. j.stat[t] = "SUSPEND"
    BY <1>1, <1>5, <1>6
  <2>. QED
    BY <1>1, <1>6, <1>7, <2>1, <2>2, <2>3 DEF KernelOK, WaitLists
<1>10. KernelOK(j)
  BY <1>1, <1>6, <1>9 DEF KernelOK, ReadyLists, GroupMatches, TimersOfSuspended
<1>11. SuspendedOn(K, j, t, w, flag)
  BY <1>1, <1>2, <1>3, <1>6, <1>7, <1>8, <1>10 DEF SuspendedOn, n
<1>. QED
  BY <1>6, <1>7, <1>11 DEF j

\* The middle of a blocking call, from the error reset to the started timer
LEMMA BlockOK ==
  ASSUME NEW K \in KernelType, NEW t \in Thread \ {Idle}, NEW w \in WaitList, NEW flag,
         NEW time \in Int, KernelOK(K), K.stat[t] = "READY"
  PROVE  Blocked(K, Block(K, w, t, flag, time), t, w, flag)
<1>. DEFINE e == [K EXCEPT !.error[t] = "EOK"]
            s == ListSuspend(e, w, t, flag)
            j == Block(K, w, t, flag, time)
<1>1. /\ e \in KernelType /\ e.error = [K.error EXCEPT ![t] = "EOK"]
      /\ e.cur = K.cur /\ e.lock = K.lock /\ e.irqOff = K.irqOff /\ e.due = K.due
      /\ e.stat = K.stat /\ e.wait = K.wait /\ e.ready = K.ready /\ e.group = K.group
      /\ e.prio = K.prio /\ e.timer = K.timer
  BY DEF KernelType, Error
<1>2. j = IF time > 0 THEN StartTimer(s, t, time) ELSE s
  BY DEF Block
<1>. HIDE DEF e, j
<1>3. e \in KernelType /\ KernelOK(e) /\ e.stat[t] = "READY"
  BY <1>1 DEF KernelOK, ReadyLists, GroupMatches, WaitLists, TimersOfSuspended
<1>4. /\ s \in KernelType /\ KernelOK(s)
      /\ s.cur = e.cur /\ s.lock = e.lock /\ s.irqOff = e.irqOff /\ s.due = e.due
      /\ s.error = e.error /\ s.timer = e.timer
      /\ s.stat = [e.stat EXCEPT ![t] = "SUSPEND"]
      /\ s.prio = e.prio
      /\ s.wait = [e.wait EXCEPT ![w] = InsertAt(e.wait[w], WaitPosition(e, w, t, flag), t)]
      /\ WaitPosition(e, w, t, flag) \in 1 .. Len(e.wait[w]) + 1
      /\ \A v \in WaitList : Range(s.wait[v]) = IF v = w THEN Range(e.wait[v]) \cup {t}
                                                          ELSE Range(e.wait[v])
  <2>1. SuspendedOn(e, s, t, w, flag) /\ s.error = e.error /\ s.timer = e.timer
    BY <1>3, ListSuspendOK
  <2>. HIDE DEF s
  <2>. QED
    BY <2>1 DEF SuspendedOn
<1>. HIDE DEF s
<1>5. s.stat[t] = "SUSPEND" /\ s.stat = [K.stat EXCEPT ![t] = "SUSPEND"]
  BY <1>1, <1>4, KernelTypeFields
<1>8. WaitPosition(e, w, t, flag) = WaitPosition(K, w, t, flag)
  BY <1>1 DEF WaitPosition
<1>6. /\ j \in KernelType /\ KernelOK(j)
      /\ j.cur = s.cur /\ j.lock = s.lock /\ j.irqOff = s.irqOff /\ j.due = s.due
      /\ j.error = s.error /\ j.stat = s.stat /\ j.wait = s.wait /\ j.prio = s.prio
  <2>0. CASE ~ (time > 0)
    BY <1>2, <1>4, <2>0
  <2>. SUFFICES ASSUME time > 0
       PROVE  j \in KernelType /\ KernelOK(j)
              /\ j.cur = s.cur /\ j.lock = s.lock /\ j.irqOff = s.irqOff /\ j.due = s.due
              /\ j.error = s.error /\ j.stat = s.stat /\ j.wait = s.wait /\ j.prio = s.prio
    BY <2>0
  <2>1. time \in Nat /\ j = StartTimer(s, t, time)
    BY <1>2
  <2>2. /\ j \in KernelType /\ KernelOK(j) /\ j = [s EXCEPT !.timer = j.timer]
    <3>1. s \in KernelType /\ KernelOK(s) /\ s.stat[t] = "SUSPEND"
      BY <1>4, <1>5
    <3>. QED
      BY <2>1, <3>1, StartTimerOK
  <2>3. /\ j.cur = s.cur /\ j.lock = s.lock /\ j.irqOff = s.irqOff /\ j.due = s.due
        /\ j.error = s.error /\ j.stat = s.stat /\ j.wait = s.wait /\ j.prio = s.prio
    BY <1>4, <2>2 DEF KernelType
  <2>. QED
    BY <2>2, <2>3
<1>7. Blocked(K, j, t, w, flag)
  BY <1>1, <1>4, <1>5, <1>6, <1>8 DEF Blocked, SuspendedOn
<1>. QED
  BY <1>7 DEF j

\* rt_ipc_list_resume, the list not being empty
LEMMA ListResumeOK ==
  ASSUME NEW K \in KernelType, NEW w \in WaitList, KernelOK(K), K.wait[w] # << >>, K.due = {}
  PROVE  LET j == ListResume(K, w)
             h == Head(K.wait[w]) IN
         /\ j \in KernelType /\ KernelOK(j)
         /\ h \in Range(K.wait[w]) /\ h \in Thread /\ K.stat[h] = "SUSPEND"
         /\ j.error = K.error /\ j.due = {} /\ j.cur = K.cur
         /\ j.lock = K.lock /\ j.irqOff = K.irqOff
         /\ j.stat = [K.stat EXCEPT ![h] = "READY"]
         /\ j.prio = K.prio /\ j.wait = Without(K.wait, h)
         /\ \A v \in WaitList : Range(j.wait[v]) = Range(K.wait[v]) \ {h}
<1>. DEFINE h == Head(K.wait[w])
<1>1. h \in Range(K.wait[w]) /\ h \in Thread
  BY KernelTypeFields, ListRange
<1>2. K.stat[h] = "SUSPEND" /\ h \notin K.due
  BY <1>1 DEF KernelOK, WaitLists
<1>. HIDE DEF h
<1>. QED
  BY <1>1, <1>2, ResumeOK DEF ListResume, h

\* One turn of the loop of rt_ipc_list_resume_all
LEMMA ListResumeErrorOK ==
  ASSUME NEW K \in KernelType, NEW w \in WaitList, KernelOK(K), K.wait[w] # << >>, K.due = {}
  PROVE  LET j == ListResumeError(K, w)
             h == Head(K.wait[w]) IN
         /\ j \in KernelType /\ KernelOK(j)
         /\ h \in Range(K.wait[w]) /\ h \in Thread
         /\ j.error = [K.error EXCEPT ![h] = "ERROR"] /\ j.due = {} /\ j.cur = K.cur
         /\ j.lock = K.lock /\ j.irqOff = K.irqOff
         /\ j.stat = [K.stat EXCEPT ![h] = "READY"]
         /\ j.prio = K.prio /\ j.wait = Without(K.wait, h)
         /\ \A v \in WaitList : Range(j.wait[v]) = Range(K.wait[v]) \ {h}
<1>. DEFINE h == Head(K.wait[w])
            e == [K EXCEPT !.error[h] = "ERROR"]
            j == Resume(e, h)
<1>1. h \in Range(K.wait[w]) /\ h \in Thread
  BY KernelTypeFields, ListRange
<1>2. K.stat[h] = "SUSPEND"
  BY <1>1 DEF KernelOK, WaitLists
<1>. HIDE DEF h
<1>3. /\ e \in KernelType /\ e.error = [K.error EXCEPT ![h] = "ERROR"]
      /\ e.cur = K.cur /\ e.lock = K.lock /\ e.irqOff = K.irqOff /\ e.due = K.due
      /\ e.stat = K.stat /\ e.wait = K.wait /\ e.ready = K.ready /\ e.group = K.group
      /\ e.prio = K.prio /\ e.timer = K.timer
  BY <1>1 DEF KernelType, Error
<1>4. ListResumeError(K, w) = j
  BY DEF ListResumeError, h
<1>. HIDE DEF e
<1>5. e \in KernelType /\ KernelOK(e) /\ e.stat[h] = "SUSPEND" /\ h \notin e.due
  BY <1>2, <1>3 DEF KernelOK, ReadyLists, GroupMatches, WaitLists, TimersOfSuspended
<1>6. /\ j \in KernelType /\ KernelOK(j)
      /\ j.error = e.error /\ j.due = e.due /\ j.cur = e.cur
      /\ j.lock = e.lock /\ j.irqOff = e.irqOff
      /\ j.stat = [e.stat EXCEPT ![h] = "READY"]
      /\ j.prio = e.prio /\ j.wait = Without(e.wait, h)
      /\ \A v \in WaitList : Range(j.wait[v]) = Range(e.wait[v]) \ {h}
  BY <1>1, <1>5, ResumeOK
<1>. HIDE DEF j
<1>. QED
  BY <1>1, <1>3, <1>4, <1>6 DEF h

\* rt_thread_yield moves the running thread to the tail of its list.
LEMMA YieldOK ==
  ASSUME NEW K \in KernelType, KernelOK(K)
  PROVE  LET j == Yield(K) IN
         /\ j \in KernelType /\ KernelOK(j)
         /\ j = [K EXCEPT !.ready = j.ready, !.cur = j.cur]
         /\ (j.cur = K.cur \/ (j.stat[j.cur] = "READY" /\ CurrentIsTop(j)))
<1>. DEFINE t == K.cur
            p0 == K.prio[t]
            r == [K.ready EXCEPT ![p0] = Append(RemoveFirst(@, t), t)]
            h == [K EXCEPT !.ready = r]
            j == Yield(K)
<1>0. t \in Thread /\ p0 \in Prio /\ K.ready \in [Prio -> Seq(Thread)] /\ K.prio \in [Thread -> Prio]
  BY KernelTypeFields
<1>1. CASE ~ (K.stat[t] = "READY" /\ Len(K.ready[p0]) > 1)
  <2>1. j = K
    BY <1>1 DEF Yield
  <2>. QED
    BY <2>1 DEF KernelType
<1>2. CASE K.stat[t] = "READY" /\ Len(K.ready[p0]) > 1
  <2>1. /\ RemoveFirst(K.ready[p0], t) \in Seq(Thread) /\ IsInjective(RemoveFirst(K.ready[p0], t))
        /\ Range(RemoveFirst(K.ready[p0], t)) = Range(K.ready[p0]) \ {t}
    BY <1>0, RemoveFirstProperties DEF KernelOK, ReadyLists
  <2>2. t \in Range(K.ready[p0])
    BY <1>0, <1>2 DEF KernelOK, ReadyLists
  <2>3. /\ r[p0] \in Seq(Thread) /\ IsInjective(r[p0]) /\ r[p0] # << >>
        /\ Range(r[p0]) = Range(K.ready[p0])
    <3>1. /\ r[p0] \in Seq(Thread) /\ IsInjective(r[p0]) /\ r[p0] # << >>
          /\ Range(r[p0]) = (Range(K.ready[p0]) \ {t}) \cup {t}
      <4>1. r[p0] = Append(RemoveFirst(K.ready[p0], t), t)
        BY <1>0
      <4>2. t \notin Range(RemoveFirst(K.ready[p0], t))
        BY <2>1
      <4>. HIDE DEF r, t, p0
      <4>. QED
        BY <1>0, <2>1, <4>1, <4>2, AppendList
    <3>. QED
      BY <2>2, <3>1
  <2>4. \A p \in Prio \ {p0} : r[p] = K.ready[p]
    BY <1>0
  <2>5. r \in [Prio -> Seq(Thread)]
    BY <1>0, <2>3
  <2>6. j = Schedule(h)
    BY <1>2 DEF Yield
  <2>. HIDE DEF r, j
  <2>7. /\ h \in KernelType /\ h.ready = r /\ h.group = K.group /\ h.wait = K.wait
        /\ h.stat = K.stat /\ h.prio = K.prio /\ h.timer = K.timer /\ h.due = K.due
        /\ h.cur = K.cur /\ h.lock = K.lock
    BY <2>5 DEF KernelType
  <2>8. /\ \A p \in Prio : IsInjective(r[p]) /\ Range(r[p]) = Range(K.ready[p])
        /\ \A p \in Prio : r[p] # << >> <=> K.ready[p] # << >>
    <3>1. \A p \in Prio : IsInjective(r[p]) /\ Range(r[p]) = Range(K.ready[p])
      BY <2>3, <2>4 DEF KernelOK, ReadyLists
    <3>. QED
      BY <3>1, <2>5, KernelTypeFields, ListRange
  <2>. DEFINE hh == h
  <2>9. KernelOK(h)
    <3>. HIDE DEF h
    <3>. QED
      BY <2>7, <2>8 DEF KernelOK, ReadyLists, GroupMatches, WaitLists, TimersOfSuspended
  <2>10. /\ j \in KernelType /\ KernelOK(j) /\ j = [h EXCEPT !.cur = j.cur]
         /\ h.lock = 0 => (j.stat[j.cur] = "READY" /\ CurrentIsTop(j))
    <3>. HIDE DEF h
    <3>. QED
      BY <2>6, <2>7, <2>9, ScheduleOK DEF CurrentIsTop
  <2>11. j.ready = r
    BY <2>7, <2>10 DEF KernelType
  <2>12. j = [K EXCEPT !.ready = j.ready, !.cur = j.cur]
    BY <2>10, <2>11 DEF KernelType
  <2>13. h.lock # 0 => j.cur = K.cur
    BY <2>6, <2>7 DEF Schedule
  <2>. QED
    BY <2>10, <2>12, <2>13 DEF j
<1>. QED
  BY <1>1, <1>2

\* The tick interrupt up to rt_timer_check
LEMMA TickBeginOK ==
  ASSUME NEW K \in KernelType, NEW sliceEnds \in BOOLEAN, KernelOK(K)
  PROVE  LET j == TickBegin(K, sliceEnds) IN
         /\ j \in KernelType /\ KernelOK(j)
         /\ j = [K EXCEPT !.ready = j.ready, !.cur = j.cur, !.due = j.due, !.timer = j.timer]
         /\ (j.cur = K.cur \/ (j.stat[j.cur] = "READY" /\ CurrentIsTop(j)))
<1>. DEFINE y == IF sliceEnds THEN Yield(K) ELSE K
            d == {t \in Thread : K.timer[t] = 1}
            m == [t \in Thread |-> IF K.timer[t] > 1 THEN K.timer[t] - 1 ELSE K.timer[t]]
            j == TickBegin(K, sliceEnds)
<1>1. /\ y \in KernelType /\ KernelOK(y)
      /\ y = [K EXCEPT !.ready = y.ready, !.cur = y.cur]
      /\ (y.cur = K.cur \/ (y.stat[y.cur] = "READY" /\ CurrentIsTop(y)))
  <2>1. CASE sliceEnds
    BY <2>1, YieldOK
  <2>2. CASE ~ sliceEnds
    <3>1. y = K
      BY <2>2
    <3>. HIDE DEF y
    <3>. QED
      BY <3>1 DEF KernelType
  <2>. QED
    BY <2>1, <2>2
<1>2. j = [y EXCEPT !.due = d, !.timer = m]
  BY DEF TickBegin
<1>. HIDE DEF y, j
<1>3. K.timer \in [Thread -> Nat] /\ m \in [Thread -> Nat] /\ d \in SUBSET Thread
  BY KernelTypeFields
<1>. HIDE DEF m, d
<1>4. /\ j \in KernelType /\ j.due = d /\ j.timer = m
      /\ j.ready = y.ready /\ j.group = y.group /\ j.wait = y.wait
      /\ j.stat = y.stat /\ j.prio = y.prio /\ j.cur = y.cur
  BY <1>1, <1>2, <1>3 DEF KernelType
<1>5. y.stat = K.stat /\ j = [K EXCEPT !.ready = j.ready, !.cur = j.cur, !.due = j.due, !.timer = j.timer]
  BY <1>1, <1>2, <1>4 DEF KernelType
<1>6. TimersOfSuspended(j)
  <2>1. \A t \in Thread : m[t] # 0 => K.timer[t] # 0
    BY <1>3 DEF m
  <2>2. \A t \in d : m[t] = 1
    BY <1>3 DEF m, d
  <2>. QED
    BY <1>4, <1>5, <2>1, <2>2 DEF KernelOK, TimersOfSuspended
<1>7. KernelOK(j)
  BY <1>1, <1>4, <1>6 DEF KernelOK, ReadyLists, GroupMatches, WaitLists
<1>. QED
  BY <1>1, <1>4, <1>5, <1>7 DEF j, CurrentIsTop

\* What the timeout of thread t leaves of kernel K: j.
TimedOut(K, j, t) ==
    /\ j \in KernelType /\ KernelOK(j)
    /\ j.error = [K.error EXCEPT ![t] = "ETIMEOUT"] /\ j.due = K.due \ {t}
    /\ j.lock = K.lock /\ j.irqOff = K.irqOff
    /\ K.stat[t] = "SUSPEND" /\ j.stat = [K.stat EXCEPT ![t] = "READY"]
    /\ j.stat[j.cur] = "READY" /\ CurrentIsTop(j)
    /\ j.prio = K.prio /\ j.wait = Without(K.wait, t)
    /\ \A v \in WaitList : Range(j.wait[v]) = Range(K.wait[v]) \ {t}

\* One turn of the loop of rt_timer_check, rt_thread_timeout included
LEMMA FireOK ==
  ASSUME NEW K \in KernelType, NEW t \in K.due, KernelOK(K), K.lock = 0
  PROVE  TimedOut(K, Fire(K, t), t)
<1>. DEFINE e == [K EXCEPT !.error[t] = "ETIMEOUT", !.timer[t] = 0, !.due = @ \ {t}]
            u == Unlink(e, t)
            i == InsertThread(u, t)
            j == Schedule(i)
<1>0. t \in Thread /\ K.stat[t] = "SUSPEND" /\ K.timer \in [Thread -> Nat] /\ K.due \in SUBSET Thread
  BY KernelTypeFields DEF KernelOK, TimersOfSuspended
<1>1. /\ e \in KernelType /\ e.error = [K.error EXCEPT ![t] = "ETIMEOUT"]
      /\ e.timer = [K.timer EXCEPT ![t] = 0] /\ e.due = K.due \ {t}
      /\ e.cur = K.cur /\ e.lock = K.lock /\ e.irqOff = K.irqOff
      /\ e.stat = K.stat /\ e.wait = K.wait /\ e.ready = K.ready /\ e.group = K.group
      /\ e.prio = K.prio
  BY <1>0 DEF KernelType, Error
<1>. HIDE DEF e
<1>2. TimersOfSuspended(e)
  <2>1. \A x \in Thread : e.timer[x] = IF x = t THEN 0 ELSE K.timer[x]
    BY <1>0, <1>1
  <2>. QED
    BY <1>0, <1>1, <2>1 DEF KernelOK, TimersOfSuspended
<1>3. KernelOK(e) /\ e.stat[t] = "SUSPEND" /\ e.timer[t] = 0
  BY <1>0, <1>1, <1>2 DEF KernelOK, ReadyLists, GroupMatches, WaitLists
<1>4. /\ u \in KernelType /\ Detached(u, t)
      /\ u = [e EXCEPT !.ready = u.ready, !.wait = u.wait]
      /\ u.wait = Without(e.wait, t)
      /\ \A w \in WaitList : Range(u.wait[w]) = Range(e.wait[w]) \ {t}
  BY <1>0, <1>1, <1>3, UnlinkSuspended
<1>. HIDE DEF u
<1>5. /\ u.timer = e.timer /\ u.stat = e.stat /\ u.error = e.error /\ u.due = e.due
      /\ u.lock = e.lock /\ u.irqOff = e.irqOff /\ u.prio = e.prio
  BY <1>1, <1>4 DEF KernelType
<1>6. /\ i \in KernelType /\ KernelOK(i)
      /\ i = [u EXCEPT !.stat = i.stat, !.ready = i.ready, !.group = i.group]
      /\ i.stat = [u.stat EXCEPT ![t] = "READY"]
  <2>1. u \in KernelType /\ Detached(u, t) /\ u.timer[t] = 0
    BY <1>3, <1>4, <1>5
  <2>. QED
    BY <1>0, <2>1, InsertThreadOK
<1>. HIDE DEF i
<1>7. /\ i.error = u.error /\ i.due = u.due /\ i.lock = u.lock /\ i.irqOff = u.irqOff /\ i.wait = u.wait
      /\ i.prio = u.prio
  BY <1>4, <1>6 DEF KernelType
<1>8. /\ j \in KernelType /\ KernelOK(j) /\ j = [i EXCEPT !.cur = j.cur]
      /\ i.lock = 0 => (j.stat[j.cur] = "READY" /\ CurrentIsTop(j))
  BY <1>6, ScheduleOK DEF CurrentIsTop
<1>9. j = Fire(K, t)
  BY DEF Fire, e, u, i
<1>. HIDE DEF j
<1>10. /\ j.error = i.error /\ j.due = i.due /\ j.lock = i.lock /\ j.irqOff = i.irqOff
       /\ j.wait = i.wait /\ j.stat = i.stat /\ j.prio = i.prio
  BY <1>6, <1>8 DEF KernelType
<1>11. TimedOut(K, j, t)
  BY <1>0, <1>1, <1>4, <1>5, <1>6, <1>7, <1>8, <1>10 DEF TimedOut
<1>. QED
  BY <1>9, <1>11

\* The state in which the scheduler is started
LEMMA KernelInitOK ==
  /\ KernelInit \in KernelType /\ KernelOK(KernelInit)
  /\ KernelInit.stat[KernelInit.cur] = "READY"
<1>. DEFINE group == {p \in Prio : InitReady[p] # << >>}
            started == UNION {Range(InitReady[p]) : p \in Prio}
            stat == [t \in Thread |-> IF t \in started THEN "READY" ELSE "INIT"]
            j == KernelInit
<1>1. Idle \in Range(InitReady[PrioMax - 1]) /\ PrioMax - 1 \in Prio /\ PrioMax - 1 \in Nat
  BY KernelAssumption DEF Prio
<1>2. PrioMax - 1 \in group /\ group \in SUBSET (0 .. PrioMax - 1)
  BY <1>1, ListRange, KernelAssumption DEF Prio
<1>. HIDE DEF group
<1>3. Min(group) \in group /\ Min(group) \in Prio
  BY <1>1, <1>2, MinOfRange DEF Prio
<1>4. Head(InitReady[Min(group)]) \in Range(InitReady[Min(group)])
  BY <1>3, ListRange, KernelAssumption DEF group
<1>5. \A p \in Prio : Range(InitReady[p]) \in SUBSET Thread
  BY ListRange, KernelAssumption
<1>. DEFINE c == Head(InitReady[Min(group)])
<1>6. c \in Thread /\ c \in started /\ stat[c] = "READY"
  BY <1>3, <1>4, <1>5
<1>7. stat \in [Thread -> Stat]
  BY DEF Stat
<1>8. /\ j.ready = InitReady /\ j.group = group /\ j.wait = [w \in WaitList |-> << >>]
      /\ j.stat = stat /\ j.prio = InitPrio /\ j.timer = [t \in Thread |-> 0] /\ j.due = {}
      /\ j.cur = c
  BY DEF KernelInit, group
<1>9. j \in KernelType
  <2>1. \A w \in WaitList : << >> \in Seq(Thread)
    OBVIOUS
  <2>2. group \in SUBSET Prio
    BY DEF group
  <2>3. j = [ready |-> InitReady, group |-> group, wait |-> [w \in WaitList |-> << >>],
             stat |-> stat, prio |-> InitPrio, error |-> [t \in Thread |-> "EOK"],
             timer |-> [t \in Thread |-> 0], due |-> {}, cur |-> c, lock |-> 0, irqOff |-> FALSE]
    BY DEF KernelInit, group
  <2>. HIDE DEF j, stat, c
  <2>. QED
    BY <1>6, <1>7, <2>1, <2>2, <2>3, KernelAssumption DEF KernelType, Error
<1>10. ReadyLists(j)
  <2>1. ASSUME NEW t \in Thread, NEW p \in Prio
        PROVE  t \in Range(InitReady[p]) <=> (stat[t] = "READY" /\ InitPrio[t] = p)
    <3>1. t \in Range(InitReady[p]) => stat[t] = "READY" /\ InitPrio[t] = p
      BY KernelAssumption
    <3>2. ASSUME stat[t] = "READY", InitPrio[t] = p PROVE t \in Range(InitReady[p])
      <4>1. t \in started
        BY <3>2
      <4>2. PICK q \in Prio : t \in Range(InitReady[q])
        BY <4>1
      <4>. QED
        BY <3>2, <4>2, KernelAssumption
    <3>. QED
      BY <3>1, <3>2
  <2>. HIDE DEF j, stat
  <2>. QED
    BY <1>8, <2>1, KernelAssumption DEF ReadyLists
<1>11. GroupMatches(j)
  BY <1>8 DEF GroupMatches, group
<1>12. WaitLists(j) /\ TimersOfSuspended(j)
  BY <1>8 DEF WaitLists, TimersOfSuspended, IsInjective, Range
<1>13. stat[Idle] = "READY"
  BY <1>1, KernelAssumption
<1>. QED
  BY <1>6, <1>8, <1>9, <1>10, <1>11, <1>12, <1>13 DEF KernelOK

-----------------------------------------------------------------------------
(* The threads above the kernel routines. *)

\* A thread waiting in a call is on a suspend list exactly as long as it is
\* suspended, and nothing has marked it with an error yet.
WaitersWait ==
    /\ \A t \in Waiting : pc[t] \in {"suspended", "back"} /\ k.error[t] = "EOK"
    /\ \A t \in Thread : k.stat[t] = "SUSPEND" =>
          \/ pc[t] \in {"suspended", "back"} /\ t \in Waiting
          \/ pc[t] \in {"asleep", "woke"}

\* Between a suspension and the rt_schedule that follows it the processor
\* still executes the suspended thread; otherwise it executes a ready one.
CurrentReady ==
    pc[k.cur] \notin {"suspended", "asleep"} => k.stat[k.cur] = "READY"

\* Once the rt_schedule at the end of a section has been made, no ready
\* thread outranks the current one.
TopRuns ==
    pc[k.cur] \notin {"suspended", "asleep", "resched", "section"} => CurrentIsTop(k)

\* Priorities may change under it: what the threads of any system keep.
ThreadsOK ==
    /\ k \in KernelType
    /\ pc \in [Thread -> PC]
    /\ KernelOK(k)
    /\ k.lock = 0
    /\ WaitersWait
    /\ CurrentReady

ThreadInv == ThreadsOK /\ TopRuns

\* What a step may do to the outcome of waits: OutcomeFinal of one step.
OutcomeKept ==
    \A t \in Thread :
       (/\ pc[t] \in {"suspended", "back"} /\ t \notin Waiting
        /\ pc'[t] \in {pc[t], "back"})
       => k'.error[t] = k.error[t] /\ t \notin Waiting'

\* A step that keeps the priorities, and takes one thread at most off the
\* suspend lists.
ListsShrink ==
    /\ k'.prio = k.prio
    /\ \/ k'.wait = k.wait
       \/ \E x \in Thread : k.stat[x] = "SUSPEND" /\ k'.wait = Without(k.wait, x)

-----------------------------------------------------------------------------
LEMMA WaitingType ==
  ASSUME k \in KernelType
  PROVE  /\ Waiting \in SUBSET Thread
         /\ \A w \in WaitList : /\ k.wait[w] \in Seq(Thread) /\ Range(k.wait[w]) \in SUBSET Waiting
                                /\ k.wait[w] = << >> <=> Range(k.wait[w]) = {}
<1>1. \A w \in WaitList : k.wait[w] \in Seq(Thread)
  BY KernelTypeFields
<1>2. \A w \in WaitList : /\ Range(k.wait[w]) \in SUBSET Thread
                          /\ k.wait[w] = << >> <=> Range(k.wait[w]) = {}
  BY <1>1, ListRange
<1>. QED
  BY <1>1, <1>2 DEF Waiting

LEMMA WaitingSame ==
  ASSUME \A w \in WaitList : Range(k'.wait[w]) = Range(k.wait[w])
  PROVE  Waiting' = Waiting
BY DEF Waiting

LEMMA WaitingLess ==
  ASSUME NEW x, \A w \in WaitList : Range(k'.wait[w]) = Range(k.wait[w]) \ {x}
  PROVE  Waiting' = Waiting \ {x}
BY DEF Waiting

LEMMA WaitingMore ==
  ASSUME NEW x, NEW v \in WaitList,
         \A w \in WaitList : Range(k'.wait[w]) = IF w = v THEN Range(k.wait[w]) \cup {x}
                                                          ELSE Range(k.wait[w])
  PROVE  Waiting' = Waiting \cup {x}
<1>1. ASSUME NEW y PROVE y \in Waiting' <=> y \in Waiting \cup {x}
  <2>1. y \in Waiting' <=> \E w \in WaitList : y \in Range(k'.wait[w])
    BY DEF Waiting
  <2>2. y \in Waiting <=> \E w \in WaitList : y \in Range(k.wait[w])
    BY DEF Waiting
  <2>. QED
    BY <2>1, <2>2
<1>. QED
  BY <1>1

LEMMA WokenFinite ==
  IsFiniteSet(Woken) /\ Cardinality(Woken) \in Nat
<1>1. Woken \in SUBSET Thread
  BY DEF Woken
<1>. QED
  BY <1>1, KernelAssumption, FS_Subset, FS_CardinalityType

LEMMA ThreadsInitInv ==
  ASSUME ThreadsInit
  PROVE  ThreadInv /\ Woken = {} /\ Waiting = {} /\ \A w \in WaitList : k.wait[w] = << >>
<1>1. k \in KernelType /\ KernelOK(k) /\ k.stat[k.cur] = "READY"
  BY KernelInitOK DEF ThreadsInit
<1>2. /\ k.wait = [w \in WaitList |-> << >>] /\ k.lock = 0
      /\ \A t \in Thread : k.stat[t] \in {"READY", "INIT"}
  BY DEF ThreadsInit, KernelInit
<1>3. \A w \in WaitList : k.wait[w] = << >>
  BY <1>2
<1>4. Waiting = {}
  <2>1. \A w \in WaitList : Range(k.wait[w]) = {}
    BY <1>1, <1>3, WaitingType
  <2>. QED
    BY <2>1 DEF Waiting
<1>5. Woken = {}
  BY DEF ThreadsInit, Woken
<1>6. WaitersWait
  BY <1>2, <1>4 DEF WaitersWait
<1>7. TopRuns
  <2>1. KernelInit = Schedule(KernelInit)
    BY KernelInitOK DEF Schedule, KernelInit, KernelType
  <2>2. \A u \in Thread : k.stat[u] = "READY" => k.prio[k.cur] <= k.prio[u]
    BY <1>1, <1>2, <2>1, ScheduleOK DEF ThreadsInit
  <2>. QED
    BY <2>2 DEF TopRuns, CurrentIsTop
<1>8. pc \in [Thread -> PC]
  BY DEF ThreadsInit, PC
<1>. QED
  BY <1>1, <1>2, <1>3, <1>4, <1>5, <1>6, <1>7, <1>8 DEF ThreadInv, ThreadsOK, CurrentReady

\* Facts about the thread that executes, used by every action of a thread.
LEMMA CallerReady ==
  ASSUME ThreadsOK, NEW t \in Thread, Running(k, t), pc[t] \notin {"suspended", "asleep"}
  PROVE  /\ k.stat[t] = "READY" /\ t \notin Waiting /\ k.due = {} /\ k.cur = t
         /\ Waiting \in SUBSET Thread
<1>1. k.stat[t] = "READY" /\ k.due = {} /\ k.cur = t
  BY DEF ThreadsOK, CurrentReady, Running
<1>2. \A w \in WaitList : \A u \in Range(k.wait[w]) : k.stat[u] = "SUSPEND"
  BY DEF ThreadsOK, KernelOK, WaitLists
<1>3. t \notin Waiting
  BY <1>1, <1>2 DEF Waiting
<1>. QED
  BY <1>1, <1>3, WaitingType DEF ThreadsOK

-----------------------------------------------------------------------------
(* The steps of threads. *)

\* The end of a call or of a section that left the kernel alone.
LEMMA ReturnInv ==
  ASSUME ThreadsOK, NEW t \in Thread, Running(k, t), pc[t] \in {"run", "back", "copying"},
         NEW l \in {"run", "copying"}, Goto(t, l), UNCHANGED k
  PROVE  ThreadsOK' /\ (TopRuns => TopRuns') /\ Woken' = Woken \ {t} /\ OutcomeKept
<1>1. k.stat[t] = "READY" /\ t \notin Waiting /\ k.cur = t /\ Waiting \in SUBSET Thread
  BY CallerReady
<1>2. pc \in [Thread -> PC] /\ pc' = [pc EXCEPT ![t] = l] /\ k' = k
  BY DEF Goto, ThreadsOK
<1>3. Waiting' = Waiting
  BY <1>2 DEF Waiting
<1>4. pc' \in [Thread -> PC] /\ pc'[t] = l /\ \A u \in Thread \ {t} : pc'[u] = pc[u]
  BY <1>2 DEF PC
<1>5. Woken' = Woken \ {t}
  BY <1>1, <1>2, <1>3, <1>4 DEF Woken
<1>6. WaitersWait' /\ CurrentReady' /\ (TopRuns => TopRuns')
  BY <1>1, <1>2, <1>3, <1>4 DEF ThreadsOK, WaitersWait, CurrentReady, TopRuns, CurrentIsTop
<1>7. OutcomeKept
  BY <1>2, <1>3 DEF OutcomeKept
<1>. QED
  BY <1>2, <1>4, <1>5, <1>6, <1>7 DEF ThreadsOK

\* The end of a call that leaves an error code behind, the caller's own.
LEMMA FailReturnInv ==
  ASSUME ThreadsOK, NEW t \in Thread, Running(k, t), pc[t] = "back", Goto(t, "run"),
         NEW e \in Error, k' = [k EXCEPT !.error[t] = e]
  PROVE  ThreadsOK' /\ (TopRuns => TopRuns') /\ Woken' = Woken \ {t} /\ k'.wait = k.wait
<1>0. ThreadsOK /\ k \in KernelType /\ KernelOK(k)
  BY DEF ThreadsOK
<1>1. k.stat[t] = "READY" /\ t \notin Waiting /\ k.cur = t /\ Waiting \in SUBSET Thread
  BY <1>0, CallerReady
<1>2. /\ k' \in KernelType /\ k'.ready = k.ready /\ k'.group = k.group /\ k'.wait = k.wait
      /\ k'.stat = k.stat /\ k'.prio = k.prio /\ k'.timer = k.timer /\ k'.due = k.due
      /\ k'.cur = k.cur /\ k'.lock = k.lock
      /\ \A u \in Thread \ {t} : k'.error[u] = k.error[u]
  BY <1>0 DEF KernelType
<1>3. KernelOK(k')
  BY <1>0, <1>2 DEF KernelOK, ReadyLists, GroupMatches, WaitLists, TimersOfSuspended
<1>4. Waiting' = Waiting
  BY <1>2 DEF Waiting
<1>5. pc' \in [Thread -> PC] /\ pc'[t] = "run" /\ \A u \in Thread \ {t} : pc'[u] = pc[u]
  BY <1>0 DEF Goto, ThreadsOK, PC
<1>6. Woken' = Woken \ {t}
  BY <1>2, <1>4, <1>5 DEF Woken
<1>7. WaitersWait' /\ CurrentReady'
  BY <1>0, <1>1, <1>2, <1>4, <1>5 DEF ThreadsOK, WaitersWait, CurrentReady
<1>8. TopRuns => TopRuns'
  BY <1>0, <1>1, <1>2, <1>5 DEF TopRuns, CurrentIsTop
<1>. QED
  BY <1>0, <1>2, <1>3, <1>5, <1>6, <1>7, <1>8 DEF ThreadsOK

\* Thread t puts itself on list w and goes on to its rt_schedule; the kernel
\* is any one that the section may have left.
LEMMA SuspendStep ==
  ASSUME ThreadsOK, NEW t \in Thread, NEW w \in WaitList,
         Running(k, t), pc[t] \in {"run", "back"}, Goto(t, "suspended"),
         k' \in KernelType, KernelOK(k'), k'.cur = k.cur, k'.lock = k.lock,
         k'.error = [k.error EXCEPT ![t] = "EOK"],
         k'.stat = [k.stat EXCEPT ![t] = "SUSPEND"],
         \A v \in WaitList : Range(k'.wait[v]) = IF v = w THEN Range(k.wait[v]) \cup {t}
                                                         ELSE Range(k.wait[v])
  PROVE  ThreadsOK' /\ (TopRuns => TopRuns') /\ Woken' = Woken \ {t} /\ OutcomeKept
<1>1. k.stat[t] = "READY" /\ t \notin Waiting /\ k.cur = t /\ Waiting \in SUBSET Thread
  BY CallerReady
<1>2. /\ k.error \in [Thread -> Error] /\ k.stat \in [Thread -> Stat] /\ pc \in [Thread -> PC]
      /\ k.lock = 0
  BY KernelTypeFields DEF ThreadsOK
<1>3. Waiting' = Waiting \cup {t}
  BY WaitingMore
<1>4. pc' \in [Thread -> PC] /\ pc'[t] = "suspended" /\ \A u \in Thread \ {t} : pc'[u] = pc[u]
  BY <1>2 DEF PC, Goto
<1>5. Woken' = Woken \ {t}
  BY <1>1, <1>2, <1>3, <1>4 DEF Woken
<1>6. WaitersWait'
  BY <1>1, <1>2, <1>3, <1>4 DEF WaitersWait, ThreadsOK
<1>7. CurrentReady' /\ (TopRuns => TopRuns')
  BY <1>1, <1>4 DEF CurrentReady, TopRuns
<1>8. OutcomeKept
  BY <1>1, <1>2, <1>3, <1>4 DEF OutcomeKept
<1>. QED
  BY <1>2, <1>4, <1>5, <1>6, <1>7, <1>8 DEF ThreadsOK

LEMMA WaitInv ==
  ASSUME ThreadsOK, NEW t \in Thread \ {Idle}, NEW w \in WaitList, NEW flag, NEW time \in Int,
         Running(k, t), pc[t] \in {"run", "back"}, Wait(t, w, flag, time)
  PROVE  /\ ThreadsOK' /\ (TopRuns => TopRuns') /\ Woken' = Woken \ {t} /\ OutcomeKept
         /\ \A v \in WaitList : Range(k'.wait[v]) = IF v = w THEN Range(k.wait[v]) \cup {t}
                                                             ELSE Range(k.wait[v])
<1>1. k \in KernelType /\ KernelOK(k) /\ k.stat[t] = "READY"
  BY CallerReady DEF ThreadsOK
<1>2. Blocked(k, Block(k, w, t, flag, time), t, w, flag)
  BY <1>1, BlockOK
<1>3. Blocked(k, k', t, w, flag)
  BY <1>2 DEF Wait
<1>4. Goto(t, "suspended")
  BY DEF Wait
<1>. QED
  BY <1>3, <1>4, SuspendStep DEF Blocked, SuspendedOn

\* Resuming the head of a list: j is the kernel before any rt_schedule.
LEMMA ResumeHead ==
  ASSUME ThreadsOK, k.due = {}, NEW w \in WaitList, k.wait[w] # << >>
  PROVE  LET j == ListResume(k, w)
             x == Head(k.wait[w]) IN
         /\ j \in KernelType /\ KernelOK(j)
         /\ x \in Range(k.wait[w]) /\ x \in Thread /\ x \in Waiting /\ k.stat[x] = "SUSPEND"
         /\ pc[x] \in {"suspended", "back"} /\ k.error[x] = "EOK" /\ x \notin Woken
         /\ j.error = k.error /\ j.cur = k.cur /\ j.lock = 0
         /\ j.stat = [k.stat EXCEPT ![x] = "READY"]
         /\ j.prio = k.prio /\ j.wait = Without(k.wait, x)
         /\ \A v \in WaitList : Range(j.wait[v]) = Range(k.wait[v]) \ {x}
<1>. DEFINE x == Head(k.wait[w])
            j == ListResume(k, w)
<1>1. k \in KernelType /\ KernelOK(k) /\ k.lock = 0
  BY DEF ThreadsOK
<1>2. /\ j \in KernelType /\ KernelOK(j)
      /\ x \in Range(k.wait[w]) /\ x \in Thread /\ k.stat[x] = "SUSPEND"
      /\ j.error = k.error /\ j.cur = k.cur /\ j.lock = k.lock
      /\ j.stat = [k.stat EXCEPT ![x] = "READY"]
      /\ j.prio = k.prio /\ j.wait = Without(k.wait, x)
      /\ \A v \in WaitList : Range(j.wait[v]) = Range(k.wait[v]) \ {x}
  BY <1>1, ListResumeOK
<1>. HIDE DEF x, j
<1>3. x \in Waiting
  BY <1>1, <1>2, WaitingType
<1>4. pc[x] \in {"suspended", "back"} /\ k.error[x] = "EOK" /\ x \notin Woken
  BY <1>3 DEF ThreadsOK, WaitersWait, Woken
<1>. QED
  BY <1>1, <1>2, <1>3, <1>4 DEF x, j

\* Thread t resumes x, a thread that waits, and goes on to its rt_schedule.
LEMMA WakeStep ==
  ASSUME ThreadsOK, NEW t \in Thread, Running(k, t), pc[t] \in {"run", "back", "copying"},
         Goto(t, "resched"), NEW x \in Waiting,
         k' \in KernelType, KernelOK(k'), k'.error = k.error, k'.cur = k.cur, k'.lock = k.lock,
         k'.stat = [k.stat EXCEPT ![x] = "READY"],
         \A v \in WaitList : Range(k'.wait[v]) = Range(k.wait[v]) \ {x}
  PROVE  /\ ThreadsOK' /\ (TopRuns => TopRuns') /\ OutcomeKept
         /\ x \in Thread /\ x # t /\ x \notin Woken /\ Woken' = (Woken \ {t}) \cup {x}
<1>1. k.stat[t] = "READY" /\ t \notin Waiting /\ k.cur = t /\ Waiting \in SUBSET Thread
  BY CallerReady
<1>2. k.stat \in [Thread -> Stat] /\ pc \in [Thread -> PC] /\ k.lock = 0
  BY KernelTypeFields DEF ThreadsOK
<1>3. Waiting' = Waiting \ {x} /\ x # t /\ x \in Thread
  BY <1>1, WaitingLess
<1>4. pc[x] \in {"suspended", "back"} /\ k.error[x] = "EOK" /\ x \notin Woken
  BY DEF ThreadsOK, WaitersWait, Woken
<1>5. pc' \in [Thread -> PC] /\ pc'[t] = "resched" /\ \A u \in Thread \ {t} : pc'[u] = pc[u]
  BY <1>2 DEF PC, Goto
<1>6. Woken' = (Woken \ {t}) \cup {x}
  BY <1>1, <1>3, <1>4, <1>5 DEF Woken
<1>7. WaitersWait'
  BY <1>1, <1>2, <1>3, <1>4, <1>5 DEF WaitersWait, ThreadsOK
<1>8. CurrentReady' /\ (TopRuns => TopRuns')
  BY <1>1, <1>2, <1>5 DEF CurrentReady, TopRuns
<1>9. OutcomeKept
  BY <1>3 DEF OutcomeKept
<1>. QED
  BY <1>2, <1>3, <1>4, <1>5, <1>6, <1>7, <1>8, <1>9 DEF ThreadsOK

LEMMA WakeInv ==
  ASSUME ThreadsOK, NEW t \in Thread, NEW w \in WaitList,
         Running(k, t), pc[t] \in {"run", "back", "copying"}, Wake(t, w)
  PROVE  /\ ThreadsOK' /\ (TopRuns => TopRuns') /\ OutcomeKept /\ ListsShrink
         /\ k.wait[w] = << >> => k' = k /\ Woken' = Woken \ {t}
         /\ k.wait[w] # << >> =>
              LET x == Head(k.wait[w]) IN
              /\ x \in Range(k.wait[w]) /\ x \in Thread /\ x # t /\ x \notin Woken
              /\ Woken' = (Woken \ {t}) \cup {x}
              /\ \A v \in WaitList : Range(k'.wait[v]) = Range(k.wait[v]) \ {x}
<1>1. CASE k.wait[w] = << >>
  <2>1. Goto(t, "run") /\ UNCHANGED k
    BY <1>1 DEF Wake
  <2>2. ListsShrink
    BY <2>1 DEF ListsShrink
  <2>. QED
    BY <1>1, <2>1, <2>2, ReturnInv
<1>2. CASE k.wait[w] # << >>
  <2>. DEFINE x == Head(k.wait[w])
              j == ListResume(k, w)
  <2>1. k' = j /\ Goto(t, "resched")
    BY <1>2 DEF Wake
  <2>2. k.due = {} /\ k.lock = 0
    BY DEF Running, ThreadsOK
  <2>3. /\ j \in KernelType /\ KernelOK(j)
        /\ x \in Range(k.wait[w]) /\ x \in Waiting /\ k.stat[x] = "SUSPEND"
        /\ j.error = k.error /\ j.cur = k.cur /\ j.lock = 0
        /\ j.stat = [k.stat EXCEPT ![x] = "READY"]
        /\ j.prio = k.prio /\ j.wait = Without(k.wait, x)
        /\ \A v \in WaitList : Range(j.wait[v]) = Range(k.wait[v]) \ {x}
    BY <1>2, <2>2, ResumeHead
  <2>. HIDE DEF x, j
  <2>4. /\ ThreadsOK' /\ (TopRuns => TopRuns') /\ OutcomeKept
        /\ x \in Thread /\ x # t /\ x \notin Woken /\ Woken' = (Woken \ {t}) \cup {x}
    BY <2>1, <2>2, <2>3, WakeStep
  <2>5. ListsShrink
    BY <2>1, <2>3, <2>4 DEF ListsShrink
  <2>. QED
    BY <1>2, <2>1, <2>3, <2>4, <2>5 DEF x
<1>. QED
  BY <1>1, <1>2

\* Thread t goes on in its call: it has changed priorities or its own error
\* code only.
LEMMA CallerStep ==
  ASSUME ThreadsOK, NEW t \in Thread, Running(k, t), pc[t] \notin {"suspended", "back", "asleep"},
         UNCHANGED pc, k' \in KernelType, KernelOK(k'), k'.cur = k.cur, k'.lock = k.lock,
         k'.stat = k.stat, k'.wait = k.wait,
         \A u \in Thread \ {t} : k'.error[u] = k.error[u]
  PROVE  ThreadsOK' /\ Woken' = Woken /\ OutcomeKept
<1>1. k.stat[t] = "READY" /\ t \notin Waiting /\ Waiting \in SUBSET Thread
  BY CallerReady
<1>2. Waiting' = Waiting
  BY DEF Waiting
<1>3. Woken' = Woken
  BY <1>1, <1>2 DEF Woken
<1>4. WaitersWait' /\ CurrentReady'
  BY <1>1, <1>2 DEF ThreadsOK, WaitersWait, CurrentReady
<1>5. OutcomeKept
  BY <1>2 DEF OutcomeKept
<1>. QED
  BY <1>3, <1>4, <1>5 DEF ThreadsOK

LEMMA IsrWakeInv ==
  ASSUME ThreadsOK, NEW w \in WaitList, k.due = {}, IsrWake(w)
  PROVE  /\ ThreadsOK' /\ (TopRuns => TopRuns') /\ OutcomeKept /\ ListsShrink
         /\ k.wait[w] = << >> => k' = k /\ Woken' = Woken
         /\ k.wait[w] # << >> =>
              LET x == Head(k.wait[w]) IN
              /\ x \in Range(k.wait[w]) /\ x \in Thread /\ x \notin Woken
              /\ Woken' = Woken \cup {x}
              /\ \A v \in WaitList : Range(k'.wait[v]) = Range(k.wait[v]) \ {x}
<1>1. CASE k.wait[w] = << >>
  <2>1. k' = k /\ pc' = pc
    BY <1>1 DEF IsrWake
  <2>2. Waiting' = Waiting /\ Woken' = Woken
    BY <2>1 DEF Waiting, Woken
  <2>3. OutcomeKept /\ ListsShrink
    BY <2>1, <2>2 DEF OutcomeKept, ListsShrink
  <2>. QED
    BY <1>1, <2>1, <2>2, <2>3 DEF ThreadsOK, WaitersWait, CurrentReady, TopRuns
<1>2. CASE k.wait[w] # << >>
  <2>. DEFINE x == Head(k.wait[w])
              j == ListResume(k, w)
  <2>1. k' = Schedule(j) /\ pc' = pc
    BY <1>2 DEF IsrWake
  <2>2. /\ j \in KernelType /\ KernelOK(j)
        /\ x \in Range(k.wait[w]) /\ x \in Thread /\ x \in Waiting /\ k.stat[x] = "SUSPEND"
        /\ pc[x] \in {"suspended", "back"} /\ k.error[x] = "EOK" /\ x \notin Woken
        /\ j.error = k.error /\ j.cur = k.cur /\ j.lock = 0
        /\ j.stat = [k.stat EXCEPT ![x] = "READY"]
        /\ j.prio = k.prio /\ j.wait = Without(k.wait, x)
        /\ \A v \in WaitList : Range(j.wait[v]) = Range(k.wait[v]) \ {x}
    BY <1>2, ResumeHead
  <2>. HIDE DEF x, j
  <2>3. /\ k' \in KernelType /\ KernelOK(k') /\ k' = [j EXCEPT !.cur = k'.cur]
        /\ k'.stat[k'.cur] = "READY" /\ CurrentIsTop(k')
    BY <2>1, <2>2, ScheduleOK DEF CurrentIsTop
  <2>4. k'.lock = 0 /\ k'.error = k.error /\ k'.stat = j.stat /\ k'.wait = j.wait /\ k'.prio = j.prio
    BY <2>2, <2>3 DEF KernelType
  <2>5. Waiting' = Waiting \ {x}
    BY <2>2, <2>4, WaitingLess
  <2>6. k.stat \in [Thread -> Stat] /\ pc \in [Thread -> PC] /\ Waiting \in SUBSET Thread
    BY KernelTypeFields, WaitingType DEF ThreadsOK
  <2>7. Woken' = Woken \cup {x}
    BY <2>1, <2>2, <2>4, <2>5 DEF Woken
  <2>8. WaitersWait'
    BY <2>1, <2>2, <2>4, <2>5, <2>6 DEF WaitersWait, ThreadsOK
  <2>9. ThreadsOK' /\ (TopRuns => TopRuns')
    BY <2>1, <2>3, <2>4, <2>6, <2>8 DEF ThreadsOK, CurrentReady, TopRuns
  <2>10. OutcomeKept /\ ListsShrink
    BY <2>2, <2>4, <2>5 DEF OutcomeKept, ListsShrink
  <2>. QED
    BY <1>2, <2>2, <2>4, <2>7, <2>9, <2>10 DEF x
<1>. QED
  BY <1>1, <1>2

-----------------------------------------------------------------------------
(* A section taken in several steps. *)

\* EnterSection and LeaveSection change nothing in the kernel but irqOff.
LEMMA SectionEdge ==
  ASSUME ThreadsOK, NEW t \in Thread, Running(k, t), pc[t] \notin {"suspended", "back", "asleep"},
         NEW off \in BOOLEAN, k' = [k EXCEPT !.irqOff = off],
         NEW l \in {"section", "resched"}, Goto(t, l)
  PROVE  /\ ThreadsOK' /\ (TopRuns => TopRuns') /\ Woken' = Woken /\ OutcomeKept
         /\ k'.wait = k.wait /\ k'.prio = k.prio
<1>1. k.stat[t] = "READY" /\ t \notin Waiting /\ k.cur = t /\ Waiting \in SUBSET Thread
  BY CallerReady
<1>2. /\ k' \in KernelType /\ k'.ready = k.ready /\ k'.group = k.group /\ k'.wait = k.wait
      /\ k'.stat = k.stat /\ k'.prio = k.prio /\ k'.error = k.error /\ k'.timer = k.timer
      /\ k'.due = k.due /\ k'.cur = k.cur /\ k'.lock = k.lock /\ KernelOK(k) /\ k.lock = 0
      /\ pc \in [Thread -> PC]
  BY DEF ThreadsOK, KernelType
<1>3. KernelOK(k')
  BY <1>2 DEF KernelOK, ReadyLists, GroupMatches, WaitLists, TimersOfSuspended
<1>4. Waiting' = Waiting
  BY <1>2 DEF Waiting
<1>5. pc' \in [Thread -> PC] /\ pc'[t] = l /\ \A u \in Thread \ {t} : pc'[u] = pc[u]
  BY <1>2 DEF Goto, PC
<1>6. Woken' = Woken
  BY <1>1, <1>2, <1>4, <1>5 DEF Woken
<1>7. WaitersWait' /\ CurrentReady' /\ (TopRuns => TopRuns')
  BY <1>1, <1>2, <1>4, <1>5 DEF ThreadsOK, WaitersWait, CurrentReady, TopRuns
<1>8. OutcomeKept
  BY <1>2, <1>4 DEF OutcomeKept
<1>. QED
  BY <1>2, <1>3, <1>5, <1>6, <1>7, <1>8 DEF ThreadsOK

LEMMA EnterSectionInv ==
  ASSUME ThreadsOK, NEW t \in Thread, Running(k, t), pc[t] \in {"run", "copying"}, EnterSection(t)
  PROVE  /\ ThreadsOK' /\ (TopRuns => TopRuns') /\ Woken' = Woken /\ OutcomeKept
         /\ k'.wait = k.wait /\ k'.prio = k.prio
BY SectionEdge DEF EnterSection

LEMMA LeaveSectionInv ==
  ASSUME ThreadsOK, NEW t \in Thread, Running(k, t), pc[t] = "section", LeaveSection(t)
  PROVE  /\ ThreadsOK' /\ (TopRuns => TopRuns') /\ Woken' = Woken /\ OutcomeKept
         /\ k'.wait = k.wait /\ k'.prio = k.prio
BY SectionEdge DEF LeaveSection

LEMMA ResumeAllTurnInv ==
  ASSUME ThreadsOK, NEW t \in Thread, NEW w \in WaitList, ResumeAllTurn(t, w)
  PROVE  /\ ThreadsOK' /\ (TopRuns => TopRuns') /\ Woken' = Woken /\ OutcomeKept
         /\ \A v \in WaitList : Range(k'.wait[v]) \subseteq Range(k.wait[v])
<1>. DEFINE x == Head(k.wait[w])
            j == ListResumeError(k, w)
<1>0. Running(k, t) /\ pc[t] = "section" /\ k.wait[w] # << >> /\ k' = j /\ pc' = pc
  BY DEF ResumeAllTurn
<1>1. k.stat[t] = "READY" /\ k.due = {} /\ k.cur = t /\ Waiting \in SUBSET Thread
  BY <1>0, CallerReady
<1>2. k \in KernelType /\ KernelOK(k) /\ k.lock = 0 /\ pc \in [Thread -> PC]
  BY DEF ThreadsOK
<1>3. /\ j \in KernelType /\ KernelOK(j)
      /\ x \in Range(k.wait[w]) /\ x \in Thread
      /\ j.error = [k.error EXCEPT ![x] = "ERROR"] /\ j.cur = k.cur /\ j.lock = k.lock
      /\ j.stat = [k.stat EXCEPT ![x] = "READY"]
      /\ \A v \in WaitList : Range(j.wait[v]) = Range(k.wait[v]) \ {x}
  BY <1>0, <1>1, <1>2, ListResumeErrorOK
<1>. HIDE DEF x, j
<1>4. Waiting' = Waiting \ {x} /\ x \in Waiting
  BY <1>0, <1>2, <1>3, WaitingLess, WaitingType
<1>5. k.error \in [Thread -> Error] /\ k.stat \in [Thread -> Stat]
  BY <1>2, KernelTypeFields
<1>6. Woken' = Woken
  BY <1>0, <1>3, <1>4, <1>5 DEF Woken
<1>7. WaitersWait'
  <2>1. \A u \in Waiting' : pc'[u] \in {"suspended", "back"} /\ k'.error[u] = "EOK"
    BY <1>0, <1>1, <1>3, <1>4, <1>5 DEF ThreadsOK, WaitersWait
  <2>2. \A u \in Thread : k'.stat[u] = "SUSPEND" =>
          \/ pc'[u] \in {"suspended", "back"} /\ u \in Waiting'
          \/ pc'[u] \in {"asleep", "woke"}
    BY <1>0, <1>3, <1>4, <1>5 DEF ThreadsOK, WaitersWait
  <2>. QED
    BY <2>1, <2>2 DEF WaitersWait
<1>8. CurrentReady' /\ (TopRuns => TopRuns')
  BY <1>0, <1>1, <1>3, <1>5 DEF CurrentReady, TopRuns
<1>9. \A v \in WaitList : Range(k'.wait[v]) \subseteq Range(k.wait[v])
  BY <1>0, <1>3
<1>10. OutcomeKept
  BY <1>0, <1>3, <1>4, <1>5 DEF OutcomeKept
<1>. QED
  BY <1>0, <1>2, <1>3, <1>6, <1>7, <1>8, <1>9, <1>10 DEF ThreadsOK

-----------------------------------------------------------------------------
(* The steps every system takes. *)

LEMMA SleepInv ==
  ASSUME ThreadsOK, NEW t \in Thread, Sleep(t)
  PROVE  /\ ThreadsOK' /\ (TopRuns => TopRuns') /\ Woken' = Woken /\ OutcomeKept /\ ListsShrink
         /\ \A w \in WaitList : Range(k'.wait[w]) \subseteq Range(k.wait[w])
<1>. DEFINE j == StartTimer(Suspend(k, t), t, 1)
<1>0. /\ Running(k, t) /\ pc[t] = "run" /\ t # Idle /\ k' = j
      /\ pc' = [pc EXCEPT ![t] = "asleep"]
  BY DEF Sleep, MayCall, Goto
<1>1. k.stat[t] = "READY" /\ t \notin Waiting /\ k.cur = t /\ Waiting \in SUBSET Thread
  BY <1>0, CallerReady
<1>2. k \in KernelType /\ KernelOK(k) /\ k.lock = 0 /\ pc \in [Thread -> PC] /\ t \in Thread \ {Idle}
  BY <1>0 DEF ThreadsOK
<1>3. /\ j \in KernelType /\ KernelOK(j)
      /\ j.cur = k.cur /\ j.lock = k.lock /\ j.error = k.error
      /\ j.stat = [k.stat EXCEPT ![t] = "SUSPEND"]
      /\ j.prio = k.prio /\ j.wait = k.wait
  <2>1. 1 \in Nat
    OBVIOUS
  <2>. QED
    BY <1>1, <1>2, <2>1, SleepOK
<1>. HIDE DEF j
<1>4. Waiting' = Waiting /\ \A w \in WaitList : Range(k'.wait[w]) \subseteq Range(k.wait[w])
  BY <1>0, <1>3, WaitingSame
<1>5. /\ k.stat \in [Thread -> Stat] /\ pc' \in [Thread -> PC]
      /\ pc'[t] = "asleep" /\ \A u \in Thread \ {t} : pc'[u] = pc[u]
  BY <1>0, <1>2, KernelTypeFields DEF PC
<1>6. Woken' = Woken
  BY <1>0, <1>3, <1>4, <1>5 DEF Woken
<1>7. WaitersWait'
  BY <1>0, <1>1, <1>3, <1>4, <1>5 DEF ThreadsOK, WaitersWait
<1>8. CurrentReady' /\ (TopRuns => TopRuns')
  BY <1>0, <1>1, <1>3, <1>5 DEF CurrentReady, TopRuns
<1>9. OutcomeKept /\ ListsShrink
  BY <1>0, <1>3, <1>4 DEF OutcomeKept, ListsShrink
<1>. QED
  BY <1>0, <1>2, <1>3, <1>4, <1>5, <1>6, <1>7, <1>8, <1>9 DEF ThreadsOK

LEMMA SleepReturnInv ==
  ASSUME ThreadsOK, NEW t \in Thread, SleepReturn(t)
  PROVE  /\ ThreadsOK' /\ (TopRuns => TopRuns') /\ Woken' = Woken /\ OutcomeKept /\ ListsShrink
         /\ \A w \in WaitList : Range(k'.wait[w]) \subseteq Range(k.wait[w])
<1>0. /\ Running(k, t) /\ pc[t] = "woke"
      /\ k' = [k EXCEPT !.error[t] = IF @ = "ETIMEOUT" THEN "EOK" ELSE @]
      /\ pc' = [pc EXCEPT ![t] = "run"]
  BY DEF SleepReturn, Goto
<1>1. k.stat[t] = "READY" /\ t \notin Waiting /\ k.cur = t /\ Waiting \in SUBSET Thread
  BY <1>0, CallerReady
<1>2. /\ k' \in KernelType /\ k'.ready = k.ready /\ k'.group = k.group /\ k'.wait = k.wait
      /\ k'.stat = k.stat /\ k'.prio = k.prio /\ k'.timer = k.timer
      /\ k'.due = k.due /\ k'.cur = k.cur /\ k'.lock = k.lock /\ KernelOK(k) /\ k.lock = 0
      /\ \A u \in Thread \ {t} : k'.error[u] = k.error[u]
      /\ pc \in [Thread -> PC] /\ pc' \in [Thread -> PC]
  BY <1>0 DEF ThreadsOK, KernelType, Error, PC
<1>3. KernelOK(k')
  BY <1>2 DEF KernelOK, ReadyLists, GroupMatches, WaitLists, TimersOfSuspended
<1>4. Waiting' = Waiting
  BY <1>2 DEF Waiting
<1>5. /\ pc'[t] = "run" /\ \A u \in Thread \ {t} : pc'[u] = pc[u]
  BY <1>0, <1>2
<1>6. Woken' = Woken
  BY <1>0, <1>2, <1>4, <1>5 DEF Woken
<1>7. WaitersWait' /\ CurrentReady' /\ (TopRuns => TopRuns')
  BY <1>0, <1>1, <1>2, <1>4, <1>5 DEF ThreadsOK, WaitersWait, CurrentReady, TopRuns, CurrentIsTop
<1>8. OutcomeKept /\ ListsShrink
  BY <1>0, <1>2, <1>4 DEF OutcomeKept, ListsShrink
<1>. QED
  BY <1>0, <1>2, <1>3, <1>4, <1>6, <1>7, <1>8 DEF ThreadsOK

LEMMA CallScheduleInv ==
  ASSUME ThreadsOK, NEW t \in Thread, CallSchedule(t)
  PROVE  /\ ThreadsOK' /\ (TopRuns => TopRuns') /\ Woken' = Woken /\ OutcomeKept /\ ListsShrink
         /\ \A w \in WaitList : Range(k'.wait[w]) \subseteq Range(k.wait[w])
<1>0. /\ Running(k, t) /\ pc[t] \in {"suspended", "resched", "asleep"} /\ k' = Schedule(k)
      /\ pc' = [pc EXCEPT ![t] = CASE pc[t] = "suspended" -> "back"
                                   [] pc[t] = "resched"   -> "run"
                                   [] pc[t] = "asleep"    -> "woke"]
  BY DEF CallSchedule, Goto
<1>1. k \in KernelType /\ KernelOK(k) /\ k.lock = 0 /\ pc \in [Thread -> PC]
  BY DEF ThreadsOK
<1>2. /\ k' \in KernelType /\ KernelOK(k') /\ k' = [k EXCEPT !.cur = k'.cur]
      /\ k'.stat[k'.cur] = "READY" /\ CurrentIsTop(k')
  BY <1>0, <1>1, ScheduleOK DEF CurrentIsTop
<1>3. k'.lock = 0 /\ k'.error = k.error /\ k'.stat = k.stat /\ k'.wait = k.wait /\ k'.prio = k.prio
  BY <1>1, <1>2 DEF KernelType
<1>4. Waiting' = Waiting /\ Waiting \in SUBSET Thread
  BY <1>1, <1>3, WaitingType DEF Waiting
<1>5. /\ \A u \in Thread : pc'[u] \in {"suspended", "back"} <=> pc[u] \in {"suspended", "back"}
      /\ \A u \in Thread : pc'[u] \in {"asleep", "woke"} <=> pc[u] \in {"asleep", "woke"}
      /\ pc' \in [Thread -> PC]
  BY <1>0, <1>1 DEF PC
<1>6. Woken' = Woken
  BY <1>3, <1>4, <1>5 DEF Woken
<1>7. WaitersWait' /\ CurrentReady' /\ (TopRuns => TopRuns')
  BY <1>2, <1>3, <1>4, <1>5 DEF ThreadsOK, WaitersWait, CurrentReady, TopRuns
<1>8. OutcomeKept /\ ListsShrink
  BY <1>3, <1>4 DEF OutcomeKept, ListsShrink
<1>. QED
  BY <1>0, <1>2, <1>3, <1>4, <1>5, <1>6, <1>7, <1>8 DEF ThreadsOK

LEMMA TickInv ==
  ASSUME ThreadsOK, Tick
  PROVE  /\ ThreadsOK' /\ (TopRuns => TopRuns') /\ Woken' = Woken /\ OutcomeKept /\ ListsShrink
         /\ \A w \in WaitList : Range(k'.wait[w]) \subseteq Range(k.wait[w])
<1>0. PICK sliceEnds \in BOOLEAN : k' = TickBegin(k, sliceEnds)
  BY DEF Tick
<1>1. pc' = pc
  BY DEF Tick
<1>2. k \in KernelType /\ KernelOK(k) /\ k.lock = 0 /\ pc \in [Thread -> PC]
  BY DEF ThreadsOK
<1>3. /\ k' \in KernelType /\ KernelOK(k')
      /\ k' = [k EXCEPT !.ready = k'.ready, !.cur = k'.cur, !.due = k'.due, !.timer = k'.timer]
      /\ (k'.cur = k.cur \/ (k'.stat[k'.cur] = "READY" /\ CurrentIsTop(k')))
  BY <1>0, <1>2, TickBeginOK
<1>4. /\ k'.lock = 0 /\ k'.error = k.error /\ k'.stat = k.stat /\ k'.wait = k.wait
      /\ k'.prio = k.prio
  BY <1>2, <1>3 DEF KernelType
<1>5. Waiting' = Waiting
  BY <1>4 DEF Waiting
<1>6. Woken' = Woken
  BY <1>1, <1>4, <1>5 DEF Woken
<1>7. WaitersWait' /\ CurrentReady' /\ (TopRuns => TopRuns')
  BY <1>1, <1>3, <1>4, <1>5
     DEF ThreadsOK, WaitersWait, CurrentReady, TopRuns, CurrentIsTop
<1>8. OutcomeKept /\ ListsShrink
  BY <1>4, <1>5 DEF OutcomeKept, ListsShrink
<1>. QED
  BY <1>1, <1>2, <1>3, <1>4, <1>6, <1>7, <1>8 DEF ThreadsOK

LEMMA TimerFiresInv ==
  ASSUME ThreadsOK, TimerFires
  PROVE  /\ ThreadsOK' /\ (TopRuns => TopRuns') /\ Woken' = Woken /\ OutcomeKept /\ ListsShrink
         /\ \A w \in WaitList : Range(k'.wait[w]) \subseteq Range(k.wait[w])
<1>0. PICK x \in k.due : k' = Fire(k, x)
  BY DEF TimerFires
<1>1. pc' = pc
  BY DEF TimerFires
<1>2. k \in KernelType /\ KernelOK(k) /\ k.lock = 0 /\ pc \in [Thread -> PC]
  BY DEF ThreadsOK
<1>3. /\ k' \in KernelType /\ KernelOK(k')
      /\ k'.error = [k.error EXCEPT ![x] = "ETIMEOUT"] /\ k'.lock = k.lock
      /\ k.stat[x] = "SUSPEND" /\ k'.stat = [k.stat EXCEPT ![x] = "READY"]
      /\ k'.stat[k'.cur] = "READY" /\ CurrentIsTop(k')
      /\ k'.prio = k.prio /\ k'.wait = Without(k.wait, x)
      /\ \A v \in WaitList : Range(k'.wait[v]) = Range(k.wait[v]) \ {x}
  <2>1. k \in KernelType /\ x \in k.due /\ KernelOK(k) /\ k.lock = 0
    BY <1>2
  <2>2. TimedOut(k, Fire(k, x), x)
    BY <2>1, FireOK
  <2>3. TimedOut(k, k', x)
    BY <1>0, <2>2
  <2>. QED
    BY <2>3 DEF TimedOut
<1>4. /\ x \in Thread /\ k.error \in [Thread -> Error] /\ k.stat \in [Thread -> Stat]
      /\ Waiting' = Waiting \ {x} /\ Waiting \in SUBSET Thread
  <2>1. k.due \in SUBSET Thread /\ k.error \in [Thread -> Error] /\ k.stat \in [Thread -> Stat]
    BY <1>2, KernelTypeFields
  <2>. QED
    BY <1>2, <1>3, <2>1, WaitingLess, WaitingType
<1>5. pc[x] \in {"suspended", "back"} => x \in Waiting
  BY <1>3, <1>4 DEF ThreadsOK, WaitersWait
<1>6. Woken' = Woken
  BY <1>1, <1>3, <1>4, <1>5 DEF Woken
<1>7. WaitersWait'
  BY <1>1, <1>3, <1>4, <1>5 DEF ThreadsOK, WaitersWait
<1>8. CurrentReady' /\ (TopRuns => TopRuns')
  BY <1>3 DEF CurrentReady, TopRuns
<1>9. \A v \in WaitList : Range(k'.wait[v]) \subseteq Range(k.wait[v])
  BY <1>3
<1>10. OutcomeKept /\ ListsShrink
  BY <1>1, <1>3, <1>4, <1>5 DEF OutcomeKept, ListsShrink
<1>. QED
  BY <1>1, <1>2, <1>3, <1>6, <1>7, <1>8, <1>9, <1>10 DEF ThreadsOK

\* All of them at once.
LEMMA SystemStepInv ==
  ASSUME ThreadsOK, (\E t \in Thread : ThreadStep(t)) \/ Tick \/ TimerFires
  PROVE  /\ ThreadsOK' /\ (TopRuns => TopRuns') /\ Woken' = Woken /\ OutcomeKept /\ ListsShrink
         /\ \A w \in WaitList : Range(k'.wait[w]) \subseteq Range(k.wait[w])
<1>1. CASE Tick
  BY <1>1, TickInv
<1>2. CASE TimerFires
  BY <1>2, TimerFiresInv
<1>3. CASE \E t \in Thread : ThreadStep(t)
  BY <1>3, SleepInv, SleepReturnInv, CallScheduleInv DEF ThreadStep
<1>. QED
  BY <1>1, <1>2, <1>3
=============================================================================
