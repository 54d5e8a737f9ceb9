------------------------- MODULE MessageQueueProofs -------------------------
(***************************************************************************)
(* The safety of module MessageQueue for every pool of slots, every number *)
(* of threads and messages, both flags and all waiting times: the slots    *)
(* are always accounted for, no message is left behind while a receiver    *)
(* waits, nobody writes into a slot that is being copied out of, and the   *)
(* linked slots are a bounded queue with urgent messages.                  *)
(*                                                                         *)
(* Whole says what the pointers make up: the queue Q and the free list F,  *)
(* which follow next to its end, and with the slots H that threads hold    *)
(* between two sections partition the pool.  The first part shows what     *)
(* each section does to them, the second that the sections of a call never *)
(* leave a slot that two threads hold.                                     *)
(***************************************************************************)
EXTENDS MessageQueue, ThreadsProofs

\* Linked for any function next.
Path(nx, c, p) ==
    /\ p = IF c = << >> THEN NULL ELSE c[1]
    /\ \A i \in 1 .. Len(c) : nx[c[i]] = IF i = Len(c) THEN NULL ELSE c[i + 1]

ListOfSlots(c) == c \in Seq(Slot) /\ IsInjective(c)

Whole(nx, h, tl, fr, e, H, Q, F) ==
    /\ nx \in [Slot -> Slot \cup {NULL}]
    /\ H \in SUBSET Slot
    /\ ListOfSlots(Q) /\ Path(nx, Q, h)
    /\ ListOfSlots(F) /\ Path(nx, F, fr)
    /\ Range(Q) \cap Range(F) = {} /\ H \cap (Range(Q) \cup Range(F)) = {}
    /\ Range(Q) \cup Range(F) \cup H = Slot
    /\ e = Len(Q)
    /\ tl = IF Q = << >> THEN NULL ELSE Q[Len(Q)]

-----------------------------------------------------------------------------
(* Lists of slots. *)

LEMMA SlotsFinite ==
  /\ IsFiniteSet(Slot) /\ Slot # {} /\ NULL \notin Slot
  /\ Cardinality(Slot) \in Nat \ {0}
<1>1. IsFiniteSet(Slot) /\ Slot # {} /\ NULL \notin Slot
  BY MessageQueueAssumption
<1>2. Cardinality(Slot) \in Nat /\ Cardinality(Slot) # 0
  BY <1>1, FS_CardinalityType, FS_EmptySet
<1>. QED
  BY <1>1, <1>2

LEMMA Elements ==
  ASSUME NEW S, NEW c \in Seq(S)
  PROVE  /\ Len(c) \in Nat
         /\ \A i \in 1 .. Len(c) : c[i] \in Range(c) /\ c[i] \in S
         /\ \A T : (\A i \in 1 .. Len(c) : c[i] \in T) => Range(c) \subseteq T
BY DEF Range

\* The pointer to a list tells whether there is anything in it, and leads to
\* the first of it.
LEMMA PathStart ==
  ASSUME NEW nx, NEW p, NEW c, ListOfSlots(c), Path(nx, c, p)
  PROVE  /\ p = NULL <=> c = << >>
         /\ p # NULL => /\ Len(c) \in Nat \ {0} /\ c[1] = p /\ Head(c) = p
                        /\ p \in Range(c) /\ p \in Slot
<1>1. c \in Seq(Slot) /\ NULL \notin Slot
  BY SlotsFinite DEF ListOfSlots
<1>2. c # << >> => Len(c) \in Nat \ {0} /\ c[1] \in Slot /\ c[1] \in Range(c) /\ Head(c) = c[1]
  BY <1>1 DEF Range
<1>. QED
  BY <1>1, <1>2 DEF Path

\* Following next from one pointer can yield one list only.
LEMMA PathUnique ==
  ASSUME NEW nx, NEW p, NEW c \in Seq(Slot), NEW d \in Seq(Slot),
         Path(nx, c, p), Path(nx, d, p)
  PROVE  c = d
<1>. DEFINE D == {i \in 1 .. Len(c) : i <= Len(d) /\ c[i] # d[i]}
<1>0. NULL \notin Slot
  BY SlotsFinite
<1>1. Len(c) \in Nat /\ Len(d) \in Nat
  OBVIOUS
<1>2. D = {}
  <2>1. SUFFICES ASSUME D # {} PROVE FALSE
    OBVIOUS
  <2>2. D \in SUBSET (0 .. Len(c))
    BY <1>1
  <2>3. PICK m \in D : \A i \in D : m <= i
    <3>1. Len(c) \in Nat /\ D \in SUBSET (0 .. Len(c)) /\ D # {}
      BY <1>1, <2>1, <2>2
    <3>. HIDE DEF D
    <3>2. Min(D) \in D /\ \A x \in D : Min(D) <= x
      BY <3>1, MinOfRange
    <3>. QED
      BY <3>2
  <2>4. m \in 1 .. Len(c) /\ m <= Len(d) /\ c[m] # d[m]
    OBVIOUS
  <2>5. m # 1
    BY <1>1, <2>4 DEF Path
  <2>6. m - 1 \in 1 .. Len(c) /\ m - 1 <= Len(d) /\ m - 1 # Len(c) /\ m - 1 # Len(d)
    BY <1>1, <2>4, <2>5
  <2>7. c[m - 1] = d[m - 1]
    BY <2>3, <2>6
  <2>8. nx[c[m - 1]] = c[m] /\ nx[d[m - 1]] = d[m]
    <3>. DEFINE j == m - 1
    <3>1. j \in 1 .. Len(c) /\ j \in 1 .. Len(d) /\ j # Len(c) /\ j # Len(d) /\ j + 1 = m
      BY <1>1, <2>4, <2>6
    <3>. HIDE DEF j, D
    <3>2. nx[c[j]] = c[j + 1] /\ nx[d[j]] = d[j + 1]
      BY <3>1 DEF Path
    <3>. QED
      BY <3>1, <3>2 DEF j
  <2>. QED
    BY <2>4, <2>7, <2>8
<1>3. \A i \in 1 .. Len(c) : i <= Len(d) => c[i] = d[i]
  BY <1>2
<1>. HIDE DEF D
<1>4. ASSUME NEW a \in Seq(Slot), NEW b \in Seq(Slot), Path(nx, a, p), Path(nx, b, p),
             \A i \in 1 .. Len(a) : i <= Len(b) => a[i] = b[i]
      PROVE  ~ Len(a) < Len(b)
  <2>1. SUFFICES ASSUME Len(a) < Len(b) PROVE FALSE
    OBVIOUS
  <2>2. Len(a) \in Nat /\ Len(b) \in Nat
    OBVIOUS
  <2>3. b[Len(a) + 1] \in Slot /\ b # << >>
    BY <2>1, <2>2
  <2>4. CASE Len(a) = 0
    BY <1>0, <2>3, <2>4, <1>4 DEF Path
  <2>5. CASE Len(a) # 0
    <3>. DEFINE n == Len(a)
    <3>1. n \in 1 .. Len(a) /\ n \in 1 .. Len(b) /\ n # Len(b) /\ n <= Len(b) /\ a # << >>
      BY <2>1, <2>2, <2>5
    <3>2. a[n] = b[n] /\ nx[a[n]] = NULL
      <4>1. nx[a[Len(a)]] = NULL
        BY <1>4, <3>1 DEF Path
      <4>. QED
        BY <1>4, <3>1, <4>1
    <3>. HIDE DEF n
    <3>3. nx[b[n]] = b[n + 1]
      BY <1>4, <3>1 DEF Path
    <3>. QED
      BY <1>0, <2>3, <3>2, <3>3 DEF n
  <2>. QED
    BY <2>4, <2>5
<1>5. \A i \in 1 .. Len(d) : i <= Len(c) => d[i] = c[i]
  BY <1>1, <1>3
<1>6. Len(c) = Len(d)
  <2>1. ~ Len(c) < Len(d)
    BY <1>3, <1>4
  <2>2. ~ Len(d) < Len(c)
    BY <1>5, <1>4
  <2>. QED
    BY <1>1, <2>1, <2>2
<1>7. \A i \in 1 .. Len(c) : c[i] = d[i]
  BY <1>1, <1>3, <1>6
<1>. QED
  BY <1>6, <1>7, SeqEqual

\* What is behind the first slot of a list.
LEMMA TailList ==
  ASSUME NEW c, ListOfSlots(c), c # << >>
  PROVE  /\ ListOfSlots(Tail(c)) /\ Len(Tail(c)) = Len(c) - 1 /\ Len(c) \in Nat \ {0}
         /\ \A i \in 1 .. Len(c) - 1 : Tail(c)[i] = c[i + 1]
         /\ c[1] \in Range(c) /\ Range(Tail(c)) = Range(c) \ {c[1]}
<1>1. /\ c \in Seq(Slot) /\ Tail(c) \in Seq(Slot) /\ Len(c) \in Nat \ {0}
      /\ Len(Tail(c)) = Len(c) - 1
      /\ \A i \in 1 .. Len(c) - 1 : Tail(c)[i] = c[i + 1]
  BY HeadTailProperties DEF ListOfSlots
<1>2. \A i, j \in 1 .. Len(c) : c[i] = c[j] => i = j
  BY <1>1 DEF ListOfSlots, IsInjective
<1>3. IsInjective(Tail(c))
  <2>1. ASSUME NEW i \in 1 .. Len(c) - 1, NEW j \in 1 .. Len(c) - 1, Tail(c)[i] = Tail(c)[j]
        PROVE  i = j
    <3>1. i + 1 \in 1 .. Len(c) /\ j + 1 \in 1 .. Len(c) /\ c[i + 1] = c[j + 1]
      BY <1>1, <2>1
    <3>2. i + 1 = j + 1
      BY <1>2, <3>1
    <3>. QED
      BY <3>2
  <2>. QED
    BY <1>1, <2>1 DEF IsInjective
<1>4. Range(Tail(c)) = Range(c) \ {c[1]}
  <2>1. ASSUME NEW i \in 1 .. Len(c) - 1 PROVE Tail(c)[i] \in Range(c) \ {c[1]}
    <3>1. i + 1 \in 1 .. Len(c) /\ 1 \in 1 .. Len(c) /\ i + 1 # 1
      BY <1>1
    <3>. QED
      BY <1>1, <1>2, <3>1, Elements
  <2>2. ASSUME NEW i \in 1 .. Len(c), c[i] # c[1] PROVE c[i] \in Range(Tail(c))
    <3>1. i # 1
      BY <2>2
    <3>2. i - 1 \in 1 .. Len(c) - 1 /\ (i - 1) + 1 = i
      BY <1>1, <3>1
    <3>3. Tail(c)[i - 1] = c[i]
      BY <1>1, <3>2
    <3>4. i - 1 \in 1 .. Len(Tail(c))
      BY <1>1, <3>2
    <3>. QED
      BY <1>1, <3>3, <3>4, Elements
  <2>3. Range(Tail(c)) \subseteq Range(c) \ {c[1]}
    BY <1>1, <2>1, Elements
  <2>4. Range(c) \subseteq Range(Tail(c)) \cup {c[1]}
    <3>1. \A i \in 1 .. Len(c) : c[i] \in Range(Tail(c)) \cup {c[1]}
      BY <2>2
    <3>. QED
      BY <1>1, <3>1, Elements
  <2>. QED
    BY <2>3, <2>4
<1>5. c[1] \in Range(c)
  BY <1>1, Elements
<1>. QED
  BY <1>1, <1>3, <1>4, <1>5 DEF ListOfSlots

\* A slot put before a list that does not hold it.
LEMMA PushList ==
  ASSUME NEW c, ListOfSlots(c), NEW s \in Slot, s \notin Range(c)
  PROVE  /\ ListOfSlots(<<s>> \o c) /\ Len(<<s>> \o c) = Len(c) + 1
         /\ (<<s>> \o c)[1] = s /\ \A i \in 1 .. Len(c) : (<<s>> \o c)[i + 1] = c[i]
         /\ <<s>> \o c # << >> /\ Range(<<s>> \o c) = Range(c) \cup {s}
<1>. DEFINE r == <<s>> \o c
<1>1. c \in Seq(Slot) /\ Len(c) \in Nat /\ <<s>> \in Seq(Slot) /\ Len(<<s>>) = 1 /\ <<s>>[1] = s
  BY DEF ListOfSlots
<1>2. /\ r \in Seq(Slot) /\ Len(r) = 1 + Len(c)
      /\ \A i \in 1 .. 1 + Len(c) : r[i] = IF i <= 1 THEN <<s>>[i] ELSE c[i - 1]
  BY <1>1, ConcatProperties
<1>. HIDE DEF r
<1>3. /\ r[1] = s /\ Len(r) = Len(c) + 1 /\ r # << >>
      /\ \A i \in 1 .. Len(c) : r[i + 1] = c[i]
      /\ \A i \in 2 .. Len(c) + 1 : i - 1 \in 1 .. Len(c) /\ r[i] = c[i - 1]
  BY <1>1, <1>2
<1>4. \A i \in 1 .. Len(c) : c[i] # s /\ c[i] \in Range(c)
  BY <1>1 DEF Range
<1>5. IsInjective(r)
  <2>1. ASSUME NEW i \in 1 .. Len(r), NEW j \in 1 .. Len(r), r[i] = r[j]
        PROVE  i = j
    <3>1. CASE i = 1
      BY <1>1, <1>3, <1>4, <2>1, <3>1
    <3>2. CASE j = 1
      BY <1>1, <1>3, <1>4, <2>1, <3>2
    <3>3. CASE i # 1 /\ j # 1
      <4>1. i \in 2 .. Len(c) + 1 /\ j \in 2 .. Len(c) + 1
        BY <1>1, <1>3, <3>3
      <4>2. i - 1 \in 1 .. Len(c) /\ j - 1 \in 1 .. Len(c) /\ c[i - 1] = c[j - 1]
        BY <1>3, <2>1, <4>1
      <4>3. i - 1 = j - 1
        BY <1>1, <4>2 DEF ListOfSlots, IsInjective
      <4>. QED
        BY <1>1, <4>1, <4>3
    <3>. QED
      BY <3>1, <3>2, <3>3
  <2>. QED
    BY <1>2, <2>1 DEF IsInjective
<1>6. Range(r) = Range(c) \cup {s}
  <2>1. ASSUME NEW i \in 1 .. Len(r) PROVE r[i] \in Range(c) \cup {s}
    <3>1. CASE i = 1
      BY <1>3, <3>1
    <3>2. CASE i # 1
      <4>1. i \in 2 .. Len(c) + 1
        BY <1>1, <1>3, <3>2
      <4>. QED
        BY <1>3, <1>4, <4>1
    <3>. QED
      BY <3>1, <3>2
  <2>2. ASSUME NEW i \in 1 .. Len(c) PROVE c[i] \in Range(r)
    <3>1. i + 1 \in 1 .. Len(r) /\ r[i + 1] = c[i]
      BY <1>1, <1>3
    <3>. QED
      BY <1>2, <3>1, Elements
  <2>3. s \in Range(r)
    <3>1. 1 \in 1 .. Len(r)
      BY <1>1, <1>3
    <3>. QED
      BY <1>2, <1>3, <3>1, Elements
  <2>4. Range(r) \subseteq Range(c) \cup {s}
    BY <1>2, <2>1, Elements
  <2>5. Range(c) \subseteq Range(r)
    BY <1>1, <2>2, Elements
  <2>. QED
    BY <2>3, <2>4, <2>5
<1>. QED
  BY <1>2, <1>3, <1>5, <1>6 DEF ListOfSlots, r

-----------------------------------------------------------------------------
(* Pointers. *)

LEMMA PathTail ==
  ASSUME NEW nx, NEW p, NEW c, ListOfSlots(c), Path(nx, c, p), p # NULL
  PROVE  Path(nx, Tail(c), nx[p])
<1>. DEFINE d == Tail(c)
<1>1. c # << >> /\ c[1] = p /\ Len(c) \in Nat \ {0}
  BY PathStart
<1>2. /\ d \in Seq(Slot) /\ Len(d) = Len(c) - 1
      /\ \A i \in 1 .. Len(c) - 1 : d[i] = c[i + 1]
  BY <1>1, TailList DEF ListOfSlots
<1>. HIDE DEF d
<1>3. \A i \in 1 .. Len(c) : nx[c[i]] = IF i = Len(c) THEN NULL ELSE c[i + 1]
  BY DEF Path
<1>4. nx[p] = IF d = << >> THEN NULL ELSE d[1]
  <2>1. nx[p] = IF Len(c) = 1 THEN NULL ELSE c[2]
    <3>1. 1 \in 1 .. Len(c) /\ 1 + 1 = 2
      BY <1>1
    <3>2. nx[c[1]] = IF 1 = Len(c) THEN NULL ELSE c[1 + 1]
      BY <1>3, <3>1
    <3>. QED
      BY <1>1, <3>1, <3>2
  <2>2. d = << >> <=> Len(c) = 1
    <3>1. d = << >> <=> Len(d) = 0
      BY <1>2, EmptySeq
    <3>. QED
      BY <1>1, <1>2, <3>1
  <2>3. Len(c) # 1 => d[1] = c[2]
    BY <1>1, <1>2
  <2>. QED
    BY <2>1, <2>2, <2>3
<1>5. ASSUME NEW i \in 1 .. Len(d)
      PROVE  nx[d[i]] = IF i = Len(d) THEN NULL ELSE d[i + 1]
  <2>. DEFINE j == i + 1
  <2>1. /\ j \in 1 .. Len(c) /\ d[i] = c[j] /\ (j = Len(c) <=> i = Len(d))
        /\ (i # Len(d) => j \in 1 .. Len(c) - 1)
    BY <1>1, <1>2
  <2>2. d[i + 1] = d[j]
    OBVIOUS
  <2>. HIDE DEF j
  <2>3. nx[c[j]] = IF j = Len(c) THEN NULL ELSE c[j + 1]
    BY <1>3, <2>1
  <2>4. i # Len(d) => d[j] = c[j + 1]
    BY <1>2, <2>1
  <2>. QED
    BY <2>1, <2>2, <2>3, <2>4
<1>. QED
  BY <1>4, <1>5 DEF Path, d

\* A list whose slots keep their pointers stays what it is.
LEMMA PathFrame ==
  ASSUME NEW nx, NEW ny, NEW p, NEW c, ListOfSlots(c), Path(nx, c, p),
         \A s \in Range(c) : ny[s] = nx[s]
  PROVE  Path(ny, c, p)
<1>1. \A i \in 1 .. Len(c) : c[i] \in Range(c)
  BY Elements DEF ListOfSlots
<1>. QED
  BY <1>1 DEF Path

LEMMA PathPush ==
  ASSUME NEW nx, NEW ny, NEW p, NEW c, ListOfSlots(c), Path(nx, c, p),
         NEW s \in Slot, s \notin Range(c),
         ny[s] = p, \A r \in Range(c) : ny[r] = nx[r]
  PROVE  Path(ny, <<s>> \o c, s)
<1>. DEFINE d == <<s>> \o c
<1>1. /\ d # << >> /\ d \in Seq(Slot) /\ Len(d) = Len(c) + 1 /\ d[1] = s
      /\ \A i \in 1 .. Len(c) : d[i + 1] = c[i]
  BY PushList DEF ListOfSlots
<1>. HIDE DEF d
<1>2. Path(ny, c, p)
  BY PathFrame
<1>3. c \in Seq(Slot) /\ Len(c) \in Nat
  BY Elements DEF ListOfSlots
<1>4. ASSUME NEW i \in 1 .. Len(d)
      PROVE  ny[d[i]] = IF i = Len(d) THEN NULL ELSE d[i + 1]
  <2>1. CASE i = 1
    <3>1. ny[d[1]] = IF c = << >> THEN NULL ELSE c[1]
      BY <1>1, <1>2 DEF Path
    <3>2. c = << >> <=> 1 = Len(d)
      BY <1>1, <1>3
    <3>3. c # << >> => d[1 + 1] = c[1]
      BY <1>1, <1>3
    <3>. QED
      BY <2>1, <3>1, <3>2, <3>3
  <2>2. CASE i # 1
    <3>. DEFINE j == i - 1
    <3>1. j \in 1 .. Len(c) /\ i = j + 1 /\ (i = Len(d) <=> j = Len(c))
          /\ (j # Len(c) => j + 1 \in 1 .. Len(c))
      BY <1>1, <1>3, <2>2
    <3>. HIDE DEF j
    <3>2. ny[c[j]] = IF j = Len(c) THEN NULL ELSE c[j + 1]
      BY <1>2, <3>1 DEF Path
    <3>3. d[i] = c[j] /\ (j # Len(c) => d[i + 1] = c[j + 1])
      BY <1>1, <3>1
    <3>. QED
      BY <3>1, <3>2, <3>3
  <2>. QED
    BY <2>1, <2>2
<1>. QED
  BY <1>1, <1>4 DEF Path, d

\* A slot linked behind the last one, or into an empty list.
LEMMA PathAppend ==
  ASSUME NEW nx, NEW ny, NEW p, NEW c, ListOfSlots(c), Path(nx, c, p),
         NEW s \in Slot, s \notin Range(c),
         ny[s] = NULL, c # << >> => ny[c[Len(c)]] = s,
         \A i \in 1 .. Len(c) : i # Len(c) => ny[c[i]] = nx[c[i]]
  PROVE  Path(ny, Append(c, s), IF p = NULL THEN s ELSE p)
<1>. DEFINE d == Append(c, s)
<1>1. c \in Seq(Slot) /\ Len(c) \in Nat
  BY Elements DEF ListOfSlots
<1>2. /\ d # << >> /\ d \in Seq(Slot) /\ Len(d) = Len(c) + 1 /\ d[Len(c) + 1] = s
      /\ \A i \in 1 .. Len(c) : d[i] = c[i]
  BY <1>1, AppendProperties
<1>. HIDE DEF d
<1>3. (IF p = NULL THEN s ELSE p) = d[1]
  <2>1. CASE c = << >>
    <3>1. p = NULL /\ Len(c) = 0
      BY <2>1, PathStart
    <3>. QED
      BY <1>2, <3>1
  <2>2. CASE c # << >>
    <3>1. p # NULL /\ p = c[1] /\ 1 \in 1 .. Len(c)
      BY <2>2, PathStart
    <3>. QED
      BY <1>2, <3>1
  <2>. QED
    BY <2>1, <2>2
<1>4. ASSUME NEW i \in 1 .. Len(d)
      PROVE  ny[d[i]] = IF i = Len(d) THEN NULL ELSE d[i + 1]
  <2>1. CASE i = Len(d)
    BY <1>2, <2>1
  <2>2. CASE i = Len(c)
    <3>1. c # << >> /\ i # Len(d) /\ i \in 1 .. Len(c)
      BY <1>1, <1>2, <2>2
    <3>. QED
      BY <1>2, <2>2, <3>1
  <2>3. CASE i # Len(d) /\ i # Len(c)
    <3>1. i \in 1 .. Len(c) /\ i + 1 \in 1 .. Len(c)
      BY <1>1, <1>2, <2>3
    <3>2. nx[c[i]] = c[i + 1]
      BY <2>3, <3>1 DEF Path
    <3>. QED
      BY <1>2, <2>3, <3>1, <3>2
  <2>. QED
    BY <2>1, <2>2, <2>3
<1>. QED
  BY <1>2, <1>3, <1>4 DEF Path, d

-----------------------------------------------------------------------------
(* What the sections do to the pool. *)

\* What a pointer into a whole pool tells.
LEMMA WholeStart ==
  ASSUME NEW nx, NEW h, NEW tl, NEW fr, NEW e, NEW H, NEW Q, NEW F,
         Whole(nx, h, tl, fr, e, H, Q, F)
  PROVE  /\ h = NULL <=> Q = << >>
         /\ fr = NULL <=> F = << >>
         /\ tl = NULL <=> Q = << >>
         /\ e \in Nat /\ (e = 0 <=> Q = << >>)
         /\ Q # << >> => h \in Slot /\ h = Q[1] /\ h \in Range(Q) /\ tl = Q[Len(Q)] /\ tl \in Range(Q)
         /\ F # << >> => fr \in Slot /\ fr = F[1] /\ fr \in Range(F)
<1>1. Q \in Seq(Slot) /\ e = Len(Q) /\ NULL \notin Slot
  BY SlotsFinite DEF Whole, ListOfSlots
<1>2. Q # << >> => Len(Q) \in 1 .. Len(Q) /\ Len(Q) # 0
  BY <1>1
<1>3. Q # << >> => Q[Len(Q)] \in Range(Q) /\ Q[Len(Q)] \in Slot
  BY <1>1, <1>2, Elements
<1>4. e \in Nat /\ (e = 0 <=> Q = << >>)
  BY <1>1, <1>2
<1>. QED
  BY <1>1, <1>3, <1>4, PathStart DEF Whole

\* The first section of a send takes the first free slot.
LEMMA TakeFree ==
  ASSUME NEW nx, NEW h, NEW tl, NEW fr, NEW e, NEW H, NEW Q, NEW F,
         Whole(nx, h, tl, fr, e, H, Q, F), fr # NULL
  PROVE  /\ Whole(nx, h, tl, nx[fr], e, H \cup {fr}, Q, Tail(F))
         /\ fr \in Slot /\ fr \notin H
<1>1. F # << >> /\ fr = F[1] /\ fr \in Slot /\ fr \in Range(F) /\ ListOfSlots(F) /\ Path(nx, F, fr)
  <2>1. F # << >>
    BY WholeStart
  <2>2. ListOfSlots(F) /\ Path(nx, F, fr)
    BY DEF Whole
  <2>. QED
    BY <2>1, <2>2, WholeStart
<1>2. ListOfSlots(Tail(F)) /\ Range(Tail(F)) = Range(F) \ {fr}
  BY <1>1, TailList
<1>3. Path(nx, Tail(F), nx[fr])
  BY <1>1, PathTail
<1>. QED
  BY <1>1, <1>2, <1>3 DEF Whole

\* The second section links slot s, which the sender holds.
LEMMA LinkedLast ==
  ASSUME NEW nx, NEW h, NEW tl, NEW fr, NEW e, NEW H, NEW Q, NEW F,
         Whole(nx, h, tl, fr, e, H, Q, F), NEW s \in H, NEW ny,
         ny = IF tl = NULL THEN [nx EXCEPT ![s] = NULL]
                           ELSE [nx EXCEPT ![s] = NULL, ![tl] = s]
  PROVE  Whole(ny, IF h = NULL THEN s ELSE h, s, fr, e + 1, H \ {s}, Append(Q, s), F)
<1>. DEFINE P == Append(Q, s)
<1>1. /\ nx \in [Slot -> Slot \cup {NULL}] /\ s \in Slot /\ H \in SUBSET Slot
      /\ ListOfSlots(Q) /\ Path(nx, Q, h) /\ ListOfSlots(F) /\ Path(nx, F, fr)
      /\ Range(Q) \cap Range(F) = {} /\ s \notin Range(Q) /\ s \notin Range(F)
      /\ Q \in Seq(Slot) /\ IsInjective(Q) /\ e = Len(Q) /\ Len(Q) \in Nat
  BY Elements DEF Whole, ListOfSlots
<1>2. /\ tl = NULL <=> Q = << >>
      /\ Q # << >> => tl = Q[Len(Q)] /\ tl \in Range(Q) /\ tl \in Slot
      /\ Range(Q) \subseteq Slot
  BY <1>1, WholeStart, ListRange
<1>3. /\ P \in Seq(Slot) /\ IsInjective(P) /\ Range(P) = Range(Q) \cup {s} /\ P # << >>
  BY <1>1, AppendList
<1>4. Len(P) = e + 1 /\ P[Len(P)] = s
  BY <1>1, AppendProperties
<1>5. /\ ny \in [Slot -> Slot \cup {NULL}]
      /\ ny[s] = NULL
      /\ Q # << >> => ny[tl] = s
      /\ \A r \in Slot : r # s /\ r # tl => ny[r] = nx[r]
  <2>1. CASE tl = NULL
    BY <1>1, <1>2, <2>1
  <2>2. CASE tl # NULL
    <3>1. tl \in Slot /\ tl # s
      BY <1>1, <1>2, <2>2
    <3>. QED
      BY <1>1, <2>2, <3>1
  <2>. QED
    BY <2>1, <2>2
<1>6. Path(ny, P, IF h = NULL THEN s ELSE h)
  <2>1. ASSUME NEW i \in 1 .. Len(Q), i # Len(Q) PROVE ny[Q[i]] = nx[Q[i]]
    <3>1. Q # << >> /\ Len(Q) \in 1 .. Len(Q)
      BY <1>1
    <3>2. Q[i] \in Slot /\ Q[i] \in Range(Q) /\ Q[i] # Q[Len(Q)]
      BY <1>1, <2>1, <3>1, Elements DEF IsInjective
    <3>. QED
      BY <1>1, <1>2, <1>5, <3>1, <3>2
  <2>2. ny[s] = NULL /\ (Q # << >> => ny[Q[Len(Q)]] = s)
    BY <1>2, <1>5
  <2>3. ListOfSlots(Q) /\ Path(nx, Q, h) /\ s \in Slot /\ s \notin Range(Q)
    BY <1>1
  <2>4. \A i \in 1 .. Len(Q) : i # Len(Q) => ny[Q[i]] = nx[Q[i]]
    BY <2>1
  <2>5. ny[s] = NULL
    BY <2>2
  <2>6. Q # << >> => ny[Q[Len(Q)]] = s
    BY <2>2
  <2>7. Path(ny, Append(Q, s), IF h = NULL THEN s ELSE h)
    BY ONLY <2>3, <2>4, <2>5, <2>6, PathAppend
  <2>. QED
    BY <2>7
<1>7. Path(ny, F, fr)
  <2>1. \A r \in Range(F) : r \in Slot /\ r # s /\ r # tl
    BY <1>1, <1>2, SlotsFinite, ListRange DEF ListOfSlots
  <2>2. \A r \in Range(F) : ny[r] = nx[r]
    BY <1>5, <2>1
  <2>3. ListOfSlots(F) /\ Path(nx, F, fr)
    BY <1>1
  <2>. QED
    BY <2>2, <2>3, PathFrame
<1>. HIDE DEF P
<1>8. ListOfSlots(P) /\ Range(P) \cap Range(F) = {}
      /\ (H \ {s}) \cap (Range(P) \cup Range(F)) = {}
      /\ Range(P) \cup Range(F) \cup (H \ {s}) = Slot
  BY <1>1, <1>3 DEF Whole, ListOfSlots
<1>9. Whole(ny, IF h = NULL THEN s ELSE h, s, fr, e + 1, H \ {s}, P, F)
  BY <1>1, <1>3, <1>4, <1>5, <1>6, <1>7, <1>8 DEF Whole
<1>. QED
  BY <1>9 DEF P

LEMMA LinkedFirst ==
  ASSUME NEW nx, NEW h, NEW tl, NEW fr, NEW e, NEW H, NEW Q, NEW F,
         Whole(nx, h, tl, fr, e, H, Q, F), NEW s \in H
  PROVE  Whole([nx EXCEPT ![s] = h], s, IF tl = NULL THEN s ELSE tl, fr, e + 1,
               H \ {s}, <<s>> \o Q, F)
<1>. DEFINE P == <<s>> \o Q
            ny == [nx EXCEPT ![s] = h]
            t2 == IF tl = NULL THEN s ELSE tl
<1>1. /\ nx \in [Slot -> Slot \cup {NULL}] /\ s \in Slot /\ H \in SUBSET Slot
      /\ ListOfSlots(Q) /\ Path(nx, Q, h) /\ ListOfSlots(F) /\ Path(nx, F, fr)
      /\ Range(Q) \cap Range(F) = {} /\ s \notin Range(Q) /\ s \notin Range(F)
      /\ Q \in Seq(Slot) /\ e = Len(Q) /\ Len(Q) \in Nat
      /\ Range(Q) \subseteq Slot /\ Range(F) \subseteq Slot
  BY Elements DEF Whole, ListOfSlots
<1>2. /\ h \in Slot \cup {NULL} /\ (tl = NULL <=> Q = << >>)
      /\ Q # << >> => tl = Q[Len(Q)]
  BY WholeStart
<1>3. /\ ListOfSlots(P) /\ Len(P) = Len(Q) + 1 /\ P # << >> /\ Range(P) = Range(Q) \cup {s}
      /\ P[1] = s /\ \A i \in 1 .. Len(Q) : P[i + 1] = Q[i]
  BY <1>1, PushList
<1>4. /\ ny \in [Slot -> Slot \cup {NULL}] /\ ny[s] = h
      /\ \A r \in Slot : r # s => ny[r] = nx[r]
  BY <1>1, <1>2
<1>. HIDE DEF P, ny
<1>5. Path(ny, P, s)
  BY <1>1, <1>4, PathPush DEF P
<1>6. Path(ny, F, fr)
  BY <1>1, <1>4, PathFrame
<1>7. t2 = P[Len(P)]
  <2>1. CASE Q = << >>
    BY <1>2, <1>3, <2>1
  <2>2. CASE Q # << >>
    <3>1. Len(Q) \in 1 .. Len(Q)
      BY <1>1, <2>2
    <3>. QED
      BY <1>2, <1>3, <2>2, <3>1
  <2>. QED
    BY <2>1, <2>2
<1>8. Range(P) \cap Range(F) = {}
      /\ (H \ {s}) \cap (Range(P) \cup Range(F)) = {}
      /\ Range(P) \cup Range(F) \cup (H \ {s}) = Slot
  BY <1>1, <1>3 DEF Whole
<1>. HIDE DEF t2
<1>9. Whole(ny, s, t2, fr, e + 1, H \ {s}, P, F)
  BY <1>1, <1>3, <1>4, <1>5, <1>6, <1>7, <1>8 DEF Whole
<1>. QED
  BY <1>9 DEF P, ny, t2

\* A receive takes the slot at the head of the queue.
LEMMA TakeQueued ==
  ASSUME NEW nx, NEW h, NEW tl, NEW fr, NEW e, NEW H, NEW Q, NEW F,
         Whole(nx, h, tl, fr, e, H, Q, F), Q # << >>
  PROVE  /\ Whole(nx, nx[h], IF tl = h THEN NULL ELSE tl, fr, e - 1, H \cup {h}, Tail(Q), F)
         /\ h \in Slot /\ h \notin H
<1>. DEFINE P == Tail(Q)
            t2 == IF tl = h THEN NULL ELSE tl
<1>1. /\ ListOfSlots(Q) /\ Path(nx, Q, h) /\ h = Q[1] /\ h \in Slot /\ h \in Range(Q) /\ h # NULL
      /\ e = Len(Q) /\ tl = Q[Len(Q)]
  <2>1. h = Q[1] /\ h \in Slot /\ h \in Range(Q) /\ tl = Q[Len(Q)]
    BY WholeStart
  <2>2. ListOfSlots(Q) /\ Path(nx, Q, h) /\ e = Len(Q)
    BY DEF Whole
  <2>. QED
    BY <2>1, <2>2, SlotsFinite
<1>2. /\ ListOfSlots(P) /\ Len(P) = Len(Q) - 1 /\ Len(Q) \in Nat \ {0}
      /\ \A i \in 1 .. Len(Q) - 1 : P[i] = Q[i + 1]
      /\ Range(P) = Range(Q) \ {h}
  BY <1>1, TailList
<1>3. Path(nx, P, nx[h])
  BY <1>1, PathTail
<1>. HIDE DEF P
<1>4. t2 = IF P = << >> THEN NULL ELSE P[Len(P)]
  <2>1. P = << >> <=> Len(Q) = 1
    <3>1. P = << >> <=> Len(P) = 0
      BY <1>2, EmptySeq DEF ListOfSlots
    <3>. QED
      BY <1>2, <3>1
  <2>2. tl = h <=> Len(Q) = 1
    <3>1. 1 \in 1 .. Len(Q) /\ Len(Q) \in 1 .. Len(Q)
      BY <1>2
    <3>2. Q[1] = Q[Len(Q)] => 1 = Len(Q)
      BY <1>1, <3>1 DEF ListOfSlots, IsInjective
    <3>. QED
      BY <1>1, <3>2
  <2>3. Len(Q) # 1 => P[Len(P)] = Q[Len(Q)]
    <3>1. SUFFICES ASSUME Len(Q) # 1 PROVE P[Len(P)] = Q[Len(Q)]
      OBVIOUS
    <3>2. Len(P) \in 1 .. Len(Q) - 1 /\ Len(P) + 1 = Len(Q)
      BY <1>2, <3>1
    <3>. QED
      BY <1>2, <3>2
  <2>. QED
    BY <1>1, <2>1, <2>2, <2>3
<1>. HIDE DEF t2
<1>5. Whole(nx, nx[h], t2, fr, e - 1, H \cup {h}, P, F)
  <2>1. Range(P) \cap Range(F) = {} /\ (H \cup {h}) \cap (Range(P) \cup Range(F)) = {}
        /\ Range(P) \cup Range(F) \cup (H \cup {h}) = Slot
    BY <1>1, <1>2 DEF Whole
  <2>2. e - 1 = Len(P)
    BY <1>1, <1>2
  <2>. QED
    BY <1>1, <1>2, <1>3, <1>4, <2>1, <2>2 DEF Whole
<1>. QED
  BY <1>1, <1>5 DEF P, t2, Whole

\* The end of a receive puts the slot it held on the free list.
LEMMA PutFree ==
  ASSUME NEW nx, NEW h, NEW tl, NEW fr, NEW e, NEW H, NEW Q, NEW F,
         Whole(nx, h, tl, fr, e, H, Q, F), NEW s \in H
  PROVE  Whole([nx EXCEPT ![s] = fr], h, tl, s, e, H \ {s}, Q, <<s>> \o F)
<1>. DEFINE G == <<s>> \o F
            ny == [nx EXCEPT ![s] = fr]
<1>1. /\ nx \in [Slot -> Slot \cup {NULL}] /\ s \in Slot /\ H \in SUBSET Slot
      /\ ListOfSlots(Q) /\ Path(nx, Q, h) /\ ListOfSlots(F) /\ Path(nx, F, fr)
      /\ s \notin Range(Q) /\ s \notin Range(F)
      /\ Range(Q) \subseteq Slot /\ Range(F) \subseteq Slot
  BY Elements DEF Whole, ListOfSlots
<1>2. fr \in Slot \cup {NULL}
  BY WholeStart
<1>3. ListOfSlots(G) /\ Range(G) = Range(F) \cup {s}
  BY <1>1, PushList
<1>4. /\ ny \in [Slot -> Slot \cup {NULL}] /\ ny[s] = fr
      /\ \A r \in Slot : r # s => ny[r] = nx[r]
  BY <1>1, <1>2
<1>. HIDE DEF G, ny
<1>5. Path(ny, G, s)
  BY <1>1, <1>4, PathPush DEF G
<1>6. Path(ny, Q, h)
  BY <1>1, <1>4, PathFrame
<1>7. Whole(ny, h, tl, s, e, H \ {s}, Q, G)
  <2>1. Range(Q) \cap Range(G) = {} /\ (H \ {s}) \cap (Range(Q) \cup Range(G)) = {}
        /\ Range(Q) \cup Range(G) \cup (H \ {s}) = Slot
    BY <1>1, <1>3 DEF Whole
  <2>. QED
    BY <1>1, <1>3, <1>4, <1>5, <1>6, <2>1 DEF Whole
<1>. QED
  BY <1>7 DEF G, ny

\* The free list after the slots of Q have been put on it one by one.
Drained(Q, F) ==
    [i \in 1 .. Len(Q) + Len(F) |-> IF i <= Len(Q) THEN Q[Len(Q) + 1 - i] ELSE F[i - Len(Q)]]

LEMMA DrainedList ==
  ASSUME NEW Q, NEW F, ListOfSlots(Q), ListOfSlots(F), Range(Q) \cap Range(F) = {}
  PROVE  /\ ListOfSlots(Drained(Q, F)) /\ Len(Drained(Q, F)) = Len(Q) + Len(F)
         /\ Range(Drained(Q, F)) = Range(Q) \cup Range(F)
         /\ \A i \in 1 .. Len(Q) : Drained(Q, F)[Len(Q) + 1 - i] = Q[i]
         /\ \A i \in 1 .. Len(F) : Drained(Q, F)[Len(Q) + i] = F[i]
<1>. DEFINE G == Drained(Q, F)
            n == Len(Q)
            l == Len(F)
<1>1. /\ n \in Nat /\ l \in Nat /\ Q \in Seq(Slot) /\ F \in Seq(Slot)
      /\ \A i \in 1 .. n : Q[i] \in Range(Q) /\ Q[i] \in Slot
      /\ \A i \in 1 .. l : F[i] \in Range(F) /\ F[i] \in Slot
  BY Elements DEF ListOfSlots
<1>2. G = [i \in 1 .. n + l |-> IF i <= n THEN Q[n + 1 - i] ELSE F[i - n]]
  BY DEF Drained
<1>3. /\ \A i, j \in 1 .. n : Q[i] = Q[j] => i = j
      /\ \A i, j \in 1 .. l : F[i] = F[j] => i = j
  BY <1>1 DEF ListOfSlots, IsInjective
<1>. HIDE DEF G, n, l
<1>4. /\ \A i \in 1 .. n + l : i <= n => n + 1 - i \in 1 .. n /\ G[i] = Q[n + 1 - i]
      /\ \A i \in 1 .. n + l : ~ i <= n => i - n \in 1 .. l /\ G[i] = F[i - n]
  BY <1>1, <1>2
<1>5. G \in [1 .. n + l -> Slot] /\ n + l \in Nat
  <2>1. ASSUME NEW i \in 1 .. n + l PROVE G[i] \in Slot
    <3>1. CASE i <= n
      BY <1>1, <1>4, <3>1
    <3>2. CASE ~ i <= n
      BY <1>1, <1>4, <3>2
    <3>. QED
      BY <3>1, <3>2
  <2>2. G = [i \in 1 .. n + l |-> G[i]]
    BY <1>2
  <2>3. n + l \in Nat
    BY <1>1
  <2>. QED
    BY <2>1, <2>2, <2>3
<1>6. G \in Seq(Slot) /\ Len(G) = n + l
  BY <1>5
<1>7. /\ \A i \in 1 .. n : n + 1 - i \in 1 .. n + l /\ G[n + 1 - i] = Q[i]
      /\ \A i \in 1 .. l : n + i \in 1 .. n + l /\ G[n + i] = F[i]
  <2>1. ASSUME NEW i \in 1 .. n PROVE n + 1 - i \in 1 .. n + l /\ G[n + 1 - i] = Q[i]
    <3>1. n + 1 - i \in 1 .. n + l /\ n + 1 - i <= n /\ n + 1 - (n + 1 - i) = i
      BY <1>1
    <3>. QED
      BY <1>4, <3>1
  <2>2. ASSUME NEW i \in 1 .. l PROVE n + i \in 1 .. n + l /\ G[n + i] = F[i]
    <3>. DEFINE j == n + i
    <3>1. j \in 1 .. n + l /\ ~ (j <= n) /\ j - n = i
      BY <1>1
    <3>. HIDE DEF j
    <3>2. G[j] = F[i]
      BY <1>4, <3>1
    <3>. QED
      BY <3>1, <3>2 DEF j
  <2>. QED
    BY <2>1, <2>2
<1>8. IsInjective(G)
  <2>1. ASSUME NEW i \in 1 .. n + l, NEW j \in 1 .. n + l, G[i] = G[j]
        PROVE  i = j
    <3>1. CASE i <= n /\ j <= n
      <4>1. n + 1 - i = n + 1 - j
        BY <1>3, <1>4, <2>1, <3>1
      <4>. QED
        BY <1>1, <4>1
    <3>2. CASE ~ i <= n /\ ~ j <= n
      <4>1. i - n = j - n
        BY <1>3, <1>4, <2>1, <3>2
      <4>. QED
        BY <1>1, <4>1
    <3>3. CASE i <= n /\ ~ j <= n
      <4>1. G[i] \in Range(Q) /\ G[j] \in Range(F)
        BY <1>1, <1>4, <3>3
      <4>. QED
        BY <2>1, <4>1
    <3>4. CASE ~ i <= n /\ j <= n
      <4>1. G[i] \in Range(F) /\ G[j] \in Range(Q)
        BY <1>1, <1>4, <3>4
      <4>. QED
        BY <2>1, <4>1
    <3>. QED
      BY <3>1, <3>2, <3>3, <3>4
  <2>. QED
    BY <1>5, <2>1 DEF IsInjective
<1>9. Range(G) = Range(Q) \cup Range(F)
  <2>1. Range(G) \subseteq Range(Q) \cup Range(F)
    <3>1. \A i \in 1 .. Len(G) : G[i] \in Range(Q) \cup Range(F)
      BY <1>1, <1>4, <1>6
    <3>. QED
      BY <1>6, <3>1, Elements
  <2>2. Range(Q) \subseteq Range(G)
    <3>1. \A i \in 1 .. Len(Q) : Q[i] \in Range(G)
      BY <1>6, <1>7, Elements DEF n
    <3>. QED
      BY <1>1, <3>1, Elements
  <2>3. Range(F) \subseteq Range(G)
    <3>1. \A i \in 1 .. Len(F) : F[i] \in Range(G)
      BY <1>6, <1>7, Elements DEF l
    <3>. QED
      BY <1>1, <3>1, Elements
  <2>. QED
    BY <2>1, <2>2, <2>3
<1>. QED
  BY <1>6, <1>7, <1>8, <1>9 DEF G, n, l, ListOfSlots

\* How a reset, and rt_mq_init, link them.
LEMMA DrainedPath ==
  ASSUME NEW nx \in [Slot -> Slot \cup {NULL}], NEW ny, NEW fr, NEW Q, NEW F,
         ListOfSlots(Q), ListOfSlots(F), Range(Q) \cap Range(F) = {}, Path(nx, F, fr),
         ny = [s \in Slot |-> IF s \notin Range(Q) THEN nx[s]
                              ELSE IF s = Q[1] THEN fr
                              ELSE Q[CHOOSE i \in 1 .. Len(Q) - 1 : Q[i + 1] = s]]
  PROVE  /\ ny \in [Slot -> Slot \cup {NULL}]
         /\ Path(ny, Drained(Q, F), IF Q = << >> THEN fr ELSE Q[Len(Q)])
<1>. DEFINE G == Drained(Q, F)
            n == Len(Q)
            l == Len(F)
            Before(s) == CHOOSE i \in 1 .. n - 1 : Q[i + 1] = s
<1>1. /\ n \in Nat /\ l \in Nat /\ Q \in Seq(Slot) /\ F \in Seq(Slot)
      /\ \A i \in 1 .. n : Q[i] \in Range(Q) /\ Q[i] \in Slot
      /\ \A i \in 1 .. l : F[i] \in Range(F) /\ F[i] \in Slot
      /\ Range(Q) \subseteq Slot /\ Range(F) \subseteq Slot
  BY Elements DEF ListOfSlots
<1>2. \A i, j \in 1 .. n : Q[i] = Q[j] => i = j
  BY <1>1 DEF ListOfSlots, IsInjective
<1>3. /\ Q = << >> <=> n = 0
      /\ F = << >> <=> l = 0
  BY <1>1, EmptySeq
<1>4. fr = IF l = 0 THEN NULL ELSE F[1]
  BY <1>3 DEF Path
<1>5. fr \in Slot \cup {NULL}
  BY <1>1, <1>4
<1>6. ny = [s \in Slot |-> IF s \notin Range(Q) THEN nx[s]
                           ELSE IF s = Q[1] THEN fr ELSE Q[Before(s)]]
  OBVIOUS
<1>. HIDE DEF n, l, Before
<1>7. ASSUME NEW i \in 1 .. n, i # 1
      PROVE  i - 1 \in 1 .. n - 1 /\ Before(Q[i]) = i - 1
  <2>. DEFINE j == i - 1
              b == CHOOSE x \in 1 .. n - 1 : Q[x + 1] = Q[i]
  <2>1. j \in 1 .. n - 1 /\ j + 1 = i
    BY <1>1, <1>7
  <2>. HIDE DEF j
  <2>2. b \in 1 .. n - 1 /\ Q[b + 1] = Q[i]
    <3>1. \E x \in 1 .. n - 1 : Q[x + 1] = Q[i]
      BY <2>1
    <3>. QED
      BY <3>1
  <2>. HIDE DEF b
  <2>3. b + 1 \in 1 .. n
    BY <1>1, <2>2
  <2>4. b + 1 = i
    BY <1>2, <2>2, <2>3
  <2>5. b = i - 1
    BY <2>2, <2>4
  <2>. QED
    BY <2>1, <2>5 DEF j, b, Before
<1>8. /\ \A i \in 1 .. n : i # 1 => ny[Q[i]] = Q[i - 1]
      /\ n # 0 => ny[Q[1]] = fr
      /\ \A s \in Slot : s \notin Range(Q) => ny[s] = nx[s]
  <2>1. ASSUME NEW i \in 1 .. n, i # 1 PROVE ny[Q[i]] = Q[i - 1]
    <3>1. 1 \in 1 .. n
      BY <1>1
    <3>2. Q[i] \in Slot /\ Q[i] \in Range(Q) /\ Q[i] # Q[1]
      BY <1>1, <1>2, <2>1, <3>1
    <3>. QED
      BY <1>6, <1>7, <2>1, <3>2
  <2>2. ASSUME n # 0 PROVE ny[Q[1]] = fr
    <3>1. 1 \in 1 .. n
      BY <1>1, <2>2
    <3>. QED
      BY <1>1, <1>6, <3>1
  <2>3. \A s \in Slot : s \notin Range(Q) => ny[s] = nx[s]
    BY <1>6
  <2>. QED
    BY <2>1, <2>2, <2>3
<1>9. ny \in [Slot -> Slot \cup {NULL}]
  <2>1. ASSUME NEW s \in Slot PROVE ny[s] \in Slot \cup {NULL}
    <3>1. CASE s \notin Range(Q)
      BY <1>8, <3>1
    <3>2. CASE s \in Range(Q)
      <4>1. PICK i \in 1 .. n : s = Q[i]
        BY <1>1, <3>2 DEF Range, n
      <4>2. CASE i = 1
        BY <1>1, <1>5, <1>8, <4>1, <4>2
      <4>3. CASE i # 1
        <5>1. i - 1 \in 1 .. n
          BY <1>1, <4>3
        <5>. QED
          BY <1>1, <1>8, <4>1, <4>3, <5>1
      <4>. QED
        BY <4>2, <4>3
    <3>. QED
      BY <3>1, <3>2
  <2>2. DOMAIN ny = Slot /\ ny = [s \in Slot |-> ny[s]]
    BY <1>6
  <2>. QED
    BY <2>1, <2>2
<1>10. /\ Len(G) = n + l
       /\ G = << >> <=> n + l = 0
       /\ \A i \in 1 .. n : G[n + 1 - i] = Q[i]
       /\ \A i \in 1 .. l : G[n + i] = F[i]
  BY DrainedList, EmptySeq DEF n, l, ListOfSlots
<1>. HIDE DEF G
<1>11. (IF Q = << >> THEN fr ELSE Q[Len(Q)]) = IF G = << >> THEN NULL ELSE G[1]
  <2>1. CASE n = 0
    <3>1. CASE l = 0
      BY <1>3, <1>4, <1>10, <2>1, <3>1
    <3>2. CASE l # 0
      <4>1. 1 \in 1 .. l /\ n + 1 = 1 /\ n + l # 0
        BY <1>1, <2>1, <3>2
      <4>2. G[1] = F[1]
        BY <1>10, <4>1
      <4>. QED
        BY <1>3, <1>4, <1>10, <2>1, <3>2, <4>1, <4>2
    <3>. QED
      BY <3>1, <3>2
  <2>2. CASE n # 0
    <3>1. n \in 1 .. n /\ n + 1 - n = 1 /\ n + l # 0
      BY <1>1, <2>2
    <3>2. G[1] = Q[n]
      BY <1>10, <3>1
    <3>. QED
      BY <1>3, <1>10, <2>2, <3>1, <3>2 DEF n
  <2>. QED
    BY <2>1, <2>2
<1>12. ASSUME NEW i \in 1 .. Len(G)
       PROVE  ny[G[i]] = IF i = Len(G) THEN NULL ELSE G[i + 1]
  <2>1. CASE i < n
    <3>. DEFINE j == n + 1 - i
    <3>1. j \in 1 .. n /\ j # 1 /\ n + 1 - j = i /\ j - 1 \in 1 .. n /\ n + 1 - (j - 1) = i + 1
      BY <1>1, <1>10, <2>1
    <3>2. i # Len(G)
      BY <1>1, <1>10, <2>1
    <3>. HIDE DEF j
    <3>3. G[i] = Q[j] /\ G[i + 1] = Q[j - 1]
      <4>1. G[n + 1 - j] = Q[j] /\ G[n + 1 - (j - 1)] = Q[j - 1]
        BY <1>10, <3>1
      <4>. QED
        BY <3>1, <4>1
    <3>. QED
      BY <1>8, <3>1, <3>2, <3>3
  <2>2. CASE i = n
    <3>1. 1 \in 1 .. n /\ n + 1 - 1 = i /\ n # 0
      BY <1>1, <1>10, <2>2
    <3>2. ny[G[i]] = fr
      <4>1. G[n + 1 - 1] = Q[1]
        BY <1>10, <3>1
      <4>. QED
        BY <1>8, <3>1, <4>1
    <3>3. CASE l = 0
      BY <1>1, <1>4, <1>10, <2>2, <3>2, <3>3
    <3>4. CASE l # 0
      <4>1. 1 \in 1 .. l /\ i # Len(G)
        BY <1>1, <1>10, <2>2, <3>4
      <4>2. G[n + 1] = F[1]
        BY <1>10, <4>1
      <4>. QED
        BY <1>4, <2>2, <3>2, <3>4, <4>1, <4>2
    <3>. QED
      BY <3>3, <3>4
  <2>3. CASE i > n
    <3>. DEFINE j == i - n
    <3>1. j \in 1 .. l /\ n + j = i /\ (i = Len(G) <=> j = l) /\ n + (j + 1) = i + 1
          /\ (j # l => j + 1 \in 1 .. l)
      BY <1>1, <1>10, <2>3
    <3>. HIDE DEF j
    <3>2. G[i] = F[j]
      BY <1>10, <3>1
    <3>3. j # l => G[i + 1] = F[j + 1]
      <4>1. j # l => G[n + (j + 1)] = F[j + 1]
        BY <1>10, <3>1
      <4>. QED
        BY <3>1, <4>1
    <3>4. F[j] \in Slot /\ F[j] \notin Range(Q)
      BY <1>1, <3>1
    <3>5. nx[F[j]] = IF j = l THEN NULL ELSE F[j + 1]
      BY <3>1 DEF Path, l
    <3>. QED
      BY <1>8, <3>1, <3>2, <3>3, <3>4, <3>5
  <2>. QED
    BY <1>1, <1>10, <2>1, <2>2, <2>3
<1>. QED
  BY <1>9, <1>11, <1>12 DEF Path, G

-----------------------------------------------------------------------------
(* The variables of the queue. *)

\* The slots threads hold between the two sections of their calls.
Held(sl) == {sl[t] : t \in Thread} \ {NULL}

\* Chain for any function next.
ChainOf(nx, p) ==
    IF \E c \in Lists : Path(nx, c, p) THEN CHOOSE c \in Lists : Path(nx, c, p) ELSE << >>

Copying(t) == pc[t] = "copying"

TimeType == left \in [Thread -> Int] /\ since \in [Thread -> Int]

QueueType ==
    /\ slot \in [Thread -> Slot \cup {NULL}]
    /\ op \in [Thread -> {"none", "send", "urgent", "recv"}]
    /\ TimeType
    /\ body \in [Slot -> Msg]

\* A thread holds a slot, of its own, exactly while it is copying; the idle
\* thread, which must not be suspended, makes no call.
HoldersCopy ==
    /\ \A t \in Thread : /\ Copying(t) <=> slot[t] # NULL
                         /\ Copying(t) <=> op[t] # "none"
    /\ \A t, u \in Thread : slot[t] # NULL /\ slot[t] = slot[u] => t = u
    /\ pc[Idle] = "run"

PoolWhole == Whole(next, head, tail, free, entry, Held(slot), Chain(head), Chain(free))

IInv ==
    /\ ThreadInv
    /\ QueueType
    /\ HoldersCopy
    /\ PoolWhole
    /\ NoStrandedMessage

-----------------------------------------------------------------------------
\* A list of slots has as many of them as it is long.
LEMMA ListCount ==
  ASSUME NEW c, ListOfSlots(c)
  PROVE  IsFiniteSet(Range(c)) /\ Cardinality(Range(c)) = Len(c)
<1>1. c \in Seq(Slot) /\ Len(c) \in Nat /\ c \in [1 .. Len(c) -> Range(c)]
  BY Elements DEF ListOfSlots, Range
<1>2. c \in Bijection(1 .. Len(c), Range(c))
  <2>1. c \in Injection(1 .. Len(c), Range(c))
    BY <1>1 DEF Injection, IsInjective, ListOfSlots
  <2>2. c \in Surjection(1 .. Len(c), Range(c))
    BY <1>1 DEF Surjection, Range
  <2>. QED
    BY <2>1, <2>2 DEF Bijection
<1>3. IsFiniteSet(1 .. Len(c)) /\ Cardinality(1 .. Len(c)) = Len(c)
  <2>. DEFINE n == Len(c)
  <2>1. n \in Nat /\ n \in Int /\ 1 \in Int
    BY <1>1
  <2>. HIDE DEF n
  <2>2. IsFiniteSet(1 .. n) /\ Cardinality(1 .. n) = IF 1 > n THEN 0 ELSE n - 1 + 1
    BY <2>1, FS_Interval, Zenon
  <2>3. IsFiniteSet(1 .. n) /\ Cardinality(1 .. n) = n
    BY <2>1, <2>2
  <2>. QED
    BY <2>3 DEF n
<1>4. ExistsBijection(1 .. Len(c), Range(c))
  BY <1>2 DEF ExistsBijection
<1>. QED
  BY <1>3, <1>4, FS_Bijection

\* The lists Chain finds are those the pointers make up.
LEMMA ChainFound ==
  ASSUME NEW nx, NEW p, NEW c, ListOfSlots(c), Path(nx, c, p)
  PROVE  ChainOf(nx, p) = c
<1>1. c \in Lists
  <2>1. Len(c) \in Nat /\ c \in [1 .. Len(c) -> Slot] /\ Cardinality(Slot) \in Nat
    BY SlotsFinite, Elements DEF ListOfSlots
  <2>2. Len(c) <= Cardinality(Slot)
    <3>1. Range(c) \subseteq Slot
      BY ListRange DEF ListOfSlots
    <3>. QED
      BY <3>1, ListCount, SlotsFinite, FS_Subset
  <2>3. Len(c) \in 0 .. Cardinality(Slot)
    BY <2>1, <2>2
  <2>. QED
    BY <2>1, <2>3 DEF Lists, SeqOf, ListOfSlots
<1>2. \A d \in Lists : d \in Seq(Slot)
  BY SlotsFinite DEF Lists, SeqOf
<1>3. \A d \in Lists : Path(nx, d, p) => d = c
  BY <1>2, PathUnique DEF ListOfSlots
<1>. QED
  BY <1>1, <1>3 DEF ChainOf

\* So the pool is whole when any two lists show it.
LEMMA ShowWhole ==
  ASSUME NEW Q, NEW F
  PROVE  /\ Whole(next, head, tail, free, entry, Held(slot), Q, F)
               => PoolWhole /\ Chain(head) = Q /\ Chain(free) = F
         /\ Whole(next', head', tail', free', entry', Held(slot'), Q, F)
               => PoolWhole' /\ Chain(head)' = Q /\ Chain(free)' = F
<1>1. ASSUME NEW nx, NEW h, NEW tl, NEW fr, NEW e, NEW H, Whole(nx, h, tl, fr, e, H, Q, F)
      PROVE  ChainOf(nx, h) = Q /\ ChainOf(nx, fr) = F
  BY <1>1, ChainFound DEF Whole
<1>2. Chain(head) = ChainOf(next, head) /\ Chain(free) = ChainOf(next, free)
  BY DEF Chain, ChainOf, Linked, Path
<1>3. Chain(head)' = ChainOf(next', head') /\ Chain(free)' = ChainOf(next', free')
  BY DEF Chain, ChainOf, Linked, Path
<1>4. ASSUME Whole(next, head, tail, free, entry, Held(slot), Q, F)
      PROVE  PoolWhole /\ Chain(head) = Q /\ Chain(free) = F
  BY <1>1, <1>2, <1>4 DEF PoolWhole
<1>5. ASSUME Whole(next', head', tail', free', entry', Held(slot'), Q, F)
      PROVE  PoolWhole' /\ Chain(head)' = Q /\ Chain(free)' = F
  <2>1. Chain(head)' = Q /\ Chain(free)' = F
    BY <1>1, <1>3, <1>5
  <2>. QED
    BY <1>5, <2>1 DEF PoolWhole
<1>. QED
  BY <1>4, <1>5

\* Only thread t gets or gives back a slot.
SlotChanges(sl, sm, t) == \A u \in Thread : u # t => sm[u] = sl[u]

LEMMA HeldMore ==
  ASSUME NEW sl, NEW sm, NEW t \in Thread, NEW s \in Slot, SlotChanges(sl, sm, t),
         sl[t] = NULL, sm[t] = s
  PROVE  Held(sm) = Held(sl) \cup {s}
<1>1. sm[t] = s /\ \A u \in Thread : u # t => sm[u] = sl[u]
  BY DEF SlotChanges
<1>2. s # NULL
  BY SlotsFinite
<1>3. Held(sm) = Held(sl) \cup {s}
  <2>1. ASSUME NEW u \in Thread, sm[u] # NULL PROVE sm[u] \in Held(sl) \cup {s}
    BY <1>1, <2>1 DEF Held
  <2>2. ASSUME NEW u \in Thread, sl[u] # NULL PROVE sl[u] \in Held(sm)
    BY <1>1, <2>2 DEF Held
  <2>3. s \in Held(sm)
    BY <1>1, <1>2 DEF Held
  <2>. QED
    BY <2>1, <2>2, <2>3 DEF Held
<1>. QED
  BY <1>3

LEMMA HeldLess ==
  ASSUME NEW sl \in [Thread -> Slot \cup {NULL}], NEW t \in Thread, sl[t] # NULL,
         \A u, v \in Thread : sl[u] # NULL /\ sl[u] = sl[v] => u = v
  PROVE  /\ Held([sl EXCEPT ![t] = NULL]) = Held(sl) \ {sl[t]}
         /\ sl[t] \in Held(sl) /\ sl[t] \in Slot
<1>. DEFINE sm == [sl EXCEPT ![t] = NULL]
<1>1. sm[t] = NULL /\ \A u \in Thread : u # t => sm[u] = sl[u]
  OBVIOUS
<1>. HIDE DEF sm
<1>2. Held(sm) = Held(sl) \ {sl[t]}
  <2>1. ASSUME NEW u \in Thread, sm[u] # NULL PROVE sm[u] \in Held(sl) \ {sl[t]}
    BY <1>1, <2>1 DEF Held
  <2>2. ASSUME NEW u \in Thread, sl[u] # NULL, sl[u] # sl[t] PROVE sl[u] \in Held(sm)
    BY <1>1, <2>2 DEF Held
  <2>. QED
    BY <2>1, <2>2 DEF Held
<1>. QED
  BY <1>2 DEF sm, Held

\* What a run checks of the pool follows: every slot is in one place.
LEMMA Accounted ==
  ASSUME QueueType, HoldersCopy, PoolWhole
  PROVE  SlotsAccounted
<1>. DEFINE Q == Chain(head)
            F == Chain(free)
            H == Held(slot)
            T == {t \in Thread : slot[t] # NULL}
<1>1. /\ ListOfSlots(Q) /\ ListOfSlots(F) /\ H \in SUBSET Slot
      /\ Range(Q) \cap Range(F) = {} /\ H \cap (Range(Q) \cup Range(F)) = {}
      /\ Range(Q) \cup Range(F) \cup H = Slot
      /\ entry = Len(Q) /\ tail = IF Q = << >> THEN NULL ELSE Q[Len(Q)]
  BY DEF PoolWhole, Whole
<1>2. /\ Q \in Seq(Slot) /\ F \in Seq(Slot) /\ Len(Q) \in Nat /\ Len(F) \in Nat
      /\ \A i, j \in 1 .. Len(Q) : Q[i] = Q[j] => i = j
      /\ \A i, j \in 1 .. Len(F) : F[i] = F[j] => i = j
      /\ \A i \in 1 .. Len(Q) : Q[i] \in Range(Q)
      /\ \A i \in 1 .. Len(F) : F[i] \in Range(F)
  <2>1. ASSUME NEW c, ListOfSlots(c)
        PROVE  /\ c \in Seq(Slot) /\ Len(c) \in Nat
               /\ \A i, j \in 1 .. Len(c) : c[i] = c[j] => i = j
               /\ \A i \in 1 .. Len(c) : c[i] \in Range(c)
    <3>1. c \in Seq(Slot)
      BY <2>1 DEF ListOfSlots
    <3>2. Len(c) \in Nat /\ \A i \in 1 .. Len(c) : c[i] \in Range(c)
      BY <3>1, Elements
    <3>3. \A i, j \in 1 .. Len(c) : c[i] = c[j] => i = j
      BY <2>1, <3>1 DEF ListOfSlots, IsInjective
    <3>. QED
      BY <3>1, <3>2, <3>3
  <2>. HIDE DEF Q, F
  <2>. QED
    BY <1>1, <2>1
<1>3. slot \in [Thread -> Slot \cup {NULL}] /\ NULL \notin Slot
  BY SlotsFinite DEF QueueType
<1>. HIDE DEF Q, F
<1>4. IsInjective(Q \o F) /\ Range(Q \o F) = Range(Q) \cup Range(F)
  <2>. DEFINE c == Q \o F
  <2>1. /\ c \in Seq(Slot) /\ Len(c) = Len(Q) + Len(F)
        /\ \A i \in 1 .. Len(Q) + Len(F) : c[i] = IF i <= Len(Q) THEN Q[i] ELSE F[i - Len(Q)]
    BY <1>2, ConcatProperties
  <2>. HIDE DEF c
  <2>2. /\ \A i \in 1 .. Len(c) : i <= Len(Q) => i \in 1 .. Len(Q) /\ c[i] = Q[i]
        /\ \A i \in 1 .. Len(c) : ~ i <= Len(Q) => i - Len(Q) \in 1 .. Len(F) /\ c[i] = F[i - Len(Q)]
    <3>1. ASSUME NEW i \in 1 .. Len(c), i <= Len(Q) PROVE i \in 1 .. Len(Q) /\ c[i] = Q[i]
      BY <1>2, <2>1, <3>1
    <3>2. ASSUME NEW i \in 1 .. Len(c), ~ i <= Len(Q)
          PROVE  i - Len(Q) \in 1 .. Len(F) /\ c[i] = F[i - Len(Q)]
      <4>1. i \in 1 .. Len(Q) + Len(F)
        BY <2>1
      <4>2. c[i] = F[i - Len(Q)]
        BY <2>1, <3>2, <4>1
      <4>. QED
        BY <1>2, <3>2, <4>1, <4>2
    <3>. QED
      BY <3>1, <3>2
  <2>3. ASSUME NEW i \in 1 .. Len(c), NEW j \in 1 .. Len(c), c[i] = c[j]
        PROVE  i = j
    <3>1. CASE i <= Len(Q) /\ j <= Len(Q)
      BY <1>2, <2>2, <2>3, <3>1
    <3>2. CASE ~ i <= Len(Q) /\ ~ j <= Len(Q)
      <4>1. i - Len(Q) = j - Len(Q)
        <5>1. /\ i - Len(Q) \in 1 .. Len(F) /\ c[i] = F[i - Len(Q)]
              /\ j - Len(Q) \in 1 .. Len(F) /\ c[j] = F[j - Len(Q)]
          BY <2>2, <2>3, <3>2
        <5>2. F[i - Len(Q)] = F[j - Len(Q)]
          BY <2>3, <5>1
        <5>. QED
          BY <1>2, <5>1, <5>2
      <4>. QED
        BY <1>2, <4>1
    <3>3. CASE i <= Len(Q) /\ ~ j <= Len(Q)
      <4>1. c[i] \in Range(Q) /\ c[j] \in Range(F)
        BY <1>2, <2>2, <3>3
      <4>. QED
        BY <1>1, <2>3, <4>1 DEF Q, F
    <3>4. CASE ~ i <= Len(Q) /\ j <= Len(Q)
      <4>1. c[i] \in Range(F) /\ c[j] \in Range(Q)
        BY <1>2, <2>2, <3>4
      <4>. QED
        BY <1>1, <2>3, <4>1 DEF Q, F
    <3>. QED
      BY <3>1, <3>2, <3>3, <3>4
  <2>4. IsInjective(c)
    BY <2>1, <2>3 DEF IsInjective
  <2>5. Range(c) \subseteq Range(Q) \cup Range(F)
    <3>1. \A i \in 1 .. Len(c) : c[i] \in Range(Q) \cup Range(F)
      BY <1>2, <2>2
    <3>. QED
      BY <2>1, <3>1, Elements
  <2>. QED
    <3>1. \A i \in 1 .. Len(Q) : i \in 1 .. Len(c) /\ c[i] = Q[i]
      BY <1>2, <2>1
    <3>2. ASSUME NEW i \in 1 .. Len(F) PROVE F[i] \in Range(c)
      <4>. DEFINE j == Len(Q) + i
      <4>1. j \in 1 .. Len(c) /\ ~ j <= Len(Q) /\ j - Len(Q) = i
        BY <1>2, <2>1
      <4>. HIDE DEF j
      <4>2. c[j] = F[i]
        BY <2>2, <4>1
      <4>. QED
        BY <2>1, <4>1, <4>2, Elements
    <3>3. Range(Q) \subseteq Range(c)
      <4>1. \A i \in 1 .. Len(Q) : Q[i] \in Range(c)
        BY <2>1, <3>1, Elements
      <4>. QED
        BY <1>2, <4>1, Elements
    <3>4. Range(F) \subseteq Range(c)
      BY <1>2, <3>2, Elements
    <3>. QED
      BY <2>4, <2>5, <3>3, <3>4 DEF c
<1>5. \A t \in T : slot[t] \in H
  BY DEF Held
<1>6. Cardinality(T) = Cardinality(H) /\ IsFiniteSet(H)
  <2>. DEFINE f == [t \in T |-> slot[t]]
  <2>1. f \in [T -> H] /\ \A t \in T : f[t] = slot[t]
    BY <1>5
  <2>2. \A t, u \in T : f[t] = f[u] => t = u
    BY <2>1 DEF HoldersCopy
  <2>3. \A s \in H : \E t \in T : f[t] = s
    BY <2>1 DEF Held
  <2>4. IsFiniteSet(T)
    BY FS_Subset, KernelAssumption
  <2>. HIDE DEF f, T, H
  <2>5. f \in Bijection(T, H)
    BY <2>1, <2>2, <2>3 DEF Bijection, Injection, Surjection, IsInjective
  <2>. QED
    BY <2>4, <2>5, FS_Bijection DEF ExistsBijection
<1>. HIDE DEF T, H
<1>7. Len(Q) + Len(F) + Cardinality(T) = Cardinality(Slot)
  <2>. DEFINE A == Range(Q)
              B == Range(F)
  <2>1. /\ IsFiniteSet(A) /\ Cardinality(A) = Len(Q)
        /\ IsFiniteSet(B) /\ Cardinality(B) = Len(F)
    BY <1>1, ListCount DEF Q, F
  <2>2. A \cap B = {} /\ (A \cup B) \cap H = {} /\ (A \cup B) \cup H = Slot
    BY <1>1 DEF Q, F, H
  <2>. HIDE DEF A, B
  <2>3. ASSUME NEW X, NEW Y, IsFiniteSet(X), IsFiniteSet(Y), X \cap Y = {}
        PROVE  IsFiniteSet(X \cup Y) /\ Cardinality(X \cup Y) = Cardinality(X) + Cardinality(Y)
    <3>1. Cardinality(X \cap Y) = 0
      BY <2>3, FS_EmptySet
    <3>2. Cardinality(X) \in Nat /\ Cardinality(Y) \in Nat
      BY <2>3, FS_CardinalityType
    <3>3. IsFiniteSet(X \cup Y)
          /\ Cardinality(X \cup Y) = Cardinality(X) + Cardinality(Y) - Cardinality(X \cap Y)
      BY <2>3, FS_Union
    <3>. QED
      BY <3>1, <3>2, <3>3
  <2>4. IsFiniteSet(A \cup B) /\ Cardinality(A \cup B) = Len(Q) + Len(F)
    <3>1. IsFiniteSet(A) /\ IsFiniteSet(B) /\ A \cap B = {}
      BY <2>1, <2>2
    <3>2. IsFiniteSet(A \cup B) /\ Cardinality(A \cup B) = Cardinality(A) + Cardinality(B)
      BY <3>1, <2>3
    <3>. QED
      BY <2>1, <3>2
  <2>5. Cardinality((A \cup B) \cup H) = Cardinality(A \cup B) + Cardinality(H)
    <3>. DEFINE C == A \cup B
    <3>1. IsFiniteSet(C) /\ IsFiniteSet(H) /\ C \cap H = {}
      BY <1>6, <2>2, <2>4
    <3>. HIDE DEF C
    <3>2. Cardinality(C \cup H) = Cardinality(C) + Cardinality(H)
      BY <3>1, <2>3
    <3>. QED
      BY <3>2 DEF C
  <2>. QED
    BY <1>6, <2>2, <2>4, <2>5
<1>8. \A t \in T : slot[t] \notin Range(Q \o F)
  BY <1>1, <1>4, <1>5 DEF Q, F, H
<1>9. \A t, u \in T : slot[t] = slot[u] => t = u
  BY DEF T, HoldersCopy
<1>10. entry = Len(Q) /\ tail = IF Q = << >> THEN NULL ELSE Q[Len(Q)]
  BY <1>1 DEF Q
<1>. QED
  BY <1>4, <1>7, <1>8, <1>9, <1>10 DEF SlotsAccounted, Q, F, T

-----------------------------------------------------------------------------
(* The actions. *)

LEMMA Lists1 == Mq \in WaitList /\ \A w \in WaitList : w = Mq
BY MessageQueueAssumption

\* rt_mq_init leaves every slot on the free list.
LEMMA InitInv == Init => IInv
<1>. SUFFICES ASSUME Init PROVE IInv
  OBVIOUS
<1>. DEFINE N == Cardinality(Slot)
<1>1. ThreadInv /\ Waiters = << >>
  BY ThreadsInitInv, Lists1 DEF Init, Waiters
<1>2. QueueType
  <2>1. (CHOOSE m \in Msg : TRUE) \in Msg
    BY MessageQueueAssumption DEF Msg
  <2>. QED
    BY <2>1 DEF Init, QueueType, TimeType
<1>3. HoldersCopy /\ Held(slot) = {}
  <2>1. \A t \in Thread : slot[t] = NULL /\ op[t] = "none" /\ pc[t] = "run"
    BY DEF Init, ThreadsInit
  <2>. QED
    BY <2>1, KernelAssumption DEF HoldersCopy, Copying, Held
<1>4. ListOfSlots(PoolOrder) /\ Len(PoolOrder) = N /\ Range(PoolOrder) = Slot
  <2>1. ExistsBijection(1 .. N, Slot) /\ N \in Nat
    BY SlotsFinite, FS_CardinalityType
  <2>2. \E o \in [1 .. N -> Slot] : IsInjective(o)
    BY <2>1 DEF ExistsBijection, Bijection, Injection, IsInjective
  <2>3. PoolOrder \in [1 .. N -> Slot] /\ IsInjective(PoolOrder)
    BY <2>2 DEF PoolOrder
  <2>4. PoolOrder \in Seq(Slot) /\ Len(PoolOrder) = N
    BY <2>1, <2>3
  <2>5. ListOfSlots(PoolOrder)
    BY <2>3, <2>4 DEF ListOfSlots
  <2>6. Range(PoolOrder) \subseteq Slot /\ Cardinality(Range(PoolOrder)) = Cardinality(Slot)
    BY <2>4, <2>5, ListRange, ListCount
  <2>7. Range(PoolOrder) = Slot
    BY <2>6, SlotsFinite, FS_Subset
  <2>. QED
    BY <2>4, <2>5, <2>7
<1>5. ListOfSlots(<< >>) /\ Range(<< >>) = {} /\ \A nx : Path(nx, << >>, NULL)
  BY DEF ListOfSlots, Range, IsInjective, Path
<1>6. PoolOrder # << >> /\ free = PoolOrder[Len(PoolOrder)]
  BY <1>4, SlotsFinite DEF Init
<1>7. /\ next \in [Slot -> Slot \cup {NULL}]
      /\ Path(next, Drained(PoolOrder, << >>), free)
  <2>. DEFINE nx == [s \in Slot |-> NULL]
  <2>1. nx \in [Slot -> Slot \cup {NULL}]
    OBVIOUS
  <2>2. next = [s \in Slot |-> IF s \notin Range(PoolOrder) THEN nx[s]
                               ELSE IF s = PoolOrder[1] THEN NULL
                               ELSE PoolOrder[CHOOSE i \in 1 .. Len(PoolOrder) - 1 :
                                                 PoolOrder[i + 1] = s]]
    BY <1>4 DEF Init
  <2>3. Range(PoolOrder) \cap Range(<< >>) = {} /\ Path(nx, << >>, NULL)
    BY <1>5
  <2>. HIDE DEF nx
  <2>. QED
    BY <1>4, <1>5, <1>6, <2>1, <2>2, <2>3, DrainedPath
<1>8. ListOfSlots(Drained(PoolOrder, << >>)) /\ Range(Drained(PoolOrder, << >>)) = Slot
  <2>. DEFINE e == << >>
  <2>1. ListOfSlots(e) /\ Range(e) = {} /\ ListOfSlots(PoolOrder) /\ Range(PoolOrder) = Slot
    BY <1>4, <1>5
  <2>. HIDE DEF e
  <2>2. Range(PoolOrder) \cap Range(e) = {}
    BY <2>1
  <2>3. /\ ListOfSlots(Drained(PoolOrder, e))
        /\ Range(Drained(PoolOrder, e)) = Range(PoolOrder) \cup Range(e)
    BY <2>1, <2>2, DrainedList
  <2>4. Range(Drained(PoolOrder, e)) = Slot
    BY <2>1, <2>3
  <2>. QED
    BY <2>3, <2>4 DEF e
<1>9. Whole(next, head, tail, free, entry, Held(slot), << >>, Drained(PoolOrder, << >>))
  BY <1>3, <1>5, <1>7, <1>8 DEF Whole, Init
<1>10. PoolWhole
  BY <1>9, ShowWhole
<1>. QED
  BY <1>1, <1>2, <1>3, <1>10 DEF IInv, NoStrandedMessage

LEMMA WokenCount ==
  /\ IsFiniteSet(Woken) /\ Cardinality(Woken) \in Nat
  /\ IsFiniteSet(Woken') /\ Cardinality(Woken') \in Nat
<1>1. Woken \in SUBSET Thread /\ Woken' \in SUBSET Thread
  BY DEF Woken
<1>. QED
  BY <1>1, FS_Subset, FS_CardinalityType, KernelAssumption

LEMMA Moved ==
  ASSUME IInv, NEW t \in Thread, NEW l \in PC, Goto(t, l)
  PROVE  pc'[t] = l /\ \A u \in Thread : u # t => pc'[u] = pc[u]
BY DEF IInv, ThreadInv, ThreadsOK, Goto

\* What a step does to the queue: a message goes in with a slot that was not
\* queued, the first one comes out, or all do.
Gained(s, m) ==
    /\ s \in Slot /\ s \notin Range(Chain(head))
    /\ body' = [body EXCEPT ![s] = m]
    /\ \/ m \in Normal /\ Chain(head)' = Append(Chain(head), s)
       \/ m \in Urgent /\ Chain(head)' = <<s>> \o Chain(head)

FifoStep ==
    \/ \E s \in Slot, m \in Msg : Gained(s, m)
    \/ Chain(head) # << >> /\ Chain(head)' = Tail(Chain(head)) /\ body' = body
    \/ Chain(head)' = << >>
    \/ Chain(head)' = Chain(head) /\ body' = body

\* The body of CopyUndisturbed.
CopyKept ==
    \A t \in Thread :
        (pc[t] = "copying" /\ op[t] = "recv" /\ pc'[t] = "copying") =>
            body'[slot[t]] = body[slot[t]] /\ slot'[t] = slot[t]

GoodStep == IInv' /\ FifoStep /\ CopyKept

\* What of a step leaves the slots and the calls alone.
LEMMA FrameStep ==
  ASSUME IInv, ThreadInv', UNCHANGED <<next, body, head, tail, free, entry, slot, op>>,
         TimeType',
         \A t \in Thread : pc'[t] = "copying" <=> pc[t] = "copying",
         pc'[Idle] = "run", NoStrandedMessage'
  PROVE  GoodStep
<1>1. QueueType' /\ HoldersCopy'
  BY DEF IInv, QueueType, HoldersCopy, Copying
<1>2. Whole(next, head, tail, free, entry, Held(slot), Chain(head), Chain(free))
  BY DEF IInv, PoolWhole
<1>. DEFINE Q == Chain(head)
            F == Chain(free)
<1>3. Whole(next', head', tail', free', entry', Held(slot'), Q, F)
  BY <1>2
<1>. HIDE DEF Q, F
<1>4. PoolWhole' /\ Chain(head)' = Q
  BY <1>3, ShowWhole
<1>5. FifoStep
  BY <1>4 DEF FifoStep, Q
<1>6. CopyKept
  BY DEF CopyKept
<1>. QED
  BY <1>1, <1>4, <1>5, <1>6 DEF GoodStep, IInv

\* A step of thread t that begins or ends its copying, or neither.
LEMMA HoldersStep ==
  ASSUME HoldersCopy, NEW t \in Thread \ {Idle},
         \A u \in Thread : u # t => pc'[u] = pc[u] /\ slot'[u] = slot[u] /\ op'[u] = op[u],
         \/ pc'[t] # "copying" /\ slot'[t] = NULL /\ op'[t] = "none"
         \/ pc'[t] = "copying" /\ slot'[t] # NULL /\ op'[t] # "none" /\ slot'[t] \notin Held(slot)
  PROVE  HoldersCopy'
<1>1. \A u \in Thread : slot[u] # NULL => slot[u] \in Held(slot)
  BY DEF Held
<1>2. ASSUME NEW u \in Thread
      PROVE  /\ pc'[u] = "copying" <=> slot'[u] # NULL
             /\ pc'[u] = "copying" <=> op'[u] # "none"
  BY DEF HoldersCopy, Copying
<1>3. ASSUME NEW u \in Thread, NEW v \in Thread, slot'[u] # NULL, slot'[u] = slot'[v], u # v
      PROVE  FALSE
  <2>1. CASE u = t
    BY <1>1, <1>3, <2>1
  <2>2. CASE v = t
    BY <1>1, <1>3, <2>2
  <2>3. CASE u # t /\ v # t
    BY <1>3, <2>3 DEF HoldersCopy
  <2>. QED
    BY <2>1, <2>2, <2>3
<1>4. pc'[Idle] = "run"
  BY KernelAssumption DEF HoldersCopy
<1>. QED
  BY <1>2, <1>3, <1>4 DEF HoldersCopy, Copying

\* The first section of a send.
LEMMA SendBeginStep ==
  ASSUME IInv, NEW t \in Thread, NEW o \in {"send", "urgent"}, SendBegin(t, o)
  PROVE  GoodStep
<1>1. /\ Running(k, t) /\ pc[t] = "run" /\ t # Idle /\ free # NULL /\ Goto(t, "copying")
      /\ slot' = [slot EXCEPT ![t] = free] /\ op' = [op EXCEPT ![t] = o] /\ free' = next[free]
      /\ UNCHANGED <<k, next, body, head, tail, entry, timeVars>>
      /\ slot \in [Thread -> Slot \cup {NULL}]
      /\ op \in [Thread -> {"none", "send", "urgent", "recv"}]
      /\ slot[t] = NULL /\ NULL \notin Slot
  BY SlotsFinite DEF SendBegin, MayCall, IInv, QueueType, HoldersCopy, Copying
<1>2. ThreadInv' /\ Woken' = Woken
  <2>1. t \notin Woken
    BY <1>1 DEF Woken
  <2>. QED
    BY <1>1, <2>1, ReturnInv DEF IInv, ThreadInv
<1>3. pc'[t] = "copying" /\ \A u \in Thread : u # t => pc'[u] = pc[u]
  BY <1>1, Moved DEF PC
<1>4. /\ Whole(next, head, tail, next[free], entry, Held(slot) \cup {free}, Chain(head), Tail(Chain(free)))
      /\ free \in Slot /\ free \notin Held(slot)
  BY <1>1, TakeFree DEF IInv, PoolWhole
<1>5. PoolWhole' /\ Chain(head)' = Chain(head)
  <2>1. Held(slot') = Held(slot) \cup {free}
    <3>1. SlotChanges(slot, slot', t) /\ slot[t] = NULL /\ slot'[t] = free
      BY <1>1 DEF SlotChanges
    <3>. QED
      BY <1>4, <3>1, HeldMore
  <2>. DEFINE Q == Chain(head)
              F == Tail(Chain(free))
  <2>2. Whole(next', head', tail', free', entry', Held(slot'), Q, F)
    BY <1>1, <1>4, <2>1
  <2>. HIDE DEF Q, F
  <2>3. PoolWhole' /\ Chain(head)' = Q
    BY <2>2, ShowWhole
  <2>. QED
    BY <2>3 DEF Q
<1>6. /\ slot'[t] = free /\ op'[t] = o
      /\ \A u \in Thread : u # t => slot'[u] = slot[u] /\ op'[u] = op[u]
  BY <1>1
<1>7. HoldersCopy'
  BY <1>1, <1>3, <1>4, <1>6, HoldersStep DEF IInv
<1>8. QueueType'
  BY <1>1, <1>4 DEF IInv, QueueType, TimeType, timeVars
<1>9. IInv'
  BY <1>1, <1>2, <1>5, <1>7, <1>8 DEF IInv, NoStrandedMessage, Waiters
<1>10. FifoStep /\ CopyKept
  BY <1>1, <1>5, <1>6 DEF FifoStep, CopyKept
<1>. QED
  BY <1>9, <1>10 DEF GoodStep

\* The message that goes into slot s, and the place of s in the queue Q.
LinkedAs(s, Q, P) ==
    \E m \in Msg : /\ body' = [body EXCEPT ![s] = m]
                   /\ \/ m \in Normal /\ P = Append(Q, s)
                      \/ m \in Urgent /\ P = <<s>> \o Q

\* Linking slot s, which H has, in either way.
LEMMA LinkWhole ==
  ASSUME NEW fr, NEW H, NEW Q, NEW F, Whole(next, head, tail, fr, entry, H, Q, F),
         NEW s \in H, NEW o \in {"send", "urgent"}, Link(s, o), body \in [Slot -> Msg]
  PROVE  /\ \E P : Whole(next', head', tail', fr, entry', H \ {s}, P, F) /\ LinkedAs(s, Q, P)
         /\ entry' = entry + 1 /\ body' \in [Slot -> Msg]
<1>1. CASE o = "send" /\ \E m \in Normal : LinkLast(s, m)
  <2>1. PICK m \in Normal : LinkLast(s, m)
    BY <1>1
  <2>2. Whole(next', head', tail', fr, entry', H \ {s}, Append(Q, s), F)
    <3>1. /\ head' = (IF head = NULL THEN s ELSE head) /\ tail' = s /\ entry' = entry + 1
          /\ next' = IF tail = NULL THEN [next EXCEPT ![s] = NULL]
                                    ELSE [next EXCEPT ![s] = NULL, ![tail] = s]
      BY <2>1 DEF LinkLast
    <3>2. Whole(next', IF head = NULL THEN s ELSE head, s, fr, entry + 1, H \ {s}, Append(Q, s), F)
      BY <3>1, LinkedLast
    <3>. QED
      BY <3>1, <3>2
  <2>3. m \in Msg /\ body' = [body EXCEPT ![s] = m] /\ entry' = entry + 1
    BY <2>1 DEF LinkLast, Msg
  <2>4. LinkedAs(s, Q, Append(Q, s))
    BY <2>3 DEF LinkedAs
  <2>. QED
    BY <2>2, <2>3, <2>4
<1>2. CASE o = "urgent" /\ \E m \in Urgent : LinkFirst(s, m)
  <2>1. PICK m \in Urgent : LinkFirst(s, m)
    BY <1>2
  <2>2. Whole(next', head', tail', fr, entry', H \ {s}, <<s>> \o Q, F)
    BY <2>1, LinkedFirst DEF LinkFirst
  <2>3. m \in Msg /\ body' = [body EXCEPT ![s] = m] /\ entry' = entry + 1
    BY <2>1 DEF LinkFirst, Msg
  <2>4. LinkedAs(s, Q, <<s>> \o Q)
    BY <2>3 DEF LinkedAs
  <2>. QED
    BY <2>2, <2>3, <2>4
<1>. QED
  BY <1>1, <1>2 DEF Link

\* What a wake-up means for a queue that has got one message more.
LEMMA WakeCounts ==
  ASSUME NoStrandedMessage, entry' = entry + 1, entry \in Nat,
         NEW x, Woken \subseteq Woken',
         Waiters = << >> => Waiters' = << >>,
         Waiters # << >> => x \in Woken' /\ x \notin Woken
  PROVE  NoStrandedMessage'
<1>1. SUFFICES ASSUME Waiters' # << >> PROVE entry' <= Cardinality(Woken')
  BY DEF NoStrandedMessage
<1>2. entry <= Cardinality(Woken) /\ x \in Woken' /\ x \notin Woken
  BY <1>1 DEF NoStrandedMessage
<1>3. Cardinality(Woken \cup {x}) = Cardinality(Woken) + 1
  BY <1>2, WokenCount, FS_AddElement
<1>4. Cardinality(Woken \cup {x}) <= Cardinality(Woken')
  BY <1>2, WokenCount, FS_Subset
<1>. QED
  BY <1>2, <1>3, <1>4, WokenCount

\* Linking slot s, which H has, into the queue there is.
LEMMA LinkStep ==
  ASSUME NEW fr, NEW H, NEW F, Whole(next, head, tail, fr, entry, H, Chain(head), F),
         NEW s \in H, NEW o \in {"send", "urgent"}, Link(s, o), body \in [Slot -> Msg],
         free' = fr, Held(slot') = H \ {s}
  PROVE  /\ PoolWhole' /\ FifoStep /\ entry' = entry + 1 /\ body' \in [Slot -> Msg]
         /\ \A r \in Slot : r # s => body'[r] = body[r]
<1>. DEFINE Q == Chain(head)
<1>1. s \in Slot /\ s \notin Range(Q)
  BY DEF Whole
<1>2. Whole(next, head, tail, fr, entry, H, Q, F)
  OBVIOUS
<1>. HIDE DEF Q
<1>3. /\ \E P : Whole(next', head', tail', fr, entry', H \ {s}, P, F) /\ LinkedAs(s, Q, P)
      /\ entry' = entry + 1 /\ body' \in [Slot -> Msg]
  <2>1. Link(s, o) /\ body \in [Slot -> Msg]
    OBVIOUS
  <2>. QED
    BY <1>2, <2>1, LinkWhole
<1>4. PICK P : Whole(next', head', tail', fr, entry', H \ {s}, P, F) /\ LinkedAs(s, Q, P)
  BY <1>3
<1>5. PICK m \in Msg : /\ body' = [body EXCEPT ![s] = m]
                       /\ \/ m \in Normal /\ P = Append(Q, s)
                          \/ m \in Urgent /\ P = <<s>> \o Q
  BY <1>4 DEF LinkedAs
<1>6. Whole(next', head', tail', free', entry', Held(slot'), P, F)
  BY <1>4
<1>7. PoolWhole' /\ Chain(head)' = P
  BY <1>6, ShowWhole
<1>8. Gained(s, m)
  BY <1>1, <1>5, <1>7 DEF Gained, Q
<1>9. \A r \in Slot : r # s => body'[r] = body[r]
  BY <1>1, <1>5
<1>. QED
  BY <1>1, <1>3, <1>7, <1>8, <1>9 DEF FifoStep

\* The second section of a send.
LEMMA SendLinkStep ==
  ASSUME IInv, NEW t \in Thread, SendLink(t)
  PROVE  GoodStep
<1>1. /\ Running(k, t) /\ pc[t] = "copying" /\ op[t] \in {"send", "urgent"} /\ Link(slot[t], op[t])
      /\ slot' = [slot EXCEPT ![t] = NULL] /\ op' = [op EXCEPT ![t] = "none"]
      /\ Wake(t, Mq) /\ free' = free /\ left' = left /\ since' = since
      /\ slot \in [Thread -> Slot \cup {NULL}] /\ body \in [Slot -> Msg]
      /\ op \in [Thread -> {"none", "send", "urgent", "recv"}]
      /\ slot[t] # NULL /\ t # Idle
  BY DEF SendLink, IInv, QueueType, HoldersCopy, Copying, timeVars
<1>. DEFINE x == Head(k.wait[Mq])
<1>2. /\ ThreadInv'
      /\ k.wait[Mq] = << >> => k' = k /\ Woken' = Woken \ {t}
      /\ k.wait[Mq] # << >> => x \notin Woken /\ Woken' = (Woken \ {t}) \cup {x}
  BY <1>1, Lists1, WakeInv DEF IInv, ThreadInv
<1>3. Woken \ {t} = Woken
  BY <1>1 DEF Woken
<1>4. Held(slot') = Held(slot) \ {slot[t]} /\ slot[t] \in Held(slot)
  BY <1>1, HeldLess DEF IInv, HoldersCopy
<1>5. Whole(next, head, tail, free, entry, Held(slot), Chain(head), Chain(free))
  BY DEF IInv, PoolWhole
<1>6. /\ PoolWhole' /\ FifoStep /\ entry' = entry + 1 /\ body' \in [Slot -> Msg]
      /\ \A r \in Slot : r # slot[t] => body'[r] = body[r]
  <2>. DEFINE F == Chain(free)
              s == slot[t]
              o == op[t]
              H == Held(slot)
  <2>1. /\ Whole(next, head, tail, free, entry, H, Chain(head), F)
        /\ s \in H /\ o \in {"send", "urgent"} /\ Link(s, o) /\ body \in [Slot -> Msg]
        /\ free' = free /\ Held(slot') = H \ {s}
    BY <1>1, <1>4, <1>5
  <2>. HIDE DEF F, s, o, H
  <2>2. /\ PoolWhole' /\ FifoStep /\ entry' = entry + 1 /\ body' \in [Slot -> Msg]
        /\ \A r \in Slot : r # s => body'[r] = body[r]
    BY <2>1, LinkStep
  <2>. QED
    BY <2>2 DEF s
<1>7. /\ pc'[t] \in {"run", "resched"} /\ \A u \in Thread : u # t => pc'[u] = pc[u]
  <2>1. Goto(t, "run") \/ Goto(t, "resched")
    BY <1>1 DEF Wake
  <2>. QED
    BY <2>1, Moved DEF PC
<1>8. HoldersCopy'
  BY <1>1, <1>7, HoldersStep DEF IInv
<1>9. QueueType'
  BY <1>1, <1>6 DEF IInv, QueueType, TimeType
<1>10. NoStrandedMessage'
  <2>1. entry \in Nat
    BY WholeStart DEF IInv, PoolWhole
  <2>. HIDE DEF x
  <2>. QED
    BY <1>2, <1>3, <1>6, <2>1, WakeCounts DEF IInv, Waiters
<1>11. CopyKept
  <2>1. ASSUME NEW u \in Thread, pc[u] = "copying", u # t
        PROVE  body'[slot[u]] = body[slot[u]] /\ slot'[u] = slot[u]
    <3>1. slot[u] \in Slot /\ slot[u] # slot[t]
      BY <1>1, <2>1 DEF IInv, HoldersCopy, Copying
    <3>. QED
      BY <1>1, <1>6, <2>1, <3>1
  <2>. QED
    BY <1>7, <2>1 DEF CopyKept
<1>. QED
  BY <1>2, <1>6, <1>8, <1>9, <1>10, <1>11 DEF GoodStep, IInv

\* The send of an interrupt handler takes its slot from the free list and
\* links it in one step.
LEMMA IsrSendStep ==
  ASSUME IInv, NEW o \in {"send", "urgent"}, IsrSend(o)
  PROVE  GoodStep
<1>1. /\ k.due = {} /\ free # NULL /\ free' = next[free] /\ Link(free, o) /\ IsrWake(Mq)
      /\ slot' = slot /\ op' = op /\ left' = left /\ since' = since /\ pc' = pc /\ body \in [Slot -> Msg]
  BY DEF IsrSend, Interruptible, IsrWake, IInv, QueueType, timeVars
<1>. DEFINE x == Head(k.wait[Mq])
<1>2. /\ ThreadInv'
      /\ k.wait[Mq] = << >> => k' = k /\ Woken' = Woken
      /\ k.wait[Mq] # << >> => x \notin Woken /\ Woken' = Woken \cup {x}
  BY <1>1, Lists1, IsrWakeInv DEF IInv, ThreadInv
<1>. HIDE DEF x
<1>3. /\ Whole(next, head, tail, next[free], entry, Held(slot) \cup {free}, Chain(head),
               Tail(Chain(free)))
      /\ free \in Slot /\ free \notin Held(slot)
  BY <1>1, TakeFree DEF IInv, PoolWhole
<1>4. /\ PoolWhole' /\ FifoStep /\ entry' = entry + 1 /\ body' \in [Slot -> Msg]
      /\ \A r \in Slot : r # free => body'[r] = body[r]
  <2>. DEFINE F == Tail(Chain(free))
              H == Held(slot) \cup {free}
              fr == next[free]
              s == free
  <2>1. /\ Whole(next, head, tail, fr, entry, H, Chain(head), F)
        /\ s \in H /\ Link(s, o) /\ body \in [Slot -> Msg]
        /\ free' = fr /\ Held(slot') = H \ {s}
    BY <1>1, <1>3
  <2>. HIDE DEF F, s, H, fr
  <2>2. /\ PoolWhole' /\ FifoStep /\ entry' = entry + 1 /\ body' \in [Slot -> Msg]
        /\ \A r \in Slot : r # s => body'[r] = body[r]
    BY <2>1, LinkStep
  <2>. QED
    BY <2>2 DEF s
<1>5. QueueType' /\ HoldersCopy'
  BY <1>1, <1>4 DEF IInv, QueueType, HoldersCopy, Copying, TimeType
<1>6. NoStrandedMessage'
  <2>1. entry \in Nat
    BY WholeStart DEF IInv, PoolWhole
  <2>. QED
    BY <1>2, <1>4, <2>1, WakeCounts DEF IInv, Waiters
<1>7. CopyKept
  <2>1. ASSUME NEW u \in Thread, pc[u] = "copying"
        PROVE  slot[u] \in Slot /\ slot[u] # free
    BY <1>3, <2>1 DEF IInv, HoldersCopy, QueueType, Copying, Held
  <2>. QED
    BY <1>1, <1>4, <2>1 DEF CopyKept
<1>. QED
  BY <1>2, <1>4, <1>5, <1>6, <1>7 DEF GoodStep, IInv

\* A receiver takes the first message, at the start of its call or resumed.
LEMMA TakeFirstStep ==
  ASSUME IInv, NEW t \in Thread \ {Idle}, Running(k, t), pc[t] \in {"run", "back"},
         entry > 0, TakeFirst(t)
  PROVE  GoodStep
<1>1. /\ Goto(t, "copying") /\ slot' = [slot EXCEPT ![t] = head] /\ op' = [op EXCEPT ![t] = "recv"]
      /\ head' = next[head] /\ tail' = (IF tail = head THEN NULL ELSE tail) /\ entry' = entry - 1
      /\ left' = [left EXCEPT ![t] = 0] /\ since' = [since EXCEPT ![t] = 0]
      /\ UNCHANGED <<k, next, body, free>>
      /\ slot \in [Thread -> Slot \cup {NULL}]
      /\ op \in [Thread -> {"none", "send", "urgent", "recv"}]
      /\ slot[t] = NULL /\ NULL \notin Slot
  BY SlotsFinite DEF TakeFirst, IInv, QueueType, HoldersCopy, Copying, EndWait
<1>2. ThreadInv' /\ Woken' = Woken \ {t}
  BY <1>1, ReturnInv DEF IInv, ThreadInv
<1>3. pc'[t] = "copying" /\ \A u \in Thread : u # t => pc'[u] = pc[u]
  BY <1>1, Moved DEF PC
<1>4. Chain(head) # << >> /\ entry \in Nat
  BY WholeStart DEF IInv, PoolWhole
<1>5. /\ Whole(next, next[head], IF tail = head THEN NULL ELSE tail, free, entry - 1,
               Held(slot) \cup {head}, Tail(Chain(head)), Chain(free))
      /\ head \in Slot /\ head \notin Held(slot)
  BY <1>4, TakeQueued DEF IInv, PoolWhole
<1>6. PoolWhole' /\ Chain(head)' = Tail(Chain(head))
  <2>1. Held(slot') = Held(slot) \cup {head}
    <3>1. SlotChanges(slot, slot', t) /\ slot[t] = NULL /\ slot'[t] = head
      BY <1>1 DEF SlotChanges
    <3>. QED
      BY <1>5, <3>1, HeldMore
  <2>. DEFINE Q == Tail(Chain(head))
              F == Chain(free)
  <2>2. Whole(next', head', tail', free', entry', Held(slot'), Q, F)
    BY <1>1, <1>5, <2>1
  <2>. HIDE DEF Q, F
  <2>3. PoolWhole' /\ Chain(head)' = Q
    BY <2>2, ShowWhole
  <2>. QED
    BY <2>3 DEF Q
<1>7. /\ slot'[t] = head /\ op'[t] = "recv"
      /\ \A u \in Thread : u # t => slot'[u] = slot[u] /\ op'[u] = op[u]
  BY <1>1
<1>8. HoldersCopy'
  BY <1>1, <1>3, <1>5, <1>7, HoldersStep DEF IInv
<1>9. QueueType'
  BY <1>1, <1>5 DEF IInv, QueueType, TimeType
<1>10. NoStrandedMessage'
  <2>1. SUFFICES ASSUME Waiters # << >> PROVE entry - 1 <= Cardinality(Woken')
    BY <1>1 DEF NoStrandedMessage, Waiters
  <2>2. entry <= Cardinality(Woken)
    BY <2>1 DEF IInv, NoStrandedMessage
  <2>3. Cardinality(Woken') >= Cardinality(Woken) - 1
    <3>1. CASE t \in Woken
      BY <1>2, <3>1, WokenCount, FS_RemoveElement
    <3>2. CASE t \notin Woken
      <4>1. Woken' = Woken
        BY <1>2, <3>2
      <4>. QED
        BY <4>1, WokenCount
    <3>. QED
      BY <3>1, <3>2
  <2>. QED
    BY <1>4, <2>2, <2>3, WokenCount
<1>11. FifoStep /\ CopyKept
  BY <1>1, <1>4, <1>6, <1>7 DEF FifoStep, CopyKept
<1>. QED
  BY <1>2, <1>6, <1>8, <1>9, <1>10, <1>11 DEF GoodStep, IInv

\* A receiver finds nothing and goes on the list, or gives up.
LEMMA RecvWaitStep ==
  ASSUME IInv, NEW t \in Thread \ {Idle}, Running(k, t), pc[t] \in {"run", "back"},
         NEW time \in Int, RecvWait(t, time)
  PROVE  GoodStep
<1>1. /\ entry = 0 /\ Wait(t, Mq, Flag, time) /\ Goto(t, "suspended")
      /\ left' = [left EXCEPT ![t] = time] /\ since' = [since EXCEPT ![t] = 0]
      /\ UNCHANGED <<next, body, head, tail, free, entry, slot, op>>
  BY DEF RecvWait, Wait
<1>2. ThreadInv'
  BY <1>1, Lists1, WaitInv DEF IInv, ThreadInv
<1>3. /\ pc'[t] = "suspended" /\ \A u \in Thread : u # t => pc'[u] = pc[u]
  BY <1>1, Moved DEF PC
<1>4. NoStrandedMessage'
  BY <1>1, WokenCount DEF NoStrandedMessage
<1>5. TimeType'
  BY <1>1 DEF IInv, QueueType, TimeType
<1>6. pc'[Idle] = "run" /\ \A u \in Thread : pc'[u] = "copying" <=> pc[u] = "copying"
  BY <1>3, KernelAssumption DEF IInv, HoldersCopy
<1>. QED
  BY <1>1, <1>2, <1>4, <1>5, <1>6, FrameStep

LEMMA RecvFailsStep ==
  ASSUME IInv, NEW t \in Thread, RecvFails(t)
  PROVE  GoodStep
<1>1. /\ Running(k, t) /\ pc[t] = "back" /\ Goto(t, "run") /\ k \in KernelType
      /\ left' = [left EXCEPT ![t] = 0] /\ since' = [since EXCEPT ![t] = 0]
      /\ UNCHANGED <<next, body, head, tail, free, entry, slot, op>>
  BY DEF RecvFails, IInv, ThreadInv, ThreadsOK, EndWait
<1>2. PICK e \in Error : k' = [k EXCEPT !.error[t] = e]
  <2>1. k.error \in [Thread -> Error]
    BY <1>1, KernelTypeFields
  <2>2. k = [k EXCEPT !.error[t] = k.error[t]]
    BY <1>1, <2>1 DEF KernelType
  <2>3. CASE k' = k
    BY <2>1, <2>2, <2>3
  <2>. QED
    BY <2>3 DEF RecvFails, Error
<1>3. ThreadInv' /\ Woken' = Woken \ {t} /\ k'.wait = k.wait
  BY <1>1, <1>2, FailReturnInv DEF IInv, ThreadInv
<1>4. pc'[t] = "run" /\ \A u \in Thread : u # t => pc'[u] = pc[u]
  BY <1>1, Moved DEF PC
<1>5. NoStrandedMessage'
  <2>1. CASE t \in Woken
    <3>1. entry' = 0
      BY <1>1, <2>1 DEF RecvFails, Woken
    <3>. QED
      BY <3>1, WokenCount DEF NoStrandedMessage
  <2>2. CASE t \notin Woken
    <3>1. Woken' = Woken
      BY <1>3, <2>2
    <3>. QED
      BY <1>1, <1>3, <3>1 DEF IInv, NoStrandedMessage, Waiters
  <2>. QED
    BY <2>1, <2>2
<1>6. TimeType'
  BY <1>1 DEF IInv, QueueType, TimeType
<1>7. pc'[Idle] = "run" /\ \A u \in Thread : pc'[u] = "copying" <=> pc[u] = "copying"
  BY <1>1, <1>4, KernelAssumption DEF IInv, HoldersCopy
<1>. QED
  BY <1>1, <1>3, <1>5, <1>6, <1>7, FrameStep

\* The last section of a receive.
LEMMA RecvFreeStep ==
  ASSUME IInv, NEW t \in Thread, RecvFree(t)
  PROVE  GoodStep
<1>1. /\ Running(k, t) /\ pc[t] = "copying" /\ Goto(t, "run")
      /\ next' = [next EXCEPT ![slot[t]] = free] /\ free' = slot[t]
      /\ slot' = [slot EXCEPT ![t] = NULL] /\ op' = [op EXCEPT ![t] = "none"]
      /\ UNCHANGED <<k, body, head, tail, entry, timeVars>>
      /\ slot \in [Thread -> Slot \cup {NULL}]
      /\ op \in [Thread -> {"none", "send", "urgent", "recv"}]
      /\ slot[t] # NULL /\ t # Idle
  BY DEF RecvFree, IInv, QueueType, HoldersCopy, Copying
<1>2. ThreadInv' /\ Woken' = Woken
  <2>1. t \notin Woken
    BY <1>1 DEF Woken
  <2>. QED
    BY <1>1, <2>1, ReturnInv DEF IInv, ThreadInv
<1>3. pc'[t] = "run" /\ \A u \in Thread : u # t => pc'[u] = pc[u]
  BY <1>1, Moved DEF PC
<1>4. Held(slot') = Held(slot) \ {slot[t]} /\ slot[t] \in Held(slot)
  BY <1>1, HeldLess DEF IInv, HoldersCopy
<1>5. PoolWhole' /\ Chain(head)' = Chain(head)
  <2>. DEFINE Q == Chain(head)
              F == Chain(free)
              s == slot[t]
  <2>1. Whole(next, head, tail, free, entry, Held(slot), Q, F) /\ s \in Held(slot)
    BY <1>4 DEF IInv, PoolWhole
  <2>2. next' = [next EXCEPT ![s] = free] /\ free' = s /\ Held(slot') = Held(slot) \ {s}
    BY <1>1, <1>4
  <2>. HIDE DEF Q, F, s
  <2>3. Whole([next EXCEPT ![s] = free], head, tail, s, entry, Held(slot) \ {s}, Q, <<s>> \o F)
    BY <2>1, PutFree
  <2>4. Whole(next', head', tail', free', entry', Held(slot'), Q, <<s>> \o F)
    BY <1>1, <2>2, <2>3
  <2>5. PoolWhole' /\ Chain(head)' = Q
    BY <2>4, ShowWhole
  <2>. QED
    BY <2>5 DEF Q
<1>6. /\ slot'[t] = NULL /\ op'[t] = "none"
      /\ \A u \in Thread : u # t => slot'[u] = slot[u] /\ op'[u] = op[u]
  BY <1>1
<1>7. HoldersCopy'
  BY <1>1, <1>3, <1>6, HoldersStep DEF IInv
<1>8. QueueType'
  BY <1>1 DEF IInv, QueueType, TimeType, timeVars
<1>9. NoStrandedMessage'
  BY <1>1, <1>2 DEF IInv, NoStrandedMessage, Waiters
<1>10. FifoStep /\ CopyKept
  BY <1>1, <1>3, <1>5, <1>6 DEF FifoStep, CopyKept
<1>. QED
  BY <1>2, <1>5, <1>7, <1>8, <1>9, <1>10 DEF GoodStep, IInv

\* The end of a reset: the queued slots go in front of the free list.
LEMMA ResetEndStep ==
  ASSUME IInv, NEW t \in Thread, ResetEnd(t)
  PROVE  GoodStep
<1>. DEFINE Q == Chain(head)
            F == Chain(free)
<1>1. /\ Running(k, t) /\ pc[t] = "section" /\ Waiters = << >> /\ LeaveSection(t)
      /\ Goto(t, "resched")
      /\ next' = [s \in Slot |-> IF s \notin Range(Q) THEN next[s]
                                 ELSE IF s = Q[1] THEN free
                                 ELSE Q[CHOOSE i \in 1 .. Len(Q) - 1 : Q[i + 1] = s]]
      /\ free' = (IF Q = << >> THEN free ELSE Q[Len(Q)])
      /\ tail' = (IF tail \in Range(Q) THEN NULL ELSE tail)
      /\ head' = NULL /\ entry' = 0 /\ body' = body /\ slot' = slot /\ op' = op /\ left' = left /\ since' = since
  BY DEF ResetEnd, LeaveSection, timeVars
<1>2. Whole(next, head, tail, free, entry, Held(slot), Q, F)
  BY DEF IInv, PoolWhole
<1>3. ThreadInv' /\ k'.wait = k.wait
  BY <1>1, LeaveSectionInv DEF IInv, ThreadInv
<1>4. pc'[t] = "resched" /\ \A u \in Thread : u # t => pc'[u] = pc[u]
  BY <1>1, Moved DEF PC
<1>. HIDE DEF Q, F
<1>5. /\ next \in [Slot -> Slot \cup {NULL}] /\ Held(slot) \in SUBSET Slot
      /\ ListOfSlots(Q) /\ ListOfSlots(F) /\ Range(Q) \cap Range(F) = {} /\ Path(next, F, free)
      /\ Held(slot) \cap (Range(Q) \cup Range(F)) = {}
      /\ Range(Q) \cup Range(F) \cup Held(slot) = Slot
  BY <1>2 DEF Whole
<1>6. next' \in [Slot -> Slot \cup {NULL}] /\ Path(next', Drained(Q, F), free')
  BY <1>1, <1>5, DrainedPath
<1>7. ListOfSlots(Drained(Q, F)) /\ Range(Drained(Q, F)) = Range(Q) \cup Range(F)
  BY <1>5, DrainedList
<1>8. ListOfSlots(<< >>) /\ Range(<< >>) = {} /\ Path(next', << >>, NULL)
  BY DEF ListOfSlots, Range, IsInjective, Path
<1>9. tail' = NULL
  <2>1. /\ tail = NULL <=> Q = << >>
        /\ Q # << >> => tail \in Range(Q)
    BY <1>2, WholeStart
  <2>. QED
    BY <1>1, <2>1
<1>10. PoolWhole' /\ Chain(head)' = << >>
  <2>. DEFINE G == Drained(Q, F)
  <2>1. /\ ListOfSlots(G) /\ Range(G) = Range(Q) \cup Range(F) /\ Path(next', G, free')
        /\ next' \in [Slot -> Slot \cup {NULL}]
    BY <1>6, <1>7
  <2>. HIDE DEF G
  <2>2. Whole(next', head', tail', free', entry', Held(slot'), << >>, G)
    BY <1>1, <1>5, <1>8, <1>9, <2>1 DEF Whole
  <2>. QED
    BY <2>2, ShowWhole
<1>11. QueueType' /\ HoldersCopy'
  <2>1. QueueType' /\ \A u \in Thread : slot'[u] = slot[u] /\ op'[u] = op[u]
    BY <1>1 DEF IInv, QueueType, TimeType
  <2>2. \A u \in Thread : pc'[u] = "copying" <=> pc[u] = "copying"
    BY <1>1, <1>4
  <2>3. pc'[Idle] = "run"
    BY <1>1, <1>4, KernelAssumption DEF IInv, HoldersCopy
  <2>. QED
    BY <2>1, <2>2, <2>3 DEF IInv, HoldersCopy, Copying
<1>12. NoStrandedMessage'
  BY <1>1, WokenCount DEF NoStrandedMessage
<1>13. FifoStep /\ CopyKept
  BY <1>1, <1>10 DEF FifoStep, CopyKept
<1>. QED
  BY <1>3, <1>10, <1>11, <1>12, <1>13 DEF GoodStep, IInv

\* The steps of the threads, of the tick and of a reset that resume threads
\* with an error or move no message.
LEMMA KernelStep ==
  ASSUME IInv,
         \/ (\E t \in Thread : ThreadStep(t)) \/ Tick \/ TimerFires
         \/ \E t \in Thread : ResetBegin(t) \/ ResumeAllTurn(t, Mq),
         UNCHANGED <<next, body, head, tail, free, entry, slot, op>>,
         TimeType'
  PROVE  GoodStep
<1>1. /\ ThreadInv' /\ Woken' = Woken
      /\ Range(k'.wait[Mq]) \subseteq Range(k.wait[Mq])
  <2>1. ThreadsOK /\ TopRuns /\ Mq \in WaitList
    BY Lists1 DEF IInv, ThreadInv
  <2>2. CASE (\E t \in Thread : ThreadStep(t)) \/ Tick \/ TimerFires
    BY <2>1, <2>2, SystemStepInv DEF ThreadInv
  <2>3. ASSUME NEW t \in Thread, ResetBegin(t)
        PROVE  ThreadInv' /\ Woken' = Woken /\ k'.wait = k.wait
    BY <2>1, <2>3, EnterSectionInv DEF ResetBegin, MayCall, ThreadInv
  <2>4. ASSUME NEW t \in Thread, ResumeAllTurn(t, Mq)
        PROVE  ThreadInv' /\ Woken' = Woken /\ Range(k'.wait[Mq]) \subseteq Range(k.wait[Mq])
    BY <2>1, <2>4, ResumeAllTurnInv DEF ThreadInv
  <2>. QED
    BY <2>2, <2>3, <2>4
<1>2. NoStrandedMessage'
  <2>1. k.wait[Mq] \in Seq(Thread) /\ k'.wait[Mq] \in Seq(Thread)
    BY <1>1, Lists1, KernelTypeFields DEF IInv, ThreadInv, ThreadsOK
  <2>2. /\ k.wait[Mq] # << >> <=> Range(k.wait[Mq]) # {}
        /\ k'.wait[Mq] # << >> <=> Range(k'.wait[Mq]) # {}
    BY <2>1, ListRange
  <2>3. Waiters' # << >> => Waiters # << >>
    BY <1>1, <2>2 DEF Waiters
  <2>. QED
    BY <1>1, <2>3 DEF IInv, NoStrandedMessage
<1>3. \/ pc' = pc
      \/ \E t \in Thread : /\ t # Idle \/ pc[t] # "run"
                           /\ pc[t] # "copying"
                           /\ \E l \in PC : l # "copying" /\ Goto(t, l)
  <2>1. ASSUME NEW t \in Thread, ThreadStep(t)
        PROVE  /\ t # Idle \/ pc[t] # "run"
               /\ pc[t] # "copying"
               /\ \E l \in PC : l # "copying" /\ Goto(t, l)
    BY <2>1 DEF ThreadStep, Sleep, SleepReturn, CallSchedule, MayCall, PC
  <2>2. ASSUME NEW t \in Thread, ResetBegin(t)
        PROVE  t # Idle /\ pc[t] # "copying" /\ Goto(t, "section")
    BY <2>2 DEF ResetBegin, EnterSection, MayCall
  <2>3. Tick \/ TimerFires \/ (\E t \in Thread : ResumeAllTurn(t, Mq)) => pc' = pc
    BY DEF Tick, TimerFires, ResumeAllTurn
  <2>. QED
    BY <2>1, <2>2, <2>3 DEF PC
<1>4. pc'[Idle] = "run" /\ \A u \in Thread : pc'[u] = "copying" <=> pc[u] = "copying"
  <2>1. pc[Idle] = "run" /\ Idle \in Thread
    BY KernelAssumption DEF IInv, HoldersCopy
  <2>2. CASE pc' = pc
    BY <2>1, <2>2
  <2>3. ASSUME NEW t \in Thread, t # Idle, pc[t] # "copying",
               NEW l \in PC, l # "copying", Goto(t, l)
        PROVE  pc'[Idle] = "run" /\ \A u \in Thread : pc'[u] = "copying" <=> pc[u] = "copying"
    BY <2>1, <2>3, Moved
  <2>. QED
    BY <1>3, <2>1, <2>2, <2>3
<1>. QED
  BY <1>1, <1>2, <1>4, FrameStep

\* Every step of every thread, interrupt handler and tick.
LEMMA NextStep ==
  ASSUME IInv, [Next]_vars
  PROVE  GoodStep
<1>1. TimeType /\ Times \subseteq Int /\ pc[Idle] = "run"
  BY MessageQueueAssumption DEF IInv, QueueType, HoldersCopy
<1>2. CASE UNCHANGED vars
  <2>1. k' = k /\ pc' = pc /\ UNCHANGED <<next, body, head, tail, free, entry, slot, op>> /\ left' = left /\ since' = since
    BY <1>2 DEF vars, mqVars, timeVars
  <2>2. ThreadInv' /\ Woken' = Woken
    BY <2>1 DEF IInv, ThreadInv, ThreadsOK, WaitersWait, CurrentReady, TopRuns, Waiting, Woken
  <2>3. NoStrandedMessage'
    BY <2>1, <2>2 DEF IInv, NoStrandedMessage, Waiters
  <2>. QED
    BY <1>1, <2>1, <2>2, <2>3, FrameStep DEF TimeType
<1>3. CASE TickStep
  <2>1. Tick /\ UNCHANGED <<next, body, head, tail, free, entry, slot, op>>
    BY <1>3 DEF TickStep
  <2>2. TimeType'
    BY <1>1, <1>3 DEF TickStep, TimeType
  <2>. QED
    BY <2>1, <2>2, KernelStep
<1>4. CASE FireStep
  BY <1>1, <1>4, KernelStep DEF FireStep, mqVars, timeVars, TimeType
<1>5. ASSUME NEW t \in Thread, RecvBegin(t) \/ RecvRetries(t) PROVE GoodStep
  <2>1. /\ t # Idle /\ Running(k, t) /\ pc[t] \in {"run", "back"} /\ Remaining(t) \in Int
        /\ \/ entry > 0 /\ TakeFirst(t)
           \/ \E time \in Int : RecvWait(t, time)
    BY <1>1, <1>5 DEF RecvBegin, RecvRetries, MayCall, Remaining, TimeType
  <2>. QED
    BY <2>1, TakeFirstStep, RecvWaitStep
<1>6. ASSUME NEW t \in Thread, Call(t) \/ Continue(t) PROVE GoodStep
  <2>1. CASE ThreadStep(t) /\ UNCHANGED mqVars
    BY <1>1, <2>1, KernelStep DEF mqVars, timeVars, TimeType
  <2>2. CASE ResetBegin(t)
    BY <1>1, <2>2, KernelStep DEF ResetBegin, mqVars, timeVars, TimeType
  <2>3. CASE ResetTurn(t)
    BY <1>1, <2>3, KernelStep DEF ResetTurn, mqVars, timeVars, TimeType
  <2>4. CASE SendBegin(t, "send") \/ SendBegin(t, "urgent")
    BY <2>4, SendBeginStep
  <2>. QED
    BY <1>5, <1>6, <2>1, <2>2, <2>3, <2>4, SendLinkStep, RecvFailsStep, RecvFreeStep, ResetEndStep
       DEF Call, Continue, ThreadStep
<1>7. ASSUME NEW o \in {"send", "urgent"}, IsrSend(o) PROVE GoodStep
  BY <1>7, IsrSendStep
<1>. QED
  BY <1>2, <1>3, <1>4, <1>6, <1>7 DEF Next

\* The inductive invariant holds in every behaviour of the queue.
THEOREM InductiveInvariant == Spec => []IInv
<1>1. Init => IInv
  BY InitInv
<1>2. IInv /\ [Next]_vars => IInv'
  BY NextStep DEF GoodStep
<1>. QED
  BY <1>1, <1>2, PTL DEF Spec

\* rt_mq_send, rt_mq_urgent, rt_mq_recv, the send of an interrupt handler, the
\* reset and the tick keep the threads and their lists consistent, and each
\* ends in the rt_schedule that its resumed threads need.
THEOREM KernelConsistentHolds == Spec => [](KernelConsistent /\ HighestRuns)
<1>1. IInv => KernelConsistent /\ HighestRuns
  BY DEF IInv, KernelConsistent, ThreadInv, ThreadsOK, TopRuns, HighestRuns
<1>. QED
  BY <1>1, InductiveInvariant, PTL

\* The two sections of rt_mq_send and of rt_mq_recv lose no slot and give none
\* to two threads, whatever other callers and interrupt handlers do between
\* them: the queue, the free list and the slots on their way are the pool.
THEOREM SlotsAccountedHolds == Spec => []SlotsAccounted
<1>1. IInv => SlotsAccounted
  BY Accounted DEF IInv
<1>. QED
  BY <1>1, InductiveInvariant, PTL

\* rt_mq_send resumes one receiver for every message, whatever the timeouts
\* and the retries of resumed receivers do in between.
THEOREM NoStrandedMessageHolds == Spec => []NoStrandedMessage
<1>1. IInv => NoStrandedMessage
  BY DEF IInv
<1>. QED
  BY <1>1, InductiveInvariant, PTL

\* The copy that rt_mq_recv makes with interrupts enabled is of a slot that no
\* sender writes before the last section of the call.
THEOREM CopyUndisturbedHolds == Spec => CopyUndisturbed
<1>1. IInv /\ [Next]_vars =>
        [\A t \in Thread :
           (pc[t] = "copying" /\ op[t] = "recv" /\ pc'[t] = "copying") =>
              body'[slot[t]] = body[slot[t]] /\ slot'[t] = slot[t]]_vars
  BY NextStep DEF GoodStep, CopyKept
<1>. QED
  BY <1>1, InductiveInvariant, PTL DEF Spec, CopyUndisturbed

-----------------------------------------------------------------------------
(* The linked slots implement a bounded queue. *)

\* The messages of a list of slots.
Content(b, c) == [i \in DOMAIN c |-> b[c[i]]]

LEMMA ContentElements ==
  ASSUME NEW b, NEW c, ListOfSlots(c), b \in [Slot -> Msg]
  PROVE  /\ Content(b, c) \in Seq(Msg) /\ Len(Content(b, c)) = Len(c)
         /\ \A i \in 1 .. Len(c) : Content(b, c)[i] = b[c[i]]
<1>1. c \in Seq(Slot) /\ Len(c) \in Nat /\ \A i \in 1 .. Len(c) : c[i] \in Slot
  BY Elements DEF ListOfSlots
<1>2. DOMAIN c = 1 .. Len(c)
  BY <1>1
<1>3. Content(b, c) \in [1 .. Len(c) -> Msg] /\ \A i \in 1 .. Len(c) : Content(b, c)[i] = b[c[i]]
  BY <1>1, <1>2 DEF Content
<1>. QED
  BY <1>1, <1>3

LEMMA Prepend ==
  ASSUME NEW S, NEW x \in S, NEW c \in Seq(S)
  PROVE  /\ <<x>> \o c \in Seq(S) /\ Len(<<x>> \o c) = Len(c) + 1
         /\ (<<x>> \o c)[1] = x
         /\ \A i \in 1 .. Len(c) : (<<x>> \o c)[i + 1] = c[i]
<1>. DEFINE r == <<x>> \o c
<1>1. c \in Seq(S) /\ Len(c) \in Nat /\ <<x>> \in Seq(S) /\ Len(<<x>>) = 1 /\ <<x>>[1] = x
  OBVIOUS
<1>2. /\ r \in Seq(S) /\ Len(r) = 1 + Len(c)
      /\ \A i \in 1 .. 1 + Len(c) : r[i] = IF i <= 1 THEN <<x>>[i] ELSE c[i - 1]
  BY <1>1, ConcatProperties
<1>. HIDE DEF r
<1>3. r[1] = x /\ Len(r) = Len(c) + 1 /\ \A i \in 1 .. Len(c) : r[i + 1] = c[i]
  BY <1>1, <1>2
<1>. QED
  BY <1>2, <1>3 DEF r

\* Two lists of messages are equal when their messages are.
LEMMA SameMessages ==
  ASSUME NEW c \in Seq(Msg), NEW d \in Seq(Msg), Len(c) = Len(d),
         \A i \in 1 .. Len(d) : c[i] = d[i]
  PROVE  c = d
BY SeqEqual

LEMMA ContentAppend ==
  ASSUME NEW b, NEW c, ListOfSlots(c), b \in [Slot -> Msg],
         NEW s \in Slot, s \notin Range(c), NEW m \in Msg
  PROVE  /\ Content([b EXCEPT ![s] = m], Append(c, s)) = Append(Content(b, c), m)
         /\ Content([b EXCEPT ![s] = m], <<s>> \o c) = <<m>> \o Content(b, c)
<1>. DEFINE n == Len(c)
            d == [b EXCEPT ![s] = m]
            A == Append(c, s)
            P == <<s>> \o c
            C == Content(b, c)
            E == Append(C, m)
            G == <<m>> \o C
<1>1. /\ c \in Seq(Slot) /\ n \in Nat
      /\ \A i \in 1 .. n : c[i] \in Slot /\ c[i] # s
      /\ C \in Seq(Msg) /\ Len(C) = n /\ \A i \in 1 .. n : C[i] = b[c[i]]
  BY Elements, ContentElements DEF ListOfSlots
<1>2. d \in [Slot -> Msg] /\ d[s] = m /\ \A r \in Slot : r # s => d[r] = b[r]
  OBVIOUS
<1>3. /\ A \in Seq(Slot) /\ Len(A) = n + 1 /\ A[n + 1] = s /\ \A i \in 1 .. n : A[i] = c[i]
      /\ E \in Seq(Msg) /\ Len(E) = n + 1 /\ E[n + 1] = m /\ \A i \in 1 .. n : E[i] = C[i]
      /\ ListOfSlots(A)
  <2>. HIDE DEF C
  <2>1. /\ A \in Seq(Slot) /\ Len(A) = n + 1 /\ A[n + 1] = s /\ \A i \in 1 .. n : A[i] = c[i]
        /\ E \in Seq(Msg) /\ Len(E) = n + 1 /\ E[n + 1] = m /\ \A i \in 1 .. n : E[i] = C[i]
    BY <1>1, AppendProperties
  <2>2. \A i, j \in 1 .. n : c[i] = c[j] => i = j
    BY <1>1 DEF ListOfSlots, IsInjective
  <2>. HIDE DEF A, E, n
  <2>3. ASSUME NEW i \in 1 .. Len(A), NEW j \in 1 .. Len(A), A[i] = A[j]
        PROVE  i = j
    <3>1. /\ i = n + 1 \/ i \in 1 .. n
          /\ j = n + 1 \/ j \in 1 .. n
      BY <1>1, <2>1
    <3>. QED
      BY <1>1, <2>1, <2>2, <2>3, <3>1
  <2>4. ListOfSlots(A)
    BY <2>1, <2>3 DEF ListOfSlots, IsInjective
  <2>. QED
    BY <2>1, <2>4
<1>4. /\ ListOfSlots(P) /\ Len(P) = n + 1 /\ P[1] = s /\ \A i \in 1 .. n : P[i + 1] = c[i]
      /\ G \in Seq(Msg) /\ Len(G) = n + 1 /\ G[1] = m /\ \A i \in 1 .. n : G[i + 1] = C[i]
  <2>. HIDE DEF C
  <2>1. /\ ListOfSlots(P) /\ Len(P) = n + 1 /\ P[1] = s /\ \A i \in 1 .. n : P[i + 1] = c[i]
    BY PushList
  <2>2. /\ G \in Seq(Msg) /\ Len(G) = n + 1 /\ G[1] = m /\ \A i \in 1 .. n : G[i + 1] = C[i]
    BY <1>1, Prepend
  <2>. QED
    BY <2>1, <2>2
<1>. HIDE DEF n, d, A, P, C, E, G
<1>5. Content(d, A) = E
  <2>1. /\ Content(d, A) \in Seq(Msg) /\ Len(Content(d, A)) = n + 1
        /\ \A i \in 1 .. n + 1 : Content(d, A)[i] = d[A[i]]
    BY <1>2, <1>3, ContentElements
  <2>2. ASSUME NEW i \in 1 .. n + 1 PROVE d[A[i]] = E[i]
    <3>1. CASE i = n + 1
      BY <1>2, <1>3, <3>1
    <3>2. CASE i # n + 1
      <4>1. i \in 1 .. n
        BY <1>1, <3>2
      <4>. QED
        BY <1>1, <1>2, <1>3, <4>1
    <3>. QED
      BY <3>1, <3>2
  <2>. QED
    BY <1>3, <2>1, <2>2, SameMessages
<1>6. Content(d, P) = G
  <2>1. /\ Content(d, P) \in Seq(Msg) /\ Len(Content(d, P)) = n + 1
        /\ \A i \in 1 .. n + 1 : Content(d, P)[i] = d[P[i]]
    BY <1>2, <1>4, ContentElements
  <2>2. ASSUME NEW i \in 1 .. n + 1 PROVE d[P[i]] = G[i]
    <3>1. CASE i = 1
      BY <1>2, <1>4, <3>1
    <3>2. CASE i # 1
      <4>. DEFINE j == i - 1
      <4>1. j \in 1 .. n /\ j + 1 = i
        BY <1>1, <3>2
      <4>. HIDE DEF j
      <4>2. P[j + 1] = c[j] /\ G[j + 1] = C[j] /\ c[j] \in Slot /\ c[j] # s /\ C[j] = b[c[j]]
        BY <1>1, <1>4, <4>1
      <4>. QED
        BY <1>2, <4>1, <4>2
    <3>. QED
      BY <3>1, <3>2
  <2>. QED
    BY <1>4, <2>1, <2>2, SameMessages
<1>. QED
  BY <1>5, <1>6 DEF d, A, P, C, E, G

LEMMA ContentTail ==
  ASSUME NEW b, NEW c, ListOfSlots(c), b \in [Slot -> Msg], c # << >>
  PROVE  Content(b, c) # << >> /\ Content(b, Tail(c)) = Tail(Content(b, c))
<1>. DEFINE n == Len(c) - 1
            T == Tail(c)
            C == Content(b, c)
            E == Tail(C)
<1>1. /\ c \in Seq(Slot) /\ Len(c) \in Nat /\ n \in Nat /\ Len(c) = n + 1
      /\ C \in Seq(Msg) /\ Len(C) = n + 1 /\ \A i \in 1 .. n + 1 : C[i] = b[c[i]]
  <2>1. /\ c \in Seq(Slot) /\ Len(c) \in Nat
        /\ C \in Seq(Msg) /\ Len(C) = Len(c) /\ \A i \in 1 .. Len(c) : C[i] = b[c[i]]
    BY Elements, ContentElements DEF ListOfSlots
  <2>2. Len(c) # 0
    BY <2>1, EmptySeq
  <2>3. n \in Nat /\ n + 1 = Len(c)
    BY <2>1, <2>2
  <2>. HIDE DEF n, C
  <2>. QED
    BY <2>1, <2>3
<1>. HIDE DEF n, C
<1>2. C # << >>
  BY <1>1, EmptySeq
<1>3. /\ ListOfSlots(T) /\ Len(T) = n /\ \A i \in 1 .. n : T[i] = c[i + 1]
  <2>1. ListOfSlots(T) /\ Len(T) = Len(c) - 1
    BY TailList
  <2>2. \A i \in 1 .. Len(c) - 1 : T[i] = c[i + 1]
    BY <1>1, HeadTailProperties
  <2>. QED
    BY <2>1, <2>2 DEF n
<1>4. /\ E \in Seq(Msg) /\ Len(E) = n /\ \A i \in 1 .. n : E[i] = C[i + 1]
  <2>1. n + 1 - 1 = n
    BY <1>1
  <2>. QED
    BY <1>1, <1>2, <2>1, HeadTailProperties
<1>. HIDE DEF T, E
<1>5. /\ Content(b, T) \in Seq(Msg) /\ Len(Content(b, T)) = n
      /\ \A i \in 1 .. n : Content(b, T)[i] = b[T[i]]
  BY <1>3, ContentElements
<1>6. ASSUME NEW i \in 1 .. n PROVE Content(b, T)[i] = E[i]
  <2>1. i + 1 \in 1 .. n + 1
    BY <1>1
  <2>. QED
    BY <1>1, <1>3, <1>4, <1>5, <2>1
<1>7. Content(b, T) = E
  BY <1>4, <1>5, <1>6, SameMessages
<1>. QED
  BY <1>2, <1>7 DEF T, C, E

\* A slot that is not queued leaves room for its message.
LEMMA RoomForSlot ==
  ASSUME NEW c, ListOfSlots(c), NEW s \in Slot, s \notin Range(c)
  PROVE  Len(c) < Cardinality(Slot)
<1>1. Range(c) \subseteq Slot \ {s}
  BY ListRange DEF ListOfSlots
<1>2. /\ IsFiniteSet(Slot \ {s}) /\ Cardinality(Slot \ {s}) = Cardinality(Slot) - 1
  BY SlotsFinite, FS_RemoveElement
<1>3. Cardinality(Range(c)) <= Cardinality(Slot) - 1 /\ Cardinality(Range(c)) = Len(c)
  BY <1>1, <1>2, FS_Subset, ListCount
<1>. QED
  BY <1>3, SlotsFinite, Elements DEF ListOfSlots

\* rt_mq_send, rt_mq_urgent, rt_mq_recv and the reset implement a bounded
\* queue with urgent messages: the sections of the calls may interleave, and
\* every message still comes out once and in its place.
THEOREM Implementation == Spec => ImplementsFifo
<1>. DEFINE q == [i \in DOMAIN Chain(head) |-> body[Chain(head)[i]]]
<1>1. q = Content(body, Chain(head)) /\ q' = Content(body', Chain(head)')
  BY DEF Content
<1>2. Init => Queue!Init
  <2>. SUFFICES ASSUME Init PROVE q = << >>
    BY DEF Queue!Init
  <2>1. IInv /\ entry = 0
    BY InitInv DEF Init
  <2>2. Chain(head) = << >>
    BY <2>1, WholeStart DEF IInv, PoolWhole
  <2>. QED
    BY <2>2
<1>3. IInv => ListOfSlots(Chain(head)) /\ body \in [Slot -> Msg]
  BY DEF IInv, PoolWhole, Whole, QueueType
<1>. HIDE DEF q
<1>4. IInv /\ [Next]_vars => [Queue!Next]_q
  <2>. SUFFICES ASSUME IInv, [Next]_vars PROVE [Queue!Next]_q
    OBVIOUS
  <2>. DEFINE c == Chain(head)
  <2>1. ListOfSlots(c) /\ body \in [Slot -> Msg] /\ FifoStep /\ q = Content(body, c)
    BY <1>1, <1>3, NextStep DEF GoodStep
  <2>2. ASSUME NEW s \in Slot, NEW m \in Msg, Gained(s, m) PROVE Queue!Next
    <3>1. /\ s \notin Range(c) /\ body' = [body EXCEPT ![s] = m]
          /\ \/ m \in Normal /\ Chain(head)' = Append(c, s)
             \/ m \in Urgent /\ Chain(head)' = <<s>> \o c
      BY <2>2 DEF Gained
    <3>. HIDE DEF c
    <3>2. Len(q) < Cardinality(Slot)
      BY <2>1, <3>1, RoomForSlot, ContentElements
    <3>3. \/ m \in Normal /\ q' = Append(q, m)
          \/ m \in Urgent /\ q' = <<m>> \o q
      <4>. DEFINE b == [body EXCEPT ![s] = m]
      <4>1. /\ Content(b, Append(c, s)) = Append(q, m)
            /\ Content(b, <<s>> \o c) = <<m>> \o q
        <5>. DEFINE C == Content(body, c)
        <5>1. ListOfSlots(c) /\ body \in [Slot -> Msg] /\ s \notin Range(c) /\ q = C
          BY <2>1, <3>1
        <5>2. Content(b, Append(c, s)) = Append(C, m) /\ Content(b, <<s>> \o c) = <<m>> \o C
          <6>1. ListOfSlots(c) /\ body \in [Slot -> Msg] /\ s \notin Range(c)
            BY <5>1
          <6>. QED
            BY <6>1, ContentAppend, Zenon
        <5>. HIDE DEF C
        <5>. QED
          BY <5>1, <5>2
      <4>2. body' = b
        BY <3>1
      <4>. HIDE DEF b
      <4>3. CASE m \in Normal /\ Chain(head)' = Append(c, s)
        BY <1>1, <4>1, <4>2, <4>3
      <4>4. CASE m \in Urgent /\ Chain(head)' = <<s>> \o c
        BY <1>1, <4>1, <4>2, <4>4
      <4>. QED
        BY <3>1, <4>3, <4>4
    <3>. QED
      BY <3>2, <3>3 DEF Queue!Next, Queue!Put, Queue!PutFirst, q
  <2>3. CASE c # << >> /\ Chain(head)' = Tail(c) /\ body' = body
    <3>. HIDE DEF c
    <3>1. q # << >> /\ q' = Tail(q)
      BY <1>1, <2>1, <2>3, ContentTail
    <3>. QED
      BY <3>1 DEF Queue!Next, Queue!Get, q
  <2>4. CASE Chain(head)' = << >>
    <3>1. q' = << >>
      BY <1>1, <2>4 DEF Content
    <3>. QED
      BY <3>1 DEF Queue!Next, Queue!Clear, q
  <2>5. CASE Chain(head)' = c /\ body' = body
    BY <1>1, <2>5
  <2>. QED
    BY <2>1, <2>2, <2>3, <2>4, <2>5 DEF FifoStep
<1>. QED
  BY <1>2, <1>4, InductiveInvariant, PTL DEF Spec, ImplementsFifo, Queue!Spec, q
=============================================================================
