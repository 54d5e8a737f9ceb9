----------------------------- MODULE HeapProofs -----------------------------
(***************************************************************************)
(* The structure of the heap for every size, header, alignment, set of     *)
(* requests and number of threads: the chain of headers is whole, no two   *)
(* free blocks are side by side, lfree leads to a free block, and what     *)
(* callers hold are areas apart from each other, as long as they asked     *)
(* for unless that wrapped when it was aligned.  What makes that inductive is that the chain can also be followed  *)
(* backwards, that the used blocks are those callers hold, and that two    *)
(* threads inside rt_realloc never mean the same block.                    *)
(***************************************************************************)
EXTENDS Heap, FiniteSetTheorems, TLAPS

Header == [used : BOOLEAN, next : Nat, prev : Nat]

Mems == UNION {[D -> Header] : D \in SUBSET (0 .. End)}
HeapType == [mem : Mems, lfree : Nat]

Ends(m) == {0, End} \subseteq DOMAIN m /\ m[End].used /\ m[0].prev = 0

\* Each block ends where the next one starts.
Forth(m) ==
    \A p \in DOMAIN m \ {End} :
        /\ m[p].next \in DOMAIN m
        /\ p + Hdr <= m[p].next
        /\ \A q \in DOMAIN m : q <= p \/ q >= m[p].next

\* prev undoes next, and next undoes prev.
Back(m) ==
    /\ \A p \in DOMAIN m \ {End} : m[p].next # End => m[m[p].next].prev = p
    /\ \A p \in DOMAIN m \ {0, End} :
          m[p].prev \in DOMAIN m \ {End} /\ m[m[p].prev].next = p

Chain(m) == m \in Mems /\ Ends(m) /\ Forth(m) /\ Back(m)

\* No two free blocks are side by side, unless block p is one of them.
TightBut(m, p) ==
    \A x \in DOMAIN m \ {End} : m[x].used \/ m[m[x].next].used \/ x = p \/ m[x].next = p

Tight(m) == \A x \in DOMAIN m \ {End} : m[x].used \/ m[m[x].next].used

LfreeOK(h) == h.lfree \in DOMAIN h.mem /\ (h.lfree = End \/ ~ h.mem[h.lfree].used)

Used(m) == {x \in DOMAIN m : m[x].used}

\* The blocks of m1 that are used lead on where they did in m.
Keep(m, m1) == \A x \in Used(m) \cap Used(m1) : m1[x].next = m[x].next

Held == Used(heap.mem) \ {End} = DOMAIN asked

\* What rt_malloc is asked for, also by rt_realloc.
Sizes == Requests \cup {Aligned(n) : n \in Requests}

\* The blocks are as long as was asked for.
Fits ==
    /\ asked \in [DOMAIN asked -> Sizes]
    /\ \A p \in DOMAIN asked : Promised(asked[p]) <= Room(heap.mem, p)

\* The bytes the blocks of D take, headers included.
Bytes(m, D) == UNION {p .. m[p].next - 1 : p \in D}

\* used_mem counts the bytes of the blocks that are held.
Counted == used_mem = Cardinality(Bytes(heap.mem, DOMAIN asked))

\* Blocks inside rt_realloc are held, and by one caller each.
MoveOK ==
    /\ move \in [Caller -> [from : Nat \cup {NoBlock}, size : Nat, to : Nat \cup {NoBlock}]]
    /\ \A t \in Caller : {move[t].from, move[t].to} \subseteq DOMAIN asked \cup {NoBlock}
    /\ \A t \in Caller : move[t].from # NoBlock => move[t].size \in Requests
    /\ \A t \in Caller : move[t].to # NoBlock => move[t].from # NoBlock
    /\ \A t, u \in Caller : t # u =>
          {move[t].from, move[t].to} \cap {move[u].from, move[u].to} \subseteq {NoBlock}

Sound(h) == h \in HeapType /\ Chain(h.mem) /\ LfreeOK(h)

IInv == Sound(heap) /\ Tight(heap.mem) /\ Held /\ Fits /\ Counted /\ MoveOK

USE HeapAssumption DEF End

-----------------------------------------------------------------------------
(* Headers. *)

LEMMA MemType ==
  ASSUME NEW m
  PROVE  m \in Mems <=> DOMAIN m \subseteq 0 .. End /\ m \in [DOMAIN m -> Header]
  BY DEF Mems

LEMMA AlignedNat ==
  ASSUME NEW n \in Nat
  PROVE  Aligned(n) \in Nat /\ Promised(n) \in Nat /\ Promised(n) <= Aligned(n)
<1> DEFINE x == (n + AlignSize - 1) % SizeMod
           d == x \div AlignSize
<1>1. n + AlignSize - 1 \in Nat /\ SizeMod \in Nat \ {0}
  BY WidthAssumption
<1>2. x \in Nat /\ (n + AlignSize - 1 < SizeMod => x = n + AlignSize - 1)
  BY <1>1, Z3
<1>0. Aligned(n) = d * AlignSize
  BY DEF Aligned
<1> HIDE DEF x
<1>3. d \in Nat /\ x < d * AlignSize + AlignSize
  BY <1>2, Z3
<1> QED
  BY <1>0, <1>1, <1>2, <1>3 DEF Promised

LEMMA SizesNat == Sizes \subseteq Nat
  BY AlignedNat DEF Sizes

LEMMA RoundedNat ==
  ASSUME NEW n \in Nat
  PROVE  Rounded(n) \in Nat /\ Promised(n) \in Nat /\ Promised(n) <= Rounded(n)
  BY AlignedNat DEF Rounded

\* What Join does, header by header.
LEMMA JoinFacts ==
  ASSUME NEW h \in HeapType, Chain(h.mem), NEW p \in DOMAIN h.mem \ {End},
         NEW n, n = h.mem[p].next, n # End,
         NEW j, j = Join(h, p)
  PROVE  /\ n \in DOMAIN h.mem \ {p} /\ h.mem[n].next \in DOMAIN h.mem
         /\ j \in HeapType /\ DOMAIN j.mem = DOMAIN h.mem \ {n}
         /\ j.lfree = (IF h.lfree = n THEN p ELSE h.lfree)
         /\ \A x \in DOMAIN j.mem :
              /\ j.mem[x].used = h.mem[x].used
              /\ j.mem[x].next = (IF x = p THEN h.mem[n].next ELSE h.mem[x].next)
              /\ j.mem[x].prev =
                   (IF x # p /\ x = h.mem[n].next /\ x # End THEN p ELSE h.mem[x].prev)
<1> DEFINE m == h.mem
           nx == m[n].next
<1>1. /\ m \in Mems /\ DOMAIN m \subseteq Nat /\ m \in [DOMAIN m -> Header]
      /\ p \in DOMAIN m \ {End} /\ p \in Nat
  BY MemType DEF HeapType, Chain
<1>2. n \in DOMAIN m \ {p} /\ nx \in DOMAIN m /\ nx \in Nat
  BY <1>1 DEF Chain, Forth
<1>3. j.mem = [x \in DOMAIN m \ {n} |->
                    CASE x = p -> [m[p] EXCEPT !.next = nx]
                      [] x = nx /\ nx # End -> [m[nx] EXCEPT !.prev = p]
                      [] OTHER -> m[x]]
      /\ j.lfree = (IF h.lfree = n THEN p ELSE h.lfree)
      /\ j = [mem |-> j.mem, lfree |-> j.lfree]
  <2> DEFINE e == [x \in DOMAIN m \ {n} |->
                    CASE x = p -> [m[p] EXCEPT !.next = nx]
                      [] x = nx /\ nx # End -> [m[nx] EXCEPT !.prev = p]
                      [] OTHER -> m[x]]
             f == IF h.lfree = n THEN p ELSE h.lfree
  <2>1. j = [mem |-> e, lfree |-> f]
    BY SMTT(60) DEF Join
  <2> HIDE DEF e, f
  <2>2. j.mem = e /\ j.lfree = f
    BY <2>1
  <2>3. j = [mem |-> j.mem, lfree |-> j.lfree]
    BY <2>1, <2>2
  <2> QED
    BY <2>2, <2>3, Zenon DEF e, f
<1> HIDE DEF m, nx
<1>4. p # nx
  BY <1>1, <1>2 DEF Chain, Forth, m, nx
<1>5. DOMAIN j.mem = DOMAIN m \ {n}
  BY <1>3
<1>6. ASSUME NEW x \in DOMAIN m \ {n}
      PROVE  /\ j.mem[x] \in Header
             /\ j.mem[x].used = m[x].used
             /\ j.mem[x].next = (IF x = p THEN nx ELSE m[x].next)
             /\ j.mem[x].prev = (IF x # p /\ x = nx /\ x # End THEN p ELSE m[x].prev)
  <2>1. m[x] \in Header /\ m[p] \in Header /\ m[nx] \in Header
    BY <1>1, <1>2
  <2>2. CASE x = p
    <3>1. j.mem[x] = [m[p] EXCEPT !.next = nx]
      BY <2>2, <1>3, <1>4
    <3> QED
      BY <3>1, <2>1, <2>2, <1>2 DEF Header
  <2>3. CASE x # p /\ x = nx /\ nx # End
    <3>1. j.mem[x] = [m[nx] EXCEPT !.prev = p]
      BY <2>3, <1>3
    <3> QED
      BY <3>1, <2>1, <2>3, <1>1 DEF Header
  <2>4. CASE x # p /\ ~ (x = nx /\ nx # End)
    <3>1. j.mem[x] = m[x]
      BY <2>4, <1>3
    <3> QED
      BY <3>1, <2>1, <2>4
  <2> QED
    BY <2>2, <2>3, <2>4
<1>7. j.mem \in [DOMAIN j.mem -> Header]
  BY <1>3, <1>5, <1>6
<1>8. j.mem \in Mems /\ j.lfree \in Nat
  <2>1. DOMAIN j.mem \subseteq 0 .. End
    BY <1>1, <1>5, MemType
  <2> QED
    BY <2>1, <1>7, <1>3, <1>1, MemType DEF HeapType
<1>9. j \in HeapType
  BY <1>3, <1>8 DEF HeapType
<1>10. n \in DOMAIN m \ {p} /\ nx \in DOMAIN m
  BY <1>2
<1>11. \A x \in DOMAIN j.mem :
          /\ j.mem[x].used = m[x].used
          /\ j.mem[x].next = (IF x = p THEN nx ELSE m[x].next)
          /\ j.mem[x].prev = (IF x # p /\ x = nx /\ x # End THEN p ELSE m[x].prev)
  BY <1>5, <1>6
<1>12. j.lfree = (IF h.lfree = n THEN p ELSE h.lfree)
  BY <1>3
<1> QED
  BY <1>5, <1>9, <1>10, <1>11, <1>12 DEF m, nx

\* Two neighbours that are merged leave the chain whole.
LEMMA JoinChain ==
  ASSUME NEW h \in HeapType, Chain(h.mem), NEW p \in DOMAIN h.mem \ {End},
         h.mem[p].next # End
  PROVE  Chain(Join(h, p).mem)
<1> DEFINE n == h.mem[p].next
           nx == h.mem[n].next
           j == Join(h, p)
           D == DOMAIN h.mem
<1> HIDE DEF n, nx, j, D
<1>1. /\ n \in D \ {p, End} /\ nx \in D /\ p \in D \ {End}
      /\ j \in HeapType /\ DOMAIN j.mem = D \ {n}
      /\ \A x \in D \ {n} :
            /\ j.mem[x].used = h.mem[x].used
            /\ j.mem[x].next = (IF x = p THEN nx ELSE h.mem[x].next)
            /\ j.mem[x].prev = (IF x # p /\ x = nx /\ x # End THEN p ELSE h.mem[x].prev)
  BY JoinFacts DEF n, nx, j, D
<1>2. D \subseteq Nat
  BY MemType DEF Chain, D
<1>3. /\ {0, End} \subseteq D /\ h.mem[End].used /\ h.mem[0].prev = 0
      /\ \A x \in D \ {End} : /\ h.mem[x].next \in D /\ x + Hdr <= h.mem[x].next
                              /\ \A q \in D : q <= x \/ q >= h.mem[x].next
      /\ \A x \in D \ {End} : h.mem[x].next # End => h.mem[h.mem[x].next].prev = x
      /\ \A x \in D \ {0, End} : h.mem[x].prev \in D \ {End} /\ h.mem[h.mem[x].prev].next = x
  BY DEF Chain, Ends, Forth, Back, D
<1>4. n = h.mem[p].next /\ nx = h.mem[n].next
  BY DEF n, nx
<1>5. p + Hdr <= n /\ n + Hdr <= nx /\ n # 0 /\ nx \notin {p, n}
  <2>1. p \in Nat /\ n \in Nat /\ nx \in Nat
    BY <1>1, <1>2
  <2>2. p + Hdr <= n
    BY <1>1, <1>3, <1>4
  <2>3. n + Hdr <= nx
    BY <1>1, <1>3, <1>4
  <2> QED
    BY <2>1, <2>2, <2>3
<1>6. Ends(j.mem)
  BY <1>1, <1>2, <1>3, <1>5 DEF Ends
<1>7. Forth(j.mem)
  <2> SUFFICES ASSUME NEW x \in D \ {n, End}
               PROVE  /\ j.mem[x].next \in D \ {n} /\ x + Hdr <= j.mem[x].next
                      /\ \A q \in D \ {n} : q <= x \/ q >= j.mem[x].next
    BY <1>1 DEF Forth
  <2>1. CASE x = p
    <3>1. j.mem[x].next = nx /\ nx \in D \ {n} /\ x \in Nat /\ n \in Nat /\ nx \in Nat
      <4>1. x \in Nat /\ n \in Nat /\ nx \in Nat
        BY <1>1, <1>2
      <4> QED
        BY <4>1, <2>1, <1>1, <1>5
    <3>2. ASSUME NEW q \in D \ {n}
          PROVE  q <= x \/ q >= nx
      <4>1. (q <= p \/ q >= n) /\ (q <= n \/ q >= nx)
        BY <1>1, <1>3, <1>4
      <4>2. q \in Nat /\ q # n /\ x \in Nat /\ n \in Nat /\ nx \in Nat
        BY <3>1, <1>2
      <4> QED
        BY <4>1, <4>2, <2>1
    <3> QED
      BY <3>1, <3>2, <2>1, <1>5
  <2>2. CASE x # p
    <3>1. h.mem[x].next # n
      BY <2>2, <1>1, <1>3, <1>4
    <3> QED
      BY <3>1, <2>2, <1>1, <1>2, <1>3
  <2> QED
    BY <2>1, <2>2
<1>8. Back(j.mem)
  <2>1. ASSUME NEW x \in D \ {n, End}, j.mem[x].next # End
        PROVE  j.mem[j.mem[x].next].prev = x
    <3>1. CASE x = p
      <4>1. j.mem[x].next = nx /\ nx \in D \ {n} /\ nx # End
        BY <3>1, <2>1, <1>1, <1>5
      <4> QED
        BY <4>1, <3>1, <1>1, <1>5
    <3>2. CASE x # p
      <4>1. h.mem[x].next \in D /\ h.mem[x].next # End /\ h.mem[h.mem[x].next].prev = x
        BY <3>2, <2>1, <1>1, <1>3
      <4>2. h.mem[n].prev = p /\ (nx # End => h.mem[nx].prev = n)
        BY <1>1, <1>3, <1>4
      <4>3. h.mem[x].next # n /\ h.mem[x].next # nx
        BY <4>1, <4>2, <3>2, <2>1
      <4> QED
        BY <4>1, <4>3, <3>2, <2>1, <1>1
    <3> QED
      BY <3>1, <3>2
  <2>2. ASSUME NEW x \in D \ {n, 0, End}
        PROVE  j.mem[x].prev \in D \ {n, End} /\ j.mem[j.mem[x].prev].next = x
    <3>1. CASE x = nx
      <4>1. x # p /\ p # n
        BY <3>1, <1>1, <1>5
      <4> QED
        BY <4>1, <3>1, <2>2, <1>1
    <3>2. CASE x # nx
      <4>1. h.mem[x].prev # n /\ h.mem[x].prev \in D \ {End} /\ h.mem[h.mem[x].prev].next = x
        BY <3>2, <2>2, <1>3, <1>4
      <4>2. h.mem[x].prev # p
        <5>1. h.mem[p].next = n /\ x # n
          BY <2>2, <1>4
        <5> QED
          BY <4>1, <5>1
      <4> QED
        BY <4>1, <4>2, <3>2, <2>2, <1>1
    <3> QED
      BY <3>1, <3>2
  <2> QED
    BY <2>1, <2>2, <1>1 DEF Back
<1> QED
  BY <1>1, <1>6, <1>7, <1>8 DEF Chain, HeapType, j

\* What Split does, header by header.
LEMMA SplitFacts ==
  ASSUME NEW h \in HeapType, Chain(h.mem), NEW p \in DOMAIN h.mem \ {End}, NEW l \in Nat,
         p + Hdr + l + Hdr <= h.mem[p].next,
         NEW q, q = p + Hdr + l,
         NEW j, j = Split(h, p, l)
  PROVE  /\ p < q /\ q < h.mem[p].next /\ q \in Nat /\ q \notin DOMAIN h.mem
         /\ h.mem[p].next \in DOMAIN h.mem
         /\ j \in HeapType /\ DOMAIN j.mem = DOMAIN h.mem \cup {q}
         /\ j.lfree = h.lfree
         /\ j.mem[q] = [used |-> FALSE, next |-> h.mem[p].next, prev |-> p]
         /\ \A x \in DOMAIN h.mem :
              /\ j.mem[x].used = h.mem[x].used
              /\ j.mem[x].next = (IF x = p THEN q ELSE h.mem[x].next)
              /\ j.mem[x].prev =
                   (IF x = h.mem[p].next /\ x # End THEN q ELSE h.mem[x].prev)
<1> DEFINE m == h.mem
           nx == m[p].next
<1>1. /\ m \in Mems /\ DOMAIN m \subseteq Nat /\ m \in [DOMAIN m -> Header]
      /\ p \in DOMAIN m \ {End} /\ p \in Nat
  BY MemType DEF HeapType, Chain
<1>2. /\ nx \in DOMAIN m /\ nx \in Nat
      /\ \A x \in DOMAIN m : x <= p \/ x >= nx
  BY <1>1 DEF Chain, Forth
<1>3. j.mem = [x \in DOMAIN m \cup {q} |->
                  CASE x = q -> [used |-> FALSE, next |-> nx, prev |-> p]
                    [] x = p -> [m[p] EXCEPT !.next = q]
                    [] x = nx /\ nx # End -> [m[nx] EXCEPT !.prev = q]
                    [] OTHER -> m[x]]
      /\ j.lfree = h.lfree
      /\ j = [mem |-> j.mem, lfree |-> j.lfree]
  <2>1. h = [mem |-> h.mem, lfree |-> h.lfree]
    BY DEF HeapType
  <2>2. j = [h EXCEPT !.mem =
               [x \in DOMAIN @ \cup {q} |->
                  CASE x = q -> [used |-> FALSE, next |-> nx, prev |-> p]
                    [] x = p -> [@[p] EXCEPT !.next = q]
                    [] x = nx /\ nx # End -> [@[nx] EXCEPT !.prev = q]
                    [] OTHER -> @[x]]]
    BY DEF Split
  <2> DEFINE e == [x \in DOMAIN m \cup {q} |->
                  CASE x = q -> [used |-> FALSE, next |-> nx, prev |-> p]
                    [] x = p -> [m[p] EXCEPT !.next = q]
                    [] x = nx /\ nx # End -> [m[nx] EXCEPT !.prev = q]
                    [] OTHER -> m[x]]
  <2>3. j = [h EXCEPT !.mem = e]
    BY ONLY <2>2
  <2> HIDE DEF e
  <2>4. j = [mem |-> e, lfree |-> h.lfree]
    BY <2>1, <2>3
  <2>5. j.mem = e /\ j.lfree = h.lfree /\ j = [mem |-> j.mem, lfree |-> j.lfree]
    BY <2>4
  <2> QED
    BY <2>5 DEF e
<1> HIDE DEF m, nx
<1>4. p < q /\ q < nx /\ q \in Nat
  BY <1>1, <1>2 DEF m, nx
<1>5. q \notin DOMAIN m
  BY <1>1, <1>2, <1>4
<1>6. DOMAIN j.mem = DOMAIN m \cup {q}
  BY <1>3
<1>7. j.mem[q] = [used |-> FALSE, next |-> nx, prev |-> p]
  BY <1>3, <1>4, <1>5, <1>1, <1>2
<1>8. ASSUME NEW x \in DOMAIN m
      PROVE  /\ j.mem[x] \in Header
             /\ j.mem[x].used = m[x].used
             /\ j.mem[x].next = (IF x = p THEN q ELSE m[x].next)
             /\ j.mem[x].prev = (IF x = nx /\ x # End THEN q ELSE m[x].prev)
  <2>1. m[x] \in Header /\ m[p] \in Header /\ m[nx] \in Header /\ x # q /\ p # nx
    BY <1>1, <1>2, <1>4, <1>5
  <2>2. CASE x = p
    <3>1. j.mem[x] = [m[p] EXCEPT !.next = q]
      BY <2>1, <2>2, <1>3
    <3> QED
      BY <3>1, <2>1, <2>2, <1>4 DEF Header
  <2>3. CASE x = nx /\ nx # End
    <3>1. j.mem[x] = [m[nx] EXCEPT !.prev = q]
      BY <2>1, <2>3, <1>3
    <3> QED
      BY <3>1, <2>1, <2>3, <1>4 DEF Header
  <2>4. CASE x # p /\ ~ (x = nx /\ nx # End)
    <3>1. j.mem[x] = m[x]
      BY <2>1, <2>4, <1>3
    <3> QED
      BY <3>1, <2>1, <2>4
  <2> QED
    BY <2>2, <2>3, <2>4
<1>9. j \in HeapType
  <2>1. j.mem[q] \in Header
    BY <1>7, <1>1, <1>2 DEF Header
  <2>2. j.mem \in [DOMAIN j.mem -> Header]
    BY <1>3, <1>6, <1>8, <2>1
  <2>3. DOMAIN j.mem \subseteq 0 .. End
    <3>1. DOMAIN m \subseteq 0 .. End
      BY <1>1, MemType
    <3>2. q \in 0 .. End
      BY <3>1, <1>2, <1>4
    <3> QED
      BY <3>1, <3>2, <1>6
  <2>4. j.mem \in Mems /\ j.lfree \in Nat
    BY <2>2, <2>3, <1>3, MemType DEF HeapType
  <2> QED
    BY <2>4, <1>3 DEF HeapType
<1> QED
  BY <1>2, <1>3, <1>4, <1>5, <1>6, <1>7, <1>8, <1>9 DEF m, nx

\* A block that is split leaves the chain whole.
LEMMA SplitChain ==
  ASSUME NEW h \in HeapType, Chain(h.mem), NEW p \in DOMAIN h.mem \ {End}, NEW l \in Nat,
         p + Hdr + l + Hdr <= h.mem[p].next
  PROVE  Chain(Split(h, p, l).mem)
<1> DEFINE q == p + Hdr + l
           nx == h.mem[p].next
           j == Split(h, p, l)
           D == DOMAIN h.mem
<1>0. nx - q >= Hdr /\ q - p >= Hdr
  <2>1. p \in Nat /\ nx \in Nat
    BY MemType DEF Chain, Forth
  <2> QED
    BY <2>1
<1> HIDE DEF q, nx, j, D
<1>1. /\ p < q /\ q < nx /\ q \in Nat /\ q \notin D /\ nx \in D /\ p \in D \ {End}
      /\ j \in HeapType /\ DOMAIN j.mem = D \cup {q}
      /\ j.mem[q].next = nx /\ j.mem[q].prev = p
      /\ \A x \in D :
            /\ j.mem[x].used = h.mem[x].used
            /\ j.mem[x].next = (IF x = p THEN q ELSE h.mem[x].next)
            /\ j.mem[x].prev = (IF x = nx /\ x # End THEN q ELSE h.mem[x].prev)
  <2>1. q = p + Hdr + l /\ j = Split(h, p, l) /\ nx = h.mem[p].next /\ D = DOMAIN h.mem
    BY DEF q, nx, j, D
  <2>2. /\ p < q /\ q < nx /\ q \in Nat /\ q \notin D /\ nx \in D
        /\ j \in HeapType /\ DOMAIN j.mem = D \cup {q}
        /\ j.mem[q] = [used |-> FALSE, next |-> nx, prev |-> p]
        /\ \A x \in D :
              /\ j.mem[x].used = h.mem[x].used
              /\ j.mem[x].next = (IF x = p THEN q ELSE h.mem[x].next)
              /\ j.mem[x].prev = (IF x = nx /\ x # End THEN q ELSE h.mem[x].prev)
    BY <2>1, SplitFacts
  <2>3. j.mem[q].next = nx /\ j.mem[q].prev = p
    BY <2>2
  <2> QED
    BY <2>1, <2>2, <2>3
<1>2. D \subseteq Nat
  BY MemType DEF Chain, D
<1>3. /\ {0, End} \subseteq D /\ h.mem[End].used /\ h.mem[0].prev = 0
      /\ \A x \in D \ {End} : /\ h.mem[x].next \in D /\ x + Hdr <= h.mem[x].next
                              /\ \A y \in D : y <= x \/ y >= h.mem[x].next
      /\ \A x \in D \ {End} : h.mem[x].next # End => h.mem[h.mem[x].next].prev = x
      /\ \A x \in D \ {0, End} : h.mem[x].prev \in D \ {End} /\ h.mem[h.mem[x].prev].next = x
  BY DEF Chain, Ends, Forth, Back, D
<1>4. nx = h.mem[p].next /\ nx # 0 /\ nx # p /\ p \in Nat /\ nx \in Nat
  <2>1. p \in Nat /\ nx \in Nat /\ p < q /\ q < nx /\ q \in Nat
    BY <1>1, <1>2
  <2>2. nx # 0 /\ nx # p
    BY <2>1
  <2> QED
    BY <2>1, <2>2 DEF nx
<1>5. Ends(j.mem)
  BY <1>1, <1>2, <1>3, <1>4 DEF Ends
<1>6. Forth(j.mem)
  <2>1. /\ j.mem[q].next \in D /\ q + Hdr <= j.mem[q].next
        /\ \A y \in D \cup {q} : y <= q \/ y >= j.mem[q].next
    <3>1. \A y \in D : y <= p \/ y >= nx
      BY <1>1, <1>3, <1>4
    <3> QED
      BY <3>1, <1>0, <1>1, <1>2, <1>4
  <2>2. ASSUME NEW x \in D \ {End}, x = p
        PROVE  /\ j.mem[x].next = q /\ x + Hdr <= q
               /\ \A y \in D \cup {q} : y <= x \/ y >= q
    <3>1. \A y \in D : y <= p \/ y >= nx
      BY <1>1, <1>3, <1>4
    <3> QED
      BY <3>1, <2>2, <1>0, <1>1, <1>2, <1>4
  <2>3. ASSUME NEW x \in D \ {End}, x # p
        PROVE  /\ j.mem[x].next \in D /\ x + Hdr <= j.mem[x].next
               /\ \A y \in D \cup {q} : y <= x \/ y >= j.mem[x].next
    <3>1. j.mem[x].next = h.mem[x].next /\ h.mem[x].next \in D /\ x + Hdr <= h.mem[x].next
      BY <2>3, <1>1, <1>3
    <3>2. /\ \A y \in D : y <= x \/ y >= h.mem[x].next
          /\ \A y \in D : y <= p \/ y >= nx
      BY <2>3, <1>1, <1>3, <1>4
    <3>3. x \in Nat /\ h.mem[x].next \in Nat /\ (p <= x \/ p >= h.mem[x].next)
          /\ (nx <= x \/ nx >= h.mem[x].next) /\ (x <= p \/ x >= nx)
      BY <3>1, <3>2, <1>1, <1>2
    <3>4. q <= x \/ q >= h.mem[x].next
      BY <3>3, <2>3, <1>1, <1>4
    <3> QED
      BY <3>1, <3>2, <3>4
  <2> QED
    BY <2>1, <2>2, <2>3, <1>1 DEF Forth
<1>7. Back(j.mem)
  <2>1. j.mem[q].prev \in D \ {End} /\ j.mem[j.mem[q].prev].next = q
    BY <1>1
  <2>2. j.mem[q].next # End => j.mem[j.mem[q].next].prev = q
    BY <1>1
  <2>3. ASSUME NEW x \in D \ {End}, j.mem[x].next # End
        PROVE  j.mem[j.mem[x].next].prev = x
    <3>1. CASE x = p
      BY <3>1, <1>1
    <3>2. CASE x # p
      <4>1. h.mem[x].next \in D /\ h.mem[x].next # End /\ h.mem[h.mem[x].next].prev = x
        BY <3>2, <2>3, <1>1, <1>3
      <4>2. nx # End => h.mem[nx].prev = p
        BY <1>1, <1>3, <1>4
      <4>3. h.mem[x].next # nx
        BY <4>1, <4>2, <3>2
      <4> QED
        BY <4>1, <4>3, <3>2, <1>1
    <3> QED
      BY <3>1, <3>2
  <2>4. ASSUME NEW x \in D \ {0, End}
        PROVE  j.mem[x].prev \in (D \cup {q}) \ {End} /\ j.mem[j.mem[x].prev].next = x
    <3>1. CASE x = nx
      <4>1. q # End
        <5>1. q \notin D
          BY <1>1
        <5>2. End \in D
          BY <1>3
        <5> QED
          BY <5>1, <5>2
      <4> QED
        BY <4>1, <3>1, <2>4, <1>1
    <3>2. CASE x # nx
      <4>1. h.mem[x].prev \in D \ {End} /\ h.mem[h.mem[x].prev].next = x
        BY <2>4, <1>3
      <4>2. h.mem[x].prev # p
        BY <4>1, <3>2, <1>4
      <4> QED
        BY <4>1, <4>2, <3>2, <2>4, <1>1
    <3> QED
      BY <3>1, <3>2
  <2> QED
    BY <2>1, <2>2, <2>3, <2>4, <1>1 DEF Back
<1> QED
  BY <1>1, <1>5, <1>6, <1>7 DEF Chain, HeapType, j

Mark(m, p, u) == [m EXCEPT ![p].used = u]

\* Marking a block used or free keeps the chain, and all but that mark.
LEMMA MarkChain ==
  ASSUME NEW m, Chain(m), NEW p \in DOMAIN m \ {End}, NEW u \in BOOLEAN,
         NEW k, k = Mark(m, p, u)
  PROVE  /\ Chain(k) /\ DOMAIN k = DOMAIN m
         /\ \A x \in DOMAIN m : /\ k[x].used = (IF x = p THEN u ELSE m[x].used)
                                /\ k[x].next = m[x].next /\ k[x].prev = m[x].prev
<1>0. k = [m EXCEPT ![p].used = u]
  BY DEF Mark
<1>1. DOMAIN m \subseteq 0 .. End /\ m \in [DOMAIN m -> Header]
  BY MemType DEF Chain
<1>2. m[p] \in Header
  BY <1>1
<1>3. DOMAIN k = DOMAIN m /\ k \in [DOMAIN m -> Header]
  <2>1. [m[p] EXCEPT !.used = u] \in Header
    BY <1>2 DEF Header
  <2> QED
    BY <2>1, <1>0, <1>1
<1>4. ASSUME NEW x \in DOMAIN m
      PROVE  /\ k[x].used = (IF x = p THEN u ELSE m[x].used)
             /\ k[x].next = m[x].next /\ k[x].prev = m[x].prev
  <2>1. CASE x = p
    <3>1. k[x] = [m[p] EXCEPT !.used = u]
      BY <2>1, <1>0, <1>1
    <3> QED
      BY <3>1, <2>1, <1>2 DEF Header
  <2>2. CASE x # p
    BY <2>2, <1>0, <1>1
  <2> QED
    BY <2>1, <2>2
<1>5. k \in Mems
  BY <1>1, <1>3, MemType
<1>6. /\ {0, End} \subseteq DOMAIN m /\ m[End].used /\ m[0].prev = 0
      /\ \A x \in DOMAIN m \ {End} : m[x].next \in DOMAIN m
      /\ \A x \in DOMAIN m \ {0, End} : m[x].prev \in DOMAIN m
  BY DEF Chain, Ends, Forth, Back
<1>7. Ends(k)
  BY <1>3, <1>4, <1>6 DEF Ends
<1>8. Forth(k)
  BY <1>3, <1>4 DEF Chain, Forth
<1>9. Back(k)
  BY <1>3, <1>4, <1>6 DEF Chain, Back
<1> QED
  BY <1>3, <1>4, <1>5, <1>7, <1>8, <1>9 DEF Chain

\* Two free neighbours that are merged.
LEMMA JoinSound ==
  ASSUME NEW h, Sound(h), NEW p \in DOMAIN h.mem \ {End}, ~ h.mem[p].used,
         h.mem[p].next # End, ~ h.mem[h.mem[p].next].used,
         NEW j, j = Join(h, p)
  PROVE  /\ Sound(j) /\ Used(j.mem) = Used(h.mem) /\ Keep(h.mem, j.mem)
         /\ DOMAIN j.mem = DOMAIN h.mem \ {h.mem[p].next} /\ p # h.mem[p].next
<1> DEFINE n == h.mem[p].next
           nx == h.mem[n].next
<1>1. h \in HeapType /\ Chain(h.mem) /\ LfreeOK(h)
  BY DEF Sound
<1>2. /\ n \in DOMAIN h.mem \ {p} /\ j \in HeapType /\ DOMAIN j.mem = DOMAIN h.mem \ {n}
      /\ j.lfree = (IF h.lfree = n THEN p ELSE h.lfree)
      /\ \A x \in DOMAIN j.mem :
            /\ j.mem[x].used = h.mem[x].used
            /\ j.mem[x].next = (IF x = p THEN h.mem[n].next ELSE h.mem[x].next)
  <2>1. n = h.mem[p].next
    OBVIOUS
  <2> HIDE DEF n
  <2> QED
    BY <1>1, <2>1, JoinFacts
<1>3. Chain(j.mem)
  BY <1>1, JoinChain
<1> HIDE DEF n
<1>4. ~ h.mem[n].used
  BY DEF n
<1>5. LfreeOK(j)
  BY <1>1, <1>2 DEF LfreeOK
<1>6. Used(j.mem) = Used(h.mem)
  BY <1>2, <1>4 DEF Used
<1>7. Keep(h.mem, j.mem)
  BY <1>2 DEF Keep, Used
<1> QED
  BY <1>2, <1>3, <1>5, <1>6, <1>7 DEF Sound, n

\* plug_holes: a block that has become free is merged with the free blocks
\* around it.
LEMMA PlugSound ==
  ASSUME NEW h, Sound(h), NEW p \in DOMAIN h.mem \ {End}, ~ h.mem[p].used,
         TightBut(h.mem, p),
         NEW j, j = PlugHoles(h, p)
  PROVE  Sound(j) /\ Tight(j.mem) /\ Used(j.mem) = Used(h.mem) /\ Keep(h.mem, j.mem)
<1> DEFINE g == PlugForward(h, p)
<1>1. j = PlugBackward(g, p)
  BY DEF PlugHoles
<1>2. /\ Sound(g) /\ Used(g.mem) = Used(h.mem) /\ Keep(h.mem, g.mem) /\ p \in DOMAIN g.mem \ {End}
      /\ \A x \in DOMAIN g.mem \ {End} :
            g.mem[x].used \/ g.mem[g.mem[x].next].used \/ g.mem[x].next = p
  <2> DEFINE n == h.mem[p].next
  <2>1. /\ h \in HeapType /\ Chain(h.mem) /\ h.mem[End].used /\ DOMAIN h.mem \subseteq Nat
        /\ \A x \in DOMAIN h.mem \ {End} : h.mem[x].next \in DOMAIN h.mem /\ x < h.mem[x].next
    <3>1. h \in HeapType /\ Chain(h.mem) /\ h.mem[End].used /\ DOMAIN h.mem \subseteq Nat
      BY MemType DEF Sound, Chain, Ends
    <3>2. ASSUME NEW x \in DOMAIN h.mem \ {End}
          PROVE  h.mem[x].next \in DOMAIN h.mem /\ x < h.mem[x].next
      <4>1. h.mem[x].next \in DOMAIN h.mem /\ x + Hdr <= h.mem[x].next
        BY <3>1 DEF Chain, Forth
      <4> QED
        BY <4>1, <3>1
    <3> QED
      BY <3>1, <3>2
  <2>2. n # p /\ n \in DOMAIN h.mem
    BY <2>1
  <2>3. CASE ~ h.mem[n].used
    <3>1. n # End
      BY <2>1, <2>3
    <3>2. g = Join(h, p)
      BY <3>1, <2>2, <2>3 DEF PlugForward
    <3>3. n = h.mem[p].next
      OBVIOUS
    <3> HIDE DEF n, g
    <3>4. /\ Sound(g) /\ Used(g.mem) = Used(h.mem) /\ Keep(h.mem, g.mem)
          /\ DOMAIN g.mem = DOMAIN h.mem \ {n}
      BY <3>1, <3>2, <3>3, <2>3, JoinSound
    <3>5. \A x \in DOMAIN g.mem :
            /\ g.mem[x].used = h.mem[x].used
            /\ g.mem[x].next = (IF x = p THEN h.mem[n].next ELSE h.mem[x].next)
      BY <3>1, <3>2, <3>3, <2>1, JoinFacts
    <3>6. ASSUME NEW x \in DOMAIN g.mem \ {End}
          PROVE  g.mem[x].used \/ g.mem[g.mem[x].next].used \/ g.mem[x].next = p
      <4>1. g.mem[x].next \in DOMAIN g.mem
        BY <3>4 DEF Sound, Chain, Forth
      <4>2. CASE x = p
        <5>1. h.mem[n].next \in DOMAIN h.mem /\ p \in Nat /\ n \in Nat
              /\ h.mem[n].next \in Nat /\ p < n /\ n < h.mem[n].next
          BY <3>1, <3>3, <2>1, <2>2
        <5>2. h.mem[n].next # p
          BY <5>1
        <5>3. h.mem[h.mem[n].next].used
          BY <5>2, <3>1, <2>2, <2>3 DEF TightBut
        <5>4. g.mem[x].next = h.mem[n].next
          BY <4>2, <3>5
        <5> QED
          BY <5>3, <5>4, <4>1, <3>5
      <4>3. CASE x # p
        <5>1. g.mem[x].next = h.mem[x].next /\ x \in DOMAIN h.mem \ {End}
          BY <4>3, <3>4, <3>5
        <5>2. h.mem[x].used \/ h.mem[h.mem[x].next].used \/ h.mem[x].next = p
          BY <5>1, <4>3 DEF TightBut
        <5> QED
          BY <5>1, <5>2, <4>1, <3>5
      <4> QED
        BY <4>2, <4>3
    <3> QED
      BY <3>4, <3>6, <2>2
  <2>4. CASE h.mem[n].used
    <3>1. g = h
      BY <2>4 DEF PlugForward
    <3> QED
      BY <3>1, <2>4 DEF TightBut, Keep
  <2> QED
    BY <2>3, <2>4
<1> HIDE DEF g
<1> DEFINE b == g.mem[p].prev
<1>3. /\ g \in HeapType /\ Chain(g.mem) /\ DOMAIN g.mem \subseteq Nat
      /\ \A x \in DOMAIN g.mem \ {End} : /\ g.mem[x].next \in DOMAIN g.mem
                                         /\ x + Hdr <= g.mem[x].next
  BY <1>2, MemType DEF Sound, Chain, Forth
<1>4. ~ g.mem[p].used
  BY <1>2 DEF Used
<1>5. CASE b # p /\ ~ g.mem[b].used
  <2>1. j = Join(g, b)
    BY <1>1, <1>5 DEF PlugBackward
  <2>2. b \in DOMAIN g.mem \ {End} /\ g.mem[b].next = p
    <3>1. p # 0 \/ b = 0
      BY <1>3 DEF Chain, Ends
    <3> QED
      BY <3>1, <1>2, <1>3, <1>5 DEF Chain, Back
  <2>3. \A x \in DOMAIN g.mem \ {End} : g.mem[x].next = p => x = b
    BY <1>2, <1>3 DEF Chain, Back
  <2> HIDE DEF b
  <2>4. /\ Sound(j) /\ Used(j.mem) = Used(g.mem) /\ Keep(g.mem, j.mem)
        /\ DOMAIN j.mem = DOMAIN g.mem \ {p}
    BY <2>1, <2>2, <1>2, <1>4, <1>5, JoinSound
  <2>5. \A x \in DOMAIN j.mem :
            /\ j.mem[x].used = g.mem[x].used
            /\ j.mem[x].next = (IF x = b THEN g.mem[p].next ELSE g.mem[x].next)
    BY <2>1, <2>2, <1>2, <1>3, JoinFacts
  <2>6. ASSUME NEW x \in DOMAIN j.mem \ {End}
        PROVE  j.mem[x].used \/ j.mem[j.mem[x].next].used
    <3>1. j.mem[x].next \in DOMAIN j.mem
      BY <2>4 DEF Sound, Chain, Forth
    <3>2. CASE x = b
      <4>1. g.mem[p].next # p
        <5>1. p \in Nat /\ g.mem[p].next \in Nat /\ p + Hdr <= g.mem[p].next
          BY <1>2, <1>3
        <5> QED
          BY <5>1
      <4>2. g.mem[g.mem[p].next].used
        BY <4>1, <1>2, <1>4
      <4> QED
        BY <4>2, <3>1, <3>2, <2>5
    <3>3. CASE x # b
      BY <3>1, <3>3, <2>3, <2>4, <2>5, <1>2
    <3> QED
      BY <3>2, <3>3
  <2> QED
    BY <2>4, <2>6, <1>2 DEF Tight, Keep
<1>6. CASE ~ (b # p /\ ~ g.mem[b].used)
  <2>1. j = g
    BY <1>1, <1>6 DEF PlugBackward
  <2>2. ASSUME NEW x \in DOMAIN g.mem \ {End}, g.mem[x].next = p
        PROVE  g.mem[x].used
    <3>1. x = b
      BY <2>2, <1>2, <1>3 DEF Chain, Back
    <3>2. x \in Nat /\ p \in Nat /\ x + Hdr <= p
      BY <2>2, <1>2, <1>3
    <3>3. x # p
      BY <3>2
    <3> QED
      BY <3>1, <3>3, <1>6
  <2> QED
    BY <2>1, <2>2, <1>2 DEF Tight
<1> QED
  BY <1>5, <1>6

\* A block that is split: its rest is a free block.
LEMMA SplitSound ==
  ASSUME NEW h, Sound(h), Tight(h.mem), NEW p \in DOMAIN h.mem \ {End}, NEW l \in Nat,
         p + Hdr + l + Hdr <= h.mem[p].next,
         NEW q, q = p + Hdr + l,
         NEW j, j = Split(h, p, l)
  PROVE  /\ Sound(j) /\ Used(j.mem) = Used(h.mem) /\ TightBut(j.mem, q)
         /\ p \in DOMAIN j.mem \ {End} /\ q \in DOMAIN j.mem \ {End} /\ ~ j.mem[q].used
         /\ q \notin DOMAIN h.mem
         /\ \A x \in DOMAIN j.mem \ {End} : j.mem[x].next = q => x = p
         /\ j.mem[q].next = h.mem[p].next
         /\ \A x \in DOMAIN h.mem : j.mem[x].next = (IF x = p THEN q ELSE h.mem[x].next)
<1>1. h \in HeapType /\ Chain(h.mem) /\ LfreeOK(h) /\ End \in DOMAIN h.mem
  BY DEF Sound, Chain, Ends
<1>2. /\ p < q /\ q < h.mem[p].next /\ q \in Nat /\ q \notin DOMAIN h.mem
      /\ h.mem[p].next \in DOMAIN h.mem
      /\ j \in HeapType /\ DOMAIN j.mem = DOMAIN h.mem \cup {q}
      /\ j.lfree = h.lfree
      /\ j.mem[q] = [used |-> FALSE, next |-> h.mem[p].next, prev |-> p]
      /\ \A x \in DOMAIN h.mem :
            /\ j.mem[x].used = h.mem[x].used
            /\ j.mem[x].next = (IF x = p THEN q ELSE h.mem[x].next)
  BY <1>1, SplitFacts
<1>3. Chain(j.mem)
  BY <1>1, SplitChain
<1>4. ~ j.mem[q].used /\ j.mem[q].next = h.mem[p].next
  BY <1>2
<1>5. LfreeOK(j)
  BY <1>1, <1>2 DEF LfreeOK
<1>6. Used(j.mem) = Used(h.mem)
  BY <1>2, <1>4 DEF Used
<1>7. \A x \in DOMAIN h.mem \ {End} : h.mem[x].next \in DOMAIN h.mem
  BY <1>1 DEF Chain, Forth
<1>8. TightBut(j.mem, q)
  BY <1>2, <1>7 DEF Tight, TightBut
<1>9. \A x \in DOMAIN j.mem \ {End} : j.mem[x].next = q => x = p
  BY <1>2, <1>4, <1>7
<1> QED
  BY <1>1, <1>2, <1>3, <1>4, <1>5, <1>6, <1>8, <1>9 DEF Sound

\* rt_malloc: the block is used, and lfree is moved on.
LEMMA TakenSound ==
  ASSUME Sound(heap), Tight(heap.mem), NEW p \in Block, ~ heap.mem[p].used,
         NEW n \in Nat, n <= Room(heap.mem, p), NEW t, t = Taken(p, n),
         NEW f \in LowestFree(t)
  PROVE  /\ t \in HeapType /\ Chain(t.mem) /\ Tight(t.mem)
         /\ Used(t.mem) = Used(heap.mem) \cup {p} /\ p # End
         /\ f \in DOMAIN t.mem /\ (f = End \/ ~ t.mem[f].used)
         /\ Keep(heap.mem, t.mem) /\ n <= Room(t.mem, p)
<1> DEFINE c == Room(heap.mem, p) >= n + Hdr + MinSize
           h == IF c THEN Split(heap, p, n) ELSE heap
<1>1. p \in DOMAIN heap.mem \ {End} /\ DOMAIN heap.mem \subseteq Nat
  BY MemType DEF Block, Sound, Chain, Ends
<1>2. \* Whatever follows the block is used, or the rest of it.
      /\ Sound(h) /\ Used(h.mem) = Used(heap.mem) /\ Keep(heap.mem, h.mem)
      /\ n <= Room(h.mem, p) /\ p \in DOMAIN h.mem \ {End}
      /\ \A x \in DOMAIN h.mem \ {End} : x = p \/ h.mem[x].used \/ h.mem[h.mem[x].next].used
                                         \/ h.mem[x].next = p
  <2>1. CASE c
    <3>1. heap.mem[p].next \in DOMAIN heap.mem /\ heap.mem[p].next \in Nat /\ p \in Nat
      BY <1>1 DEF Sound, Chain, Forth
    <3>2. p + Hdr + n + Hdr <= heap.mem[p].next
      BY <3>1, <2>1 DEF Room
    <3>3. h = Split(heap, p, n)
      BY <2>1
    <3> DEFINE q == p + Hdr + n
    <3>4. q = p + Hdr + n
      OBVIOUS
    <3> HIDE DEF q, h
    <3>5. /\ Sound(h) /\ Used(h.mem) = Used(heap.mem) /\ TightBut(h.mem, q)
          /\ p \in DOMAIN h.mem \ {End} /\ q \in DOMAIN h.mem
          /\ \A x \in DOMAIN h.mem \ {End} : h.mem[x].next = q => x = p
          /\ h.mem[q].next = heap.mem[p].next
          /\ \A x \in DOMAIN heap.mem :
                h.mem[x].next = (IF x = p THEN q ELSE heap.mem[x].next)
      BY <1>1, <3>2, <3>3, <3>4, SplitSound
    <3>6. heap.mem[p].next \in Used(heap.mem)
      BY <3>1, <1>1 DEF Tight, Used
    <3>7. heap.mem[p].next \in DOMAIN h.mem /\ h.mem[heap.mem[p].next].used
      BY <3>5, <3>6 DEF Used
    <3>8. Keep(heap.mem, h.mem)
      BY <3>5 DEF Keep, Used
    <3>9. n <= Room(h.mem, p)
      BY <3>1, <3>4, <3>5, <1>1 DEF Room
    <3> QED
      BY <3>5, <3>7, <3>8, <3>9 DEF TightBut
  <2>2. CASE ~ c
    BY <2>2, <1>1 DEF Tight, Keep
  <2> QED
    BY <2>1, <2>2
<1>3. t = [h EXCEPT !.mem[p].used = TRUE]
  BY DEF Taken
<1> HIDE DEF h
<1>4. h \in HeapType /\ Chain(h.mem)
  BY <1>2 DEF Sound
<1> DEFINE m == [h.mem EXCEPT ![p].used = TRUE]
<1>5. t.mem = m /\ t \in [mem : {m}, lfree : Nat]
  <2>1. h = [mem |-> h.mem, lfree |-> h.lfree] /\ h.lfree \in Nat
    BY <1>4 DEF HeapType
  <2>2. t = [h EXCEPT !.mem = m]
    BY <1>3, <2>1
  <2> QED
    BY <2>1, <2>2
<1>6. m = [h.mem EXCEPT ![p].used = TRUE]
  OBVIOUS
<1> HIDE DEF m
<1>7. /\ Chain(m) /\ DOMAIN m = DOMAIN h.mem
      /\ \A x \in DOMAIN h.mem : /\ m[x].used = (IF x = p THEN TRUE ELSE h.mem[x].used)
                                 /\ m[x].next = h.mem[x].next
  <2> DEFINE o == h.mem
             u == TRUE
  <2>1. m = Mark(o, p, u) /\ u \in BOOLEAN /\ Chain(o) /\ p \in DOMAIN o \ {End}
    BY <1>2, <1>4, <1>6 DEF Mark
  <2> HIDE DEF o, u
  <2>2. /\ Chain(m) /\ DOMAIN m = DOMAIN o
        /\ \A x \in DOMAIN o : m[x].used = (IF x = p THEN u ELSE o[x].used)
        /\ \A x \in DOMAIN o : m[x].next = o[x].next
    BY <2>1, MarkChain
  <2> QED
    BY <2>2 DEF o, u
<1>8. f \in DOMAIN m /\ (f = End \/ ~ m[f].used)
  BY <1>5 DEF LowestFree
<1>9. t \in HeapType
  BY <1>5, <1>7 DEF HeapType, Chain
<1>10. Tight(m)
  <2>1. \A x \in DOMAIN h.mem \ {End} : h.mem[x].next \in DOMAIN h.mem
    BY <1>4 DEF Chain, Forth
  <2> QED
    BY <2>1, <1>2, <1>7 DEF Tight
<1>11. Used(m) = Used(heap.mem) \cup {p}
  <2> DEFINE D == DOMAIN m
  <2>1. Used(m) = {x \in D : m[x].used} /\ Used(h.mem) = {x \in D : h.mem[x].used}
    BY <1>7 DEF Used
  <2>2. Used(h.mem) = Used(heap.mem) /\ p \in D
    BY <1>2, <1>7
  <2>3. \A x \in D : m[x].used <=> x = p \/ h.mem[x].used
    BY <1>7
  <2> QED
    BY <2>1, <2>2, <2>3
<1>12. Keep(heap.mem, m) /\ n <= Room(m, p)
  BY <1>2, <1>7, <1>1 DEF Keep, Used, Room
<1> QED
  BY <1>1, <1>5, <1>7, <1>8, <1>9, <1>10, <1>11, <1>12

\* rt_free: the block becomes free, and is merged with what is free around it.
LEMMA ReleaseSound ==
  ASSUME Sound(heap), Tight(heap.mem), NEW p \in Block \ {End}, Release(p)
  PROVE  /\ Sound(heap') /\ Tight(heap'.mem) /\ Used(heap'.mem) = Used(heap.mem) \ {p}
         /\ Keep(heap.mem, heap'.mem)
<1> DEFINE h == [heap EXCEPT !.mem[p].used = FALSE, !.lfree = IF p < @ THEN p ELSE @]
           m == [heap.mem EXCEPT ![p].used = FALSE]
           f == IF p < heap.lfree THEN p ELSE heap.lfree
<1>1. heap' = PlugHoles(h, p)
  BY DEF Release
<1>2. heap \in HeapType /\ Chain(heap.mem) /\ LfreeOK(heap) /\ p \in DOMAIN heap.mem \ {End}
  BY DEF Sound, Block
<1>3. h = [mem |-> m, lfree |-> f]
  <2> DEFINE g == [heap EXCEPT !.mem[p].used = FALSE]
  <2>1. heap = [mem |-> heap.mem, lfree |-> heap.lfree]
    BY <1>2 DEF HeapType
  <2>2. g = [heap EXCEPT !.mem = m]
    BY <2>1
  <2>3. h = [g EXCEPT !.lfree = IF p < @ THEN p ELSE @]
    OBVIOUS
  <2> HIDE DEF g, h, m
  <2>4. g = [mem |-> m, lfree |-> heap.lfree]
    BY <2>1, <2>2
  <2> QED
    BY <2>3, <2>4
<1> HIDE DEF h
<1>4. /\ Chain(m) /\ DOMAIN m = DOMAIN heap.mem /\ ~ m[p].used
      /\ \A x \in DOMAIN m : x # p => m[x].used = heap.mem[x].used
      /\ \A x \in DOMAIN m : m[x].next = heap.mem[x].next
  <2> DEFINE o == heap.mem
             u == FALSE
  <2>1. m = Mark(o, p, u) /\ u \in BOOLEAN /\ Chain(o) /\ p \in DOMAIN o \ {End}
    BY <1>2 DEF Mark
  <2> HIDE DEF o, u, m
  <2>2. /\ Chain(m) /\ DOMAIN m = DOMAIN o
        /\ \A x \in DOMAIN o : m[x].used = (IF x = p THEN u ELSE o[x].used)
        /\ \A x \in DOMAIN o : m[x].next = o[x].next
    BY <2>1, MarkChain
  <2>3. ~ m[p].used /\ \A x \in DOMAIN m : x # p => m[x].used = heap.mem[x].used
    BY <2>1, <2>2 DEF o, u
  <2> QED
    BY <2>2, <2>3 DEF o
<1> HIDE DEF m
<1>5. f \in DOMAIN m /\ (f = End \/ ~ m[f].used) /\ f \in Nat
  <2>1. p \in Nat /\ heap.lfree \in Nat
    BY <1>2, MemType DEF Chain, HeapType
  <2>2. heap.lfree \in DOMAIN m /\ (heap.lfree = End \/ ~ m[heap.lfree].used)
    BY <1>2, <1>4 DEF LfreeOK
  <2> QED
    BY <2>1, <2>2, <1>2, <1>4
<1> HIDE DEF f
<1>6. h.mem = m /\ h.lfree = f
  BY <1>3
<1>7. h \in HeapType
  BY <1>3, <1>4, <1>5 DEF HeapType, Chain
<1>8. Sound(h) /\ p \in DOMAIN h.mem \ {End} /\ ~ h.mem[p].used
  BY <1>2, <1>4, <1>5, <1>6, <1>7 DEF Sound, LfreeOK
<1>9. TightBut(h.mem, p)
  BY <1>2, <1>4, <1>6 DEF Chain, Forth, Tight, TightBut
<1>10. Used(h.mem) = Used(heap.mem) \ {p} /\ Keep(heap.mem, h.mem)
  BY <1>2, <1>4, <1>6 DEF Used, Keep
<1>11. Sound(heap') /\ Tight(heap'.mem) /\ Used(heap'.mem) = Used(h.mem) /\ Keep(h.mem, heap'.mem)
  BY <1>1, <1>8, <1>9, PlugSound
<1>12. Keep(heap.mem, heap'.mem)
  BY <1>10, <1>11 DEF Keep
<1> QED
  BY <1>10, <1>11, <1>12

\* rt_realloc that makes a block shorter: the rest is merged with what follows.
LEMMA ShrinkSound ==
  ASSUME Sound(heap), Tight(heap.mem), NEW p \in Block \ {End}, NEW newsize \in Nat,
         ReallocShrink(p, newsize)
  PROVE  /\ Sound(heap') /\ Tight(heap'.mem) /\ Used(heap'.mem) = Used(heap.mem)
         /\ \A x \in Used(heap.mem) :
               heap'.mem[x].next = (IF x = p THEN p + Hdr + Aligned(newsize) ELSE heap.mem[x].next)
<1> DEFINE n == Aligned(newsize)
           q == p + Hdr + n
           j == Split(heap, p, n)
<1>1. n \in Nat /\ n + Hdr + MinSize < Room(heap.mem, p) /\ heap' = PlugHoles(j, q)
  BY AlignedNat DEF ReallocShrink
<1>0. n = Aligned(newsize)
  OBVIOUS
<1> HIDE DEF n
<1>2. p \in DOMAIN heap.mem \ {End} /\ p \in Nat /\ heap.mem[p].next \in Nat
  BY MemType DEF Block, Sound, Chain, Forth
<1>3. p + Hdr + n + Hdr <= heap.mem[p].next
  BY <1>1, <1>2 DEF Room
<1>4. q = p + Hdr + n /\ j = Split(heap, p, n)
  OBVIOUS
<1> HIDE DEF q, j
<1>5. /\ Sound(j) /\ Used(j.mem) = Used(heap.mem) /\ TightBut(j.mem, q)
      /\ q \in DOMAIN j.mem \ {End} /\ ~ j.mem[q].used
      /\ \A x \in DOMAIN heap.mem : j.mem[x].next = (IF x = p THEN q ELSE heap.mem[x].next)
  BY <1>1, <1>2, <1>3, <1>4, SplitSound
<1>6. /\ Sound(heap') /\ Tight(heap'.mem) /\ Used(heap'.mem) = Used(j.mem)
      /\ Keep(j.mem, heap'.mem)
  BY <1>1, <1>5, PlugSound
<1>7. ASSUME NEW x \in Used(heap.mem)
      PROVE  heap'.mem[x].next = (IF x = p THEN q ELSE heap.mem[x].next)
  <2>1. x \in DOMAIN heap.mem /\ x \in Used(j.mem) /\ x \in Used(heap'.mem)
    BY <1>5, <1>6 DEF Used
  <2> QED
    BY <2>1, <1>5, <1>6 DEF Keep
<1> QED
  BY <1>0, <1>4, <1>5, <1>6, <1>7

-----------------------------------------------------------------------------
(* The steps. *)

LEMMA InitOK == Init => IInv
<1> SUFFICES ASSUME Init PROVE IInv
  OBVIOUS
<1> DEFINE m == heap.mem
<1>1. /\ m = [p \in {0, End} |-> [used |-> p = End, next |-> End, prev |-> p]]
      /\ heap = [mem |-> m, lfree |-> 0]
      /\ DOMAIN asked = {} /\ move = [t \in Caller |-> NotMoving]
  BY DEF Init
<1> HIDE DEF m
<1>2. /\ End \in Nat /\ Hdr \in Nat /\ Hdr <= End /\ End # 0
  OBVIOUS
<1>3. /\ DOMAIN m = {0, End}
      /\ ~ m[0].used /\ m[0].next = End /\ m[0].prev = 0
      /\ m[End].used /\ m[End].next = End /\ m[End].prev = End
  BY <1>1, <1>2
<1>4. m \in Mems
  <2>1. m[0] \in Header /\ m[End] \in Header
    BY <1>1, <1>2 DEF Header
  <2>2. m \in [DOMAIN m -> Header]
    BY <1>1, <1>3, <2>1
  <2> QED
    BY <2>2, <1>2, <1>3, MemType
<1>5. Chain(m)
  BY <1>2, <1>3, <1>4 DEF Chain, Ends, Forth, Back
<1>6. Sound(heap)
  BY <1>1, <1>2, <1>3, <1>4, <1>5 DEF Sound, HeapType, LfreeOK
<1>7. Tight(m) /\ Used(m) = {End}
  BY <1>2, <1>3 DEF Tight, Used
<1>8. MoveOK
  BY <1>1 DEF MoveOK, NotMoving
<1>9. Fits
  BY <1>1 DEF Fits, Init
<1>10. Counted
  <2>1. Bytes(heap.mem, DOMAIN asked) = {}
    BY <1>1 DEF Bytes
  <2> QED
    BY <2>1, FS_EmptySet DEF Counted, Init
<1> QED
  BY <1>1, <1>6, <1>7, <1>8, <1>9, <1>10 DEF IInv, Held, m

\* A block that goes on being used keeps its length.
LEMMA KeepRoom ==
  ASSUME NEW x \in Used(heap.mem), x \in Used(heap'.mem), Keep(heap.mem, heap'.mem)
  PROVE  Room(heap'.mem, x) = Room(heap.mem, x)
  BY DEF Keep, Room

\* The blocks of a chain are apart, so that each adds its length.
LEMMA BytesAdd ==
  ASSUME NEW m, Chain(m), NEW D \in SUBSET (DOMAIN m \ {End}),
         NEW p \in DOMAIN m \ {End}, p \notin D
  PROVE  /\ Cardinality(Bytes(m, D)) \in Nat /\ m[p].next - p \in Nat
         /\ Cardinality(Bytes(m, D \cup {p})) = Cardinality(Bytes(m, D)) + (m[p].next - p)
<1>1. DOMAIN m \subseteq 0 .. End /\ End \in Nat
  BY MemType DEF Chain
<1>2. ASSUME NEW x \in DOMAIN m \ {End}
      PROVE  /\ x \in Nat /\ m[x].next \in Nat /\ x <= m[x].next /\ m[x].next <= End
             /\ \A q \in DOMAIN m : q <= x \/ q >= m[x].next
  <2>1. x \in 0 .. End /\ m[x].next \in 0 .. End /\ x + Hdr <= m[x].next
    BY <1>1 DEF Chain, Forth
  <2> QED
    BY <2>1 DEF Chain, Forth
<1> DEFINE S == Bytes(m, D)
           T == p .. m[p].next - 1
<1>3. IsFiniteSet(S) /\ Cardinality(S) \in Nat
  <2>1. S \subseteq 0 .. End
    BY <1>1, <1>2 DEF Bytes
  <2>2. IsFiniteSet(0 .. End)
    BY <1>1, FS_Interval
  <2> QED
    BY <2>1, <2>2, FS_Subset, FS_CardinalityType
<1>4. IsFiniteSet(T) /\ Cardinality(T) = m[p].next - p
  <2> DEFINE a == p
             b == m[p].next - 1
  <2>1. a \in Int /\ b \in Int /\ b >= a - 1 /\ b - a + 1 = m[p].next - p
    BY <1>2
  <2>2. T = a .. b
    OBVIOUS
  <2> HIDE DEF a, b
  <2>3. IsFiniteSet(a .. b) /\ Cardinality(a .. b) = IF a > b THEN 0 ELSE b - a + 1
    BY <2>1, FS_Interval
  <2> QED
    BY <2>1, <2>2, <2>3
<1>5. S \cap T = {}
  <2> SUFFICES ASSUME NEW x \in D, NEW i \in x .. m[x].next - 1, i \in T
               PROVE  FALSE
    BY DEF Bytes
  <2>1. (p <= x \/ p >= m[x].next) /\ (x <= p \/ x >= m[p].next) /\ x # p
    BY <1>2
  <2> QED
    BY <2>1, <1>2
<1>6. Bytes(m, D \cup {p}) = S \cup T
  BY DEF Bytes
<1> HIDE DEF S, T
<1>7. Cardinality(S \cup T) = Cardinality(S) + Cardinality(T) - Cardinality(S \cap T)
  BY <1>3, <1>4, FS_Union
<1>8. Cardinality(S \cap T) = 0
  BY <1>5, FS_EmptySet
<1>9. m[p].next - p \in Nat
  BY <1>2
<1>10. Cardinality(S \cup T) = Cardinality(S) + (m[p].next - p)
  BY <1>3, <1>4, <1>7, <1>8, <1>9
<1>11. Cardinality(Bytes(m, D \cup {p})) = Cardinality(S) + (m[p].next - p)
  BY <1>6, <1>10
<1> QED
  BY <1>3, <1>9, <1>11 DEF S

\* Blocks that lead on where they did take the same bytes.
LEMMA BytesSame ==
  ASSUME NEW m, NEW m1, NEW D, \A x \in D : m1[x].next = m[x].next
  PROVE  Bytes(m1, D) = Bytes(m, D)
  BY DEF Bytes

LEMMA UsedNat == IInv => used_mem \in Nat
<1> SUFFICES ASSUME IInv PROVE used_mem \in Nat
  OBVIOUS
<1>1. DOMAIN asked \subseteq DOMAIN heap.mem \ {End} /\ DOMAIN heap.mem \subseteq 0 .. End /\ End \in Nat
  BY MemType DEF IInv, Held, Used, Sound, Chain
<1>2. Bytes(heap.mem, DOMAIN asked) \subseteq 0 .. End
  <2> SUFFICES ASSUME NEW p \in DOMAIN asked, NEW i \in p .. heap.mem[p].next - 1
               PROVE  i \in 0 .. End
    BY DEF Bytes
  <2>1. p \in 0 .. End /\ heap.mem[p].next \in 0 .. End
    BY <1>1 DEF IInv, Sound, Chain, Forth
  <2> QED
    BY <2>1
<1>3. IsFiniteSet(0 .. End)
  BY <1>1, FS_Interval
<1> QED
  BY <1>2, <1>3, FS_Subset, FS_CardinalityType DEF IInv, Counted

LEMMA MallocOK ==
  ASSUME IInv, NEW n \in Sizes, NEW p \in Block, Malloc(n, p)
  PROVE  /\ Sound(heap') /\ Tight(heap'.mem) /\ Held' /\ Fits' /\ Counted'
         /\ p \notin DOMAIN asked /\ p \in Nat /\ DOMAIN asked' = DOMAIN asked \cup {p}
<1>1. Sound(heap) /\ Tight(heap.mem) /\ Held /\ Fits /\ p \in Nat
  BY MemType DEF IInv, Sound, Chain, Block
<1>2. /\ Promised(n) \in Nat /\ Rounded(n) \in Nat /\ Promised(n) <= Rounded(n)
      /\ n \in Nat /\ ~ heap.mem[p].used
      /\ Rounded(n) <= Room(heap.mem, p)
  <2>1. /\ n \in Nat /\ Rounded(n) \in Nat
        /\ Promised(n) \in Nat /\ Promised(n) <= Rounded(n)
    BY SizesNat, RoundedNat
  <2>2. ~ heap.mem[p].used /\ Room(heap.mem, p) >= Rounded(n)
    BY DEF Malloc, Fitting
  <2>3. p # End /\ heap.mem[p].next \in Nat
    BY <1>1, <2>2, MemType DEF Sound, Chain, Ends, Forth, Block
  <2> QED
    BY <1>1, <2>1, <2>2, <2>3 DEF Room
<1> DEFINE t == Taken(p, Rounded(n))
<1>3. PICK f \in LowestFree(t) : heap' = [t EXCEPT !.lfree = f]
  BY DEF Malloc
<1>4. t = Taken(p, Rounded(n))
  OBVIOUS
<1> HIDE DEF t
<1>5. /\ t \in HeapType /\ Chain(t.mem) /\ Tight(t.mem)
      /\ Used(t.mem) = Used(heap.mem) \cup {p} /\ p # End
      /\ f \in DOMAIN t.mem /\ (f = End \/ ~ t.mem[f].used)
      /\ Keep(heap.mem, t.mem) /\ Rounded(n) <= Room(t.mem, p)
  BY <1>1, <1>2, <1>4, TakenSound
<1>6. heap' = [mem |-> t.mem, lfree |-> f] /\ f \in Nat
  BY <1>3, <1>5, MemType DEF HeapType, Mems
<1>7. Sound(heap')
  BY <1>5, <1>6 DEF Sound, LfreeOK, HeapType
<1>8. asked' = [x \in DOMAIN asked \cup {p} |-> IF x = p THEN n ELSE asked[x]]
  BY DEF Malloc
<1>9. p \notin DOMAIN asked
  BY <1>1, <1>2 DEF Held, Used
<1>10. Held'
  BY <1>1, <1>5, <1>6, <1>8 DEF Held
<1>11. Fits'
  <2>1. asked' \in [DOMAIN asked' -> Sizes]
    BY <1>1, <1>8 DEF Fits
  <2>2. Promised(n) <= Room(heap'.mem, p)
    <3>1. t.mem[p].next \in Nat
      BY <1>1, <1>5, MemType DEF Chain, Forth, Used
    <3> QED
      BY <3>1, <1>1, <1>2, <1>5, <1>6 DEF Room
  <2>3. ASSUME NEW x \in DOMAIN asked
        PROVE  Promised(asked[x]) <= Room(heap'.mem, x)
    <3>1. x \in Used(heap.mem) /\ x \in Used(heap'.mem) /\ Keep(heap.mem, heap'.mem)
      BY <1>1, <1>5, <1>6 DEF Held
    <3> QED
      BY <3>1, <1>1, KeepRoom DEF Fits
  <2> QED
    BY <2>1, <2>2, <2>3, <1>8 DEF Fits
<1>12. Counted'
  <2> DEFINE D == DOMAIN asked
  <2>1. used_mem' = used_mem + (t.mem[p].next - p) /\ used_mem = Cardinality(Bytes(heap.mem, D))
    BY <1>4 DEF Malloc, IInv, Counted
  <2>2. D \subseteq Used(heap.mem) /\ D \subseteq Used(t.mem) \ {End} /\ p \in Used(t.mem) \ {End}
    BY <1>1, <1>5 DEF Held
  <2>3. Bytes(t.mem, D) = Bytes(heap.mem, D)
    BY <2>2, <1>5, BytesSame DEF Keep
  <2>4. Cardinality(Bytes(t.mem, D \cup {p})) = Cardinality(Bytes(t.mem, D)) + (t.mem[p].next - p)
    BY <2>2, <1>5, <1>9, BytesAdd DEF Used
  <2>5. heap'.mem = t.mem /\ DOMAIN asked' = D \cup {p}
    BY <1>6, <1>8
  <2> QED
    BY <2>1, <2>3, <2>4, <2>5 DEF Counted
<1> QED
  BY <1>1, <1>5, <1>6, <1>7, <1>8, <1>9, <1>10, <1>11, <1>12

LEMMA ReleaseOK ==
  ASSUME IInv, NEW p \in DOMAIN asked, Release(p)
  PROVE  /\ Sound(heap') /\ Tight(heap'.mem) /\ Held' /\ Fits' /\ Counted'
         /\ DOMAIN asked' = DOMAIN asked \ {p}
<1>1. Sound(heap) /\ Tight(heap.mem) /\ p \in Block \ {End} /\ Held /\ Fits
  BY DEF IInv, Held, Used, Block
<1>2. /\ Sound(heap') /\ Tight(heap'.mem) /\ Used(heap'.mem) = Used(heap.mem) \ {p}
      /\ Keep(heap.mem, heap'.mem)
  BY <1>1, ReleaseSound
<1>3. asked' = [x \in DOMAIN asked \ {p} |-> asked[x]]
  BY DEF Release
<1>4. Held'
  BY <1>2, <1>3 DEF IInv, Held
<1>5. Fits'
  <2>1. asked' \in [DOMAIN asked' -> Sizes]
    BY <1>1, <1>3 DEF Fits
  <2>2. ASSUME NEW x \in DOMAIN asked \ {p}
        PROVE  Promised(asked[x]) <= Room(heap'.mem, x)
    <3>1. x \in Used(heap.mem) /\ x \in Used(heap'.mem)
      BY <1>1, <1>2 DEF Held
    <3> QED
      BY <3>1, <1>1, <1>2, KeepRoom DEF Fits
  <2> QED
    BY <2>1, <2>2, <1>3 DEF Fits
<1>6. Counted'
  <2> DEFINE D == DOMAIN asked \ {p}
  <2>1. /\ used_mem' = used_mem - (heap.mem[p].next - p)
        /\ used_mem = Cardinality(Bytes(heap.mem, DOMAIN asked))
    BY DEF Release, IInv, Counted
  <2>2. D \subseteq Used(heap.mem) \ {End} /\ D \subseteq Used(heap'.mem) /\ DOMAIN asked = D \cup {p}
    BY <1>1, <1>2 DEF Held
  <2>3. Bytes(heap'.mem, D) = Bytes(heap.mem, D)
    BY <2>2, <1>2, BytesSame DEF Keep
  <2>4. /\ Cardinality(Bytes(heap.mem, D)) \in Nat /\ heap.mem[p].next - p \in Nat
        /\ Cardinality(Bytes(heap.mem, D \cup {p})) =
             Cardinality(Bytes(heap.mem, D)) + (heap.mem[p].next - p)
    BY <2>2, <1>1, BytesAdd DEF Used, Sound, Block
  <2>5. DOMAIN asked' = D
    BY <1>3
  <2> HIDE DEF D
  <2> QED
    BY <2>1, <2>2, <2>3, <2>4, <2>5 DEF Counted
<1> QED
  BY <1>2, <1>3, <1>4, <1>5, <1>6

LEMMA InPlaceOK ==
  ASSUME IInv, NEW p \in DOMAIN asked, NEW newsize \in Requests, ReallocInPlace(p, newsize)
  PROVE  /\ Sound(heap') /\ Tight(heap'.mem) /\ Held' /\ Fits' /\ Counted'
         /\ DOMAIN asked' = DOMAIN asked
<1>1. Sound(heap) /\ Tight(heap.mem) /\ p \in Block \ {End} /\ Held /\ Fits
  BY DEF IInv, Held, Used, Block
<1>2. asked' = [asked EXCEPT ![p] = newsize] /\ newsize \in Nat /\ newsize \in Sizes
  BY DEF ReallocInPlace, Sizes
<1>3. /\ Promised(newsize) \in Nat /\ Promised(newsize) <= Aligned(newsize)
      /\ Aligned(newsize) \in Nat /\ p \in Nat
  BY <1>1, <1>2, AlignedNat, MemType DEF Sound, Chain, Block
<1>4. /\ Sound(heap') /\ Tight(heap'.mem) /\ Used(heap'.mem) = Used(heap.mem)
      /\ Aligned(newsize) <= Room(heap'.mem, p)
      /\ \A x \in Used(heap.mem) \ {p} : heap'.mem[x].next = heap.mem[x].next
      /\ used_mem' = used_mem - (heap.mem[p].next - heap'.mem[p].next)
  <2>0. used_mem \in Nat /\ heap.mem[p].next \in Nat
    BY <1>1, UsedNat, MemType DEF IInv, Sound, Chain, Forth, Block
  <2>1. CASE ReallocSame(p, newsize)
    BY <2>0, <2>1, <1>1, <1>3 DEF ReallocSame
  <2>2. CASE ReallocShrink(p, newsize)
    <3>1. /\ Sound(heap') /\ Tight(heap'.mem) /\ Used(heap'.mem) = Used(heap.mem)
          /\ \A x \in Used(heap.mem) :
                heap'.mem[x].next =
                  (IF x = p THEN p + Hdr + Aligned(newsize) ELSE heap.mem[x].next)
      BY <2>2, <1>1, <1>2, ShrinkSound
    <3>2. p \in Used(heap.mem)
      BY <1>1 DEF Held
    <3>3. heap'.mem[p].next = p + Hdr + Aligned(newsize)
      BY <3>1, <3>2
    <3>4. Aligned(newsize) <= Room(heap'.mem, p)
      BY <3>3, <1>3 DEF Room
    <3>5. used_mem' = used_mem - (heap.mem[p].next - heap'.mem[p].next)
      BY <2>0, <2>2, <3>3, <1>3 DEF ReallocShrink, Room
    <3> QED
      BY <3>1, <3>4, <3>5
  <2> QED
    BY <2>1, <2>2 DEF ReallocInPlace
<1>5. Held'
  BY <1>2, <1>4 DEF IInv, Held
<1>6. Fits'
  <2>1. asked' \in [DOMAIN asked' -> Sizes]
    BY <1>1, <1>2 DEF Fits
  <2>2. Promised(newsize) <= Room(heap'.mem, p)
    <3>1. heap'.mem[p].next \in Nat
      BY <1>1, <1>4, MemType DEF Sound, Chain, Forth, Held, Used
    <3> QED
      BY <3>1, <1>2, <1>3, <1>4 DEF Room
  <2>3. ASSUME NEW x \in DOMAIN asked \ {p}
        PROVE  Promised(asked[x]) <= Room(heap'.mem, x)
    <3>1. x \in Used(heap.mem) \ {p}
      BY <1>1 DEF Held
    <3>2. Room(heap'.mem, x) = Room(heap.mem, x)
      BY <3>1, <1>4 DEF Room
    <3> QED
      BY <3>2, <1>1 DEF Fits
  <2> QED
    BY <2>1, <2>2, <2>3, <1>2 DEF Fits
<1>7. Counted'
  <2> DEFINE D == DOMAIN asked \ {p}
             C == Cardinality(Bytes(heap.mem, D))
  <2>1. DOMAIN asked = D \cup {p} /\ DOMAIN asked' = D \cup {p}
    BY <1>2
  <2>2. D \subseteq Used(heap.mem) \ {p, End} /\ D \subseteq Used(heap'.mem) \ {End}
        /\ p \in Used(heap.mem) \ {End} /\ p \in Used(heap'.mem) \ {End}
    BY <1>1, <1>4 DEF Held
  <2>3. Bytes(heap'.mem, D) = Bytes(heap.mem, D)
    BY <2>2, <1>4, BytesSame
  <2>4. /\ C \in Nat /\ heap.mem[p].next - p \in Nat
        /\ Cardinality(Bytes(heap.mem, D \cup {p})) = C + (heap.mem[p].next - p)
    BY <2>2, <1>1, BytesAdd DEF Used, Sound
  <2>5. /\ heap'.mem[p].next - p \in Nat
        /\ Cardinality(Bytes(heap'.mem, D \cup {p})) = C + (heap'.mem[p].next - p)
    BY <2>2, <2>3, <1>4, BytesAdd DEF Used, Sound
  <2>6. heap.mem[p].next \in Nat /\ heap'.mem[p].next \in Nat
    BY <2>2, <1>1, <1>4, MemType DEF Used, Sound, Chain, Forth
  <2>7. used_mem = Cardinality(Bytes(heap.mem, D \cup {p}))
    BY <2>1 DEF IInv, Counted
  <2> HIDE DEF C, D
  <2>8. used_mem' = Cardinality(Bytes(heap'.mem, D \cup {p}))
    BY <2>4, <2>5, <2>6, <2>7, <1>3, <1>4
  <2> QED
    BY <2>1, <2>8 DEF Counted
<1> QED
  BY <1>2, <1>4, <1>5, <1>6, <1>7

\* The blocks threads are moving stay held by one each.
LEMMA MoveStays ==
  ASSUME IInv, UNCHANGED move, DOMAIN asked \subseteq DOMAIN asked'
  PROVE  MoveOK'
  BY DEF IInv, MoveOK

\* Thread t changes what it moves; what the others move is still held, and theirs.
MovesOnly(t) ==
    /\ move' \in [Caller -> [from : Nat \cup {NoBlock}, size : Nat, to : Nat \cup {NoBlock}]]
    /\ \A u \in Caller : u # t => move'[u] = move[u]
    /\ move'[t].from # NoBlock => move'[t].size \in Requests
    /\ move'[t].to # NoBlock => move'[t].from # NoBlock
    /\ \A u \in Caller : {move'[u].from, move'[u].to} \subseteq DOMAIN asked' \cup {NoBlock}
    /\ \A u \in Caller : u # t =>
          {move'[t].from, move'[t].to} \cap {move[u].from, move[u].to} \subseteq {NoBlock}

LEMMA MoveWrite ==
  ASSUME MoveOK, NEW t \in Caller, MovesOnly(t)
  PROVE  MoveOK'
<1> DEFINE Of(u) == {move'[u].from, move'[u].to}
<1>1. \A u \in Caller : move'[u].from # NoBlock => move'[u].size \in Requests
  BY DEF MoveOK, MovesOnly
<1>2. \A u \in Caller : move'[u].to # NoBlock => move'[u].from # NoBlock
  BY DEF MoveOK, MovesOnly
<1>3. ASSUME NEW u \in Caller, u # t
      PROVE  Of(t) \cap Of(u) \subseteq {NoBlock}
  BY <1>3 DEF MovesOnly
<1>4. ASSUME NEW u \in Caller, NEW w \in Caller, u # w
      PROVE  Of(u) \cap Of(w) \subseteq {NoBlock}
  <2>1. CASE u = t
    BY <1>3, <1>4, <2>1
  <2>2. CASE w = t
    <3>1. Of(t) \cap Of(u) \subseteq {NoBlock}
      BY <1>3, <1>4, <2>2
    <3> HIDE DEF Of
    <3> QED
      BY <2>2, <3>1
  <2>3. CASE u # t /\ w # t
    <3>1. {move[u].from, move[u].to} \cap {move[w].from, move[w].to} \subseteq {NoBlock}
      BY <1>4 DEF MoveOK
    <3>2. move'[u] = move[u] /\ move'[w] = move[w]
      BY <2>3 DEF MovesOnly
    <3> QED
      BY <3>1, <3>2
  <2> QED
    BY <2>1, <2>2, <2>3
<1> QED
  BY <1>1, <1>2, <1>4 DEF MoveOK, MovesOnly

\* A thread ends its rt_realloc, and nothing another one moves has been freed.
LEMMA MoveEnds ==
  ASSUME MoveOK, NEW t \in Caller, move' = [move EXCEPT ![t] = NotMoving],
         \A u \in Caller : u # t =>
            {move[u].from, move[u].to} \subseteq DOMAIN asked' \cup {NoBlock}
  PROVE  MoveOK'
<1> DEFINE Move == [from : Nat \cup {NoBlock}, size : Nat, to : Nat \cup {NoBlock}]
<1>1. NotMoving \in Move /\ NotMoving.from = NoBlock /\ NotMoving.to = NoBlock
  BY DEF NotMoving
<1>2. move \in [Caller -> Move]
  BY DEF MoveOK
<1> HIDE DEF Move
<1>3. /\ move' \in [Caller -> Move] /\ move'[t] = NotMoving
      /\ \A u \in Caller : u # t => move'[u] = move[u]
  BY <1>1, <1>2
<1>4. \A u \in Caller : {move'[u].from, move'[u].to} \subseteq DOMAIN asked' \cup {NoBlock}
  BY <1>1, <1>3
<1>5. MovesOnly(t)
  BY <1>1, <1>3, <1>4 DEF MovesOnly, Move
<1> QED
  BY <1>5, MoveWrite

LEMMA StepOK == IInv /\ [Next]_vars => IInv'
<1> SUFFICES ASSUME IInv, [Next]_vars PROVE IInv'
  OBVIOUS
<1>1. CASE UNCHANGED vars
  BY <1>1 DEF vars, IInv, Held, Fits, Counted, MoveOK
<1>2. ASSUME NEW t \in Caller, MallocCall(t) PROVE IInv'
  <2>1. PICK n \in Requests, p \in Block : Malloc(n, p)
    BY <1>2 DEF MallocCall
  <2>2. Sound(heap') /\ Tight(heap'.mem) /\ Held' /\ Fits' /\ Counted' /\ DOMAIN asked' = DOMAIN asked \cup {p}
    BY <2>1, MallocOK DEF Sizes
  <2>3. MoveOK'
    BY <1>2, <2>2, MoveStays DEF MallocCall
  <2> QED
    BY <2>2, <2>3 DEF IInv
<1>3. ASSUME NEW t \in Caller, FreeCall(t) PROVE IInv'
  <2>1. PICK p \in DOMAIN asked : Free(p) /\ Release(p)
    BY <1>3 DEF FreeCall
  <2>2. Sound(heap') /\ Tight(heap'.mem) /\ Held' /\ Fits' /\ Counted' /\ DOMAIN asked' = DOMAIN asked \ {p}
    BY <2>1, ReleaseOK
  <2>3. MoveOK'
    <3>1. move' = move /\ MoveOK
      BY <1>3 DEF FreeCall, IInv
    <3>2. \A u \in Caller : {move[u].from, move[u].to} \subseteq DOMAIN asked'  \cup {NoBlock}
      BY <2>1, <2>2, <3>1 DEF Free, MoveOK
    <3> QED
      BY <3>1, <3>2 DEF MoveOK
  <2> QED
    BY <2>2, <2>3 DEF IInv
<1>4. ASSUME NEW t \in Caller, ReallocCall(t) PROVE IInv'
  <2>1. PICK p \in DOMAIN asked, newsize \in Requests :
          /\ Free(p)
          /\ \/ ReallocInPlace(p, newsize) /\ UNCHANGED move
             \/ ReallocMove(t, p, newsize)
    BY <1>4 DEF ReallocCall
  <2>2. p \in Nat /\ newsize \in Nat
    BY MemType DEF IInv, Held, Used, Sound, Chain
  <2>3. CASE ReallocInPlace(p, newsize) /\ UNCHANGED move
    <3>1. Sound(heap') /\ Tight(heap'.mem) /\ Held' /\ Fits' /\ Counted' /\ DOMAIN asked' = DOMAIN asked
      BY <2>2, <2>3, InPlaceOK
    <3>2. MoveOK'
      BY <2>3, <3>1, MoveStays
    <3> QED
      BY <3>1, <3>2 DEF IInv
  <2>4. CASE ReallocMove(t, p, newsize)
    <3>1. /\ move' = [move EXCEPT ![t] = [from |-> p, size |-> newsize, to |-> NoBlock]]
          /\ UNCHANGED <<heap, used_mem, asked>>
      BY <2>4 DEF ReallocMove
    <3>2. MoveOK'
      <4> DEFINE v == [from |-> p, size |-> newsize, to |-> NoBlock]
                 Move == [from : Nat \cup {NoBlock}, size : Nat, to : Nat \cup {NoBlock}]
      <4>1. v \in Move /\ v.from = p /\ v.size = newsize /\ v.to = NoBlock
        BY <2>2
      <4>2. MoveOK /\ move \in [Caller -> Move] /\ asked' = asked
        BY <3>1 DEF IInv, MoveOK
      <4>3. move' = [move EXCEPT ![t] = v]
        BY <3>1
      <4>4. \A u \in Caller : p \notin {move[u].from, move[u].to}
        BY <2>1 DEF Free
      <4> HIDE DEF v, Move
      <4>5. /\ move' \in [Caller -> Move] /\ move'[t] = v
            /\ \A u \in Caller : u # t => move'[u] = move[u]
        BY <4>1, <4>2, <4>3
      <4>6. \A u \in Caller : {move'[u].from, move'[u].to} \subseteq DOMAIN asked' \cup {NoBlock}
        BY <4>1, <4>2, <4>5 DEF MoveOK
      <4>7. \A u \in Caller : u # t =>
              {move'[t].from, move'[t].to} \cap {move[u].from, move[u].to} \subseteq {NoBlock}
        BY <4>1, <4>4, <4>5
      <4>8. MovesOnly(t)
        BY <4>1, <4>5, <4>6, <4>7 DEF MovesOnly, Move
      <4> QED
        BY <4>2, <4>8, MoveWrite
    <3> QED
      BY <3>1, <3>2 DEF IInv, Held, Fits, Counted
  <2> QED
    BY <2>1, <2>3, <2>4
<1>5. ASSUME NEW t \in Caller, ReallocMalloc(t) PROVE IInv'
  <2>1. PICK p \in Block : /\ Malloc(Aligned(move[t].size), p)
                           /\ move' = [move EXCEPT ![t].to = p]
    BY <1>5 DEF ReallocMalloc
  <2>2. Aligned(move[t].size) \in Sizes
    BY <1>5 DEF ReallocMalloc, IInv, MoveOK, Sizes
  <2>3. /\ Sound(heap') /\ Tight(heap'.mem) /\ Held' /\ Fits' /\ Counted'
        /\ p \notin DOMAIN asked /\ p \in Nat /\ DOMAIN asked' = DOMAIN asked \cup {p}
    BY <2>1, <2>2, MallocOK
  <2>4. MoveOK'
    <3> DEFINE v == [move[t] EXCEPT !.to = p]
               Move == [from : Nat \cup {NoBlock}, size : Nat, to : Nat \cup {NoBlock}]
    <3>1. MoveOK /\ move[t].from # NoBlock /\ move[t].to = NoBlock
          /\ move \in [Caller -> Move] /\ move[t] \in Move
      BY <1>5 DEF ReallocMalloc, IInv, MoveOK
    <3>2. v \in Move /\ v.from = move[t].from /\ v.size = move[t].size /\ v.to = p
      BY <2>3, <3>1
    <3>3. move' = [move EXCEPT ![t] = v]
      BY <2>1
    <3> HIDE DEF v, Move
    <3>4. /\ move' \in [Caller -> Move] /\ move'[t] = v
          /\ \A u \in Caller : u # t => move'[u] = move[u]
      BY <3>1, <3>2, <3>3
    <3>5. v.size \in Requests
      BY <3>1, <3>2 DEF MoveOK
    <3>6. \A u \in Caller : {move'[u].from, move'[u].to} \subseteq DOMAIN asked' \cup {NoBlock}
      BY <2>3, <3>1, <3>2, <3>4 DEF MoveOK
    <3>7. ASSUME NEW u \in Caller, u # t
          PROVE  {v.from, v.to} \cap {move[u].from, move[u].to} \subseteq {NoBlock}
      <4>1. {move[t].from, move[t].to} \cap {move[u].from, move[u].to} \subseteq {NoBlock}
        BY <3>1, <3>7 DEF MoveOK
      <4>2. {move[u].from, move[u].to} \subseteq DOMAIN asked \cup {NoBlock}
        BY <3>1 DEF MoveOK
      <4>3. p \notin DOMAIN asked \cup {NoBlock}
        BY <2>3, HeapAssumption
      <4> QED
        BY <3>2, <4>1, <4>2, <4>3
    <3>8. MovesOnly(t)
      BY <3>1, <3>2, <3>4, <3>5, <3>6, <3>7 DEF MovesOnly, Move
    <3> QED
      BY <3>1, <3>8, MoveWrite
  <2> QED
    BY <2>3, <2>4 DEF IInv
<1>6. ASSUME NEW t \in Caller, ReallocFails(t) PROVE IInv'
  <2>1. move' = [move EXCEPT ![t] = NotMoving] /\ UNCHANGED <<heap, used_mem, asked>>
    BY <1>6 DEF ReallocFails
  <2>2. MoveOK'
    <3>1. MoveOK /\ \A u \in Caller : {move[u].from, move[u].to} \subseteq DOMAIN asked' \cup {NoBlock}
      BY <2>1 DEF IInv, MoveOK
    <3> QED
      BY <2>1, <3>1, MoveEnds
  <2> QED
    BY <2>1, <2>2 DEF IInv, Held, Fits, Counted
<1>7. ASSUME NEW t \in Caller, ReallocFree(t) PROVE IInv'
  <2> DEFINE p == move[t].from
  <2>1. p \in DOMAIN asked /\ Release(p) /\ move' = [move EXCEPT ![t] = NotMoving]
    BY <1>7 DEF ReallocFree, IInv, MoveOK
  <2>2. Sound(heap') /\ Tight(heap'.mem) /\ Held' /\ Fits' /\ Counted' /\ DOMAIN asked' = DOMAIN asked \ {p}
    BY <2>1, ReleaseOK
  <2>3. MoveOK'
    <3>1. MoveOK
      BY DEF IInv
    <3>2. ASSUME NEW u \in Caller, u # t
          PROVE  {move[u].from, move[u].to} \subseteq DOMAIN asked' \cup {NoBlock}
      <4>1. {move[u].from, move[u].to} \subseteq DOMAIN asked \cup {NoBlock}
        BY <3>1 DEF MoveOK
      <4>2. {move[t].from, move[t].to} \cap {move[u].from, move[u].to} \subseteq {NoBlock}
        BY <3>1, <3>2 DEF MoveOK
      <4>3. p # NoBlock
        BY <2>1, <2>2, HeapAssumption, MemType DEF IInv, Held, Used, Sound, Chain
      <4> QED
        BY <2>2, <4>1, <4>2, <4>3
    <3> QED
      BY <2>1, <3>1, <3>2, MoveEnds
  <2> QED
    BY <2>2, <2>3 DEF IInv
<1> QED
  BY <1>1, <1>2, <1>3, <1>4, <1>5, <1>6, <1>7 DEF Next

\* What rt_system_heap_init sets up, no call of rt_malloc, rt_free and rt_realloc
\* breaks, in whatever order their sections come.
THEOREM Invariant == Spec => []IInv
  BY InitOK, StepOK, PTL DEF Spec

\* The headers lead from one to the next without gap or overlap, back and forth,
\* after any sequence of splits and merges.
THEOREM ChainWholeHolds == Spec => []ChainWhole
<1>1. IInv => ChainWhole
  BY DEF IInv, Sound, Chain, Ends, Forth, Back, ChainWhole, Block
<1> QED
  BY <1>1, Invariant, PTL

\* plug_holes leaves no two free blocks side by side, also behind a block that
\* rt_realloc has made shorter.
THEOREM HolesPluggedHolds == Spec => []HolesPlugged
<1>1. IInv => HolesPlugged
  BY DEF IInv, Tight, HolesPlugged, Block
<1> QED
  BY <1>1, Invariant, PTL

\* lfree, where rt_malloc starts, is the header of a free block, or End.
THEOREM LfreeIsFreeHolds == Spec => []LfreeIsFree
<1>1. IInv => LfreeIsFree
  BY DEF IInv, Sound, LfreeOK, LfreeIsFree, Block
<1> QED
  BY <1>1, Invariant, PTL

\* The blocks in use are those that callers hold, as long as was asked for
\* unless the request wrapped when it was aligned, and used_mem is what they take: rt_malloc, rt_free and the sections of rt_realloc
\* lose no memory, and count alike.
THEOREM UsedIsHeldHolds == Spec => []UsedIsHeld
<1>1. IInv => UsedIsHeld
  <2> SUFFICES ASSUME IInv PROVE UsedIsHeld
    OBVIOUS
  <2>1. {p \in Block \ {End} : heap.mem[p].used} = DOMAIN asked
    BY DEF IInv, Held, Used, Block
  <2>2. used_mem = Cardinality(UNION {p .. heap.mem[p].next - 1 : p \in DOMAIN asked})
    BY DEF IInv, Counted, Bytes
  <2> QED
    BY <2>1, <2>2 DEF IInv, Fits, UsedIsHeld
<1> QED
  BY <1>1, Invariant, PTL

-----------------------------------------------------------------------------
(* The areas of the callers. *)

\* live, as Heap gives it to Allocator.
Live == [a \in {p + Hdr : p \in DOMAIN asked} |-> Promised(asked[a - Hdr])]

LEMMA AskedNat == IInv => asked \in [DOMAIN asked -> Nat] /\ DOMAIN asked \subseteq Nat \cap (Block \ {End})
  BY SizesNat, MemType DEF IInv, Fits, Held, Used, Block, Sound, Chain

LEMMA LiveAt ==
  ASSUME IInv
  PROVE  /\ DOMAIN Live = {p + Hdr : p \in DOMAIN asked}
         /\ \A p \in DOMAIN asked : p + Hdr \in DOMAIN Live /\ Live[p + Hdr] = Promised(asked[p])
<1>1. DOMAIN asked \subseteq Nat
  BY AskedNat
<1>2. ASSUME NEW p \in DOMAIN asked PROVE Live[p + Hdr] = Promised(asked[p])
  <2>1. p \in Nat /\ (p + Hdr) - Hdr = p
    BY <1>1
  <2>2. p + Hdr \in {x + Hdr : x \in DOMAIN asked}
    OBVIOUS
  <2> QED
    BY <2>1, <2>2 DEF Live
<1> QED
  BY <1>2 DEF Live

\* The areas of two callers are apart, and within the heap.
LEMMA LiveDisjoint == IInv => Areas!Disjoint(Live)
<1> SUFFICES ASSUME IInv PROVE Areas!Disjoint(Live)
  OBVIOUS
<1>1. /\ asked \in [DOMAIN asked -> Nat] /\ DOMAIN asked \subseteq Nat
      /\ DOMAIN asked \subseteq DOMAIN heap.mem \ {End}
  BY AskedNat DEF Block
<1>2. ASSUME NEW p \in DOMAIN asked
      PROVE  /\ p \in Nat /\ Promised(asked[p]) \in Nat /\ heap.mem[p].next \in Nat
             /\ p + Hdr + Promised(asked[p]) <= heap.mem[p].next /\ heap.mem[p].next <= End
             /\ \A q \in DOMAIN asked : q <= p \/ q >= heap.mem[p].next
  <2>1. p \in Nat /\ Promised(asked[p]) \in Nat /\ p \in DOMAIN heap.mem \ {End}
    BY <1>1, AlignedNat
  <2>2. heap.mem[p].next \in 0 .. End
    BY <2>1, MemType DEF IInv, Sound, Chain, Forth
  <2>3. p + Hdr + Promised(asked[p]) <= heap.mem[p].next
    BY <2>1, <2>2 DEF IInv, Fits, Room
  <2>4. \A q \in DOMAIN asked : q <= p \/ q >= heap.mem[p].next
    BY <1>1, <2>1 DEF IInv, Sound, Chain, Forth
  <2> QED
    BY <2>1, <2>2, <2>3, <2>4
<1>3. ASSUME NEW p \in DOMAIN asked
      PROVE  (p + Hdr) .. (p + Hdr) + Promised(asked[p]) - 1 \subseteq 0 .. End - 1
  BY <1>2
<1>4. ASSUME NEW p \in DOMAIN asked, NEW q \in DOMAIN asked, p # q
      PROVE  ((p + Hdr) .. (p + Hdr) + Promised(asked[p]) - 1) \cap
             ((q + Hdr) .. (q + Hdr) + Promised(asked[q]) - 1) = {}
  <2>1. p < q \/ q < p
    BY <1>2, <1>4
  <2>2. CASE p < q
    <3>1. q >= heap.mem[p].next
      BY <1>2, <2>2
    <3> QED
      BY <3>1, <1>2
  <2>3. CASE q < p
    <3>1. p >= heap.mem[q].next
      BY <1>2, <2>3
    <3> QED
      BY <3>1, <1>2
  <2> QED
    BY <2>1, <2>2, <2>3
<1>5. ASSUME NEW a \in DOMAIN Live
      PROVE  /\ a .. a + Live[a] - 1 \subseteq 0 .. End - 1
             /\ \A c \in DOMAIN Live \ {a} :
                   (a .. a + Live[a] - 1) \cap (c .. c + Live[c] - 1) = {}
  <2>1. PICK p \in DOMAIN asked : a = p + Hdr
    BY LiveAt
  <2>2. Live[a] = Promised(asked[p])
    BY <2>1, LiveAt
  <2>3. ASSUME NEW c \in DOMAIN Live \ {a}
        PROVE  (a .. a + Live[a] - 1) \cap (c .. c + Live[c] - 1) = {}
    <3>1. PICK q \in DOMAIN asked : c = q + Hdr
      BY LiveAt
    <3>2. Live[c] = Promised(asked[q]) /\ p # q
      BY <3>1, <2>1, <2>3, LiveAt
    <3> QED
      BY <3>1, <3>2, <2>1, <2>2, <1>4
  <2> QED
    BY <2>1, <2>2, <2>3, <1>3
<1> QED
  BY <1>5 DEF Areas!Disjoint, Areas!Area

\* A block more, or another length for a block.
LEMMA GrantIsStep ==
  ASSUME IInv, IInv', NEW p \in Nat, NEW n \in Sizes,
         asked' = [x \in DOMAIN asked \cup {p} |-> IF x = p THEN n ELSE asked[x]]
  PROVE  Areas!Next
<1>1. Areas!Disjoint(Live)'
  BY LiveDisjoint, PTL
<1>2. DOMAIN asked' = DOMAIN asked \cup {p} /\ DOMAIN asked \subseteq Nat
  BY AskedNat
<1>3. /\ DOMAIN Live = {x + Hdr : x \in DOMAIN asked}
      /\ DOMAIN Live' = {x + Hdr : x \in DOMAIN asked'}
  BY DEF Live
<1>4. DOMAIN Live' = DOMAIN Live \cup {p + Hdr}
  BY <1>2, <1>3
<1>5. ASSUME NEW a \in DOMAIN Live'
      PROVE  Live'[a] = IF a = p + Hdr THEN Promised(n) ELSE Live[a]
  <2>1. PICK x \in DOMAIN asked' : a = x + Hdr
    BY <1>3
  <2>2. x \in Nat /\ a - Hdr = x
    BY <2>1, <1>2
  <2>3. Live'[a] = Promised(asked'[x])
    BY <2>1, <2>2 DEF Live
  <2>4. CASE x = p
    BY <2>1, <2>3, <2>4
  <2>5. CASE x # p
    <3>1. a # p + Hdr /\ x \in DOMAIN asked /\ asked'[x] = asked[x]
      BY <2>1, <2>2, <2>5, <1>2
    <3>2. Live[a] = Promised(asked[x])
      BY <3>1, <2>1, <2>2 DEF Live
    <3> QED
      BY <3>1, <3>2, <2>3
  <2> QED
    BY <2>4, <2>5
<1>6. Live' = [a \in DOMAIN Live \cup {p + Hdr} |-> IF a = p + Hdr THEN Promised(n) ELSE Live[a]]
  <2>1. Live' = [a \in DOMAIN Live' |-> Live'[a]]
    BY DEF Live
  <2> QED
    BY <2>1, <1>4, <1>5
<1>7. p + Hdr \in DOMAIN Live'
  BY <1>4
<1>8. Promised(n) \in {Promised(m) : m \in Requests \cup {Aligned(k) : k \in Requests}}
  BY DEF Sizes
<1>9. Areas!Grant
  <2> DEFINE L == {Promised(m) : m \in Requests \cup {Aligned(k) : k \in Requests}}
             v == Promised(n)
  <2>1. v \in L /\ Live' = [a \in DOMAIN Live \cup {p + Hdr} |-> IF a = p + Hdr THEN v ELSE Live[a]]
    BY <1>6, <1>8
  <2> HIDE DEF v, L
  <2>2. \E q \in DOMAIN Live', k \in L :
           Live' = [a \in DOMAIN Live \cup {q} |-> IF a = q THEN k ELSE Live[a]]
    BY <1>7, <2>1
  <2> QED
    BY <2>2 DEF Areas!Grant, Live, L
<1> QED
  BY <1>1, <1>9 DEF Areas!Next, Live

\* A block less.
LEMMA ReleaseIsStep ==
  ASSUME IInv, IInv', NEW p \in DOMAIN asked,
         asked' = [x \in DOMAIN asked \ {p} |-> asked[x]]
  PROVE  Areas!Next
<1>1. Areas!Disjoint(Live)'
  BY LiveDisjoint, PTL
<1>2. DOMAIN asked' = DOMAIN asked \ {p} /\ DOMAIN asked \subseteq Nat
  BY AskedNat
<1>3. /\ DOMAIN Live = {x + Hdr : x \in DOMAIN asked}
      /\ DOMAIN Live' = {x + Hdr : x \in DOMAIN asked'}
  BY DEF Live
<1>4. DOMAIN Live' = DOMAIN Live \ {p + Hdr}
  BY <1>2, <1>3
<1>5. ASSUME NEW a \in DOMAIN Live'
      PROVE  Live'[a] = Live[a]
  <2>1. PICK x \in DOMAIN asked' : a = x + Hdr
    BY <1>3
  <2>2. x \in Nat /\ a - Hdr = x
    BY <2>1, <1>2
  <2> QED
    BY <2>1, <2>2, <1>2 DEF Live
<1>6. Live' = [a \in DOMAIN Live \ {p + Hdr} |-> Live[a]]
  <2>1. Live' = [a \in DOMAIN Live' |-> Live'[a]]
    BY DEF Live
  <2> QED
    BY <2>1, <1>4, <1>5
<1>7. p + Hdr \in DOMAIN Live
  BY <1>3
<1>8. Areas!Release
  BY <1>6, <1>7 DEF Areas!Release, Live
<1> QED
  BY <1>1, <1>8 DEF Areas!Next, Live

LEMMA StepIsStep == IInv /\ IInv' /\ [Next]_vars => Areas!Next \/ UNCHANGED Live
<1> SUFFICES ASSUME IInv, IInv', [Next]_vars PROVE Areas!Next \/ UNCHANGED Live
  OBVIOUS
<1>1. CASE UNCHANGED asked
  BY <1>1 DEF Live
<1>2. ASSUME NEW n \in Sizes, NEW p \in Block, Malloc(n, p)
      PROVE  Areas!Next
  <2>1. p \in Nat
    BY MemType DEF IInv, Sound, Chain, Block
  <2> QED
    BY <1>2, <2>1, GrantIsStep DEF Malloc
<1>3. ASSUME NEW p \in DOMAIN asked, Release(p)
      PROVE  Areas!Next
  BY <1>3, ReleaseIsStep DEF Release
<1>4. ASSUME NEW p \in DOMAIN asked, NEW newsize \in Requests, ReallocInPlace(p, newsize)
      PROVE  Areas!Next
  <2>1. asked' = [x \in DOMAIN asked \cup {p} |-> IF x = p THEN newsize ELSE asked[x]]
    <3>1. asked \in [DOMAIN asked -> Nat] /\ asked' = [asked EXCEPT ![p] = newsize]
      BY <1>4, AskedNat DEF ReallocInPlace
    <3> QED
      BY <3>1
  <2>2. p \in Nat /\ newsize \in Sizes
    BY AskedNat DEF Sizes
  <2> QED
    BY <2>1, <2>2, GrantIsStep
<1>5. ASSUME NEW t \in Caller, MallocCall(t) PROVE Areas!Next
  BY <1>5, <1>2 DEF MallocCall, Sizes
<1>6. ASSUME NEW t \in Caller, FreeCall(t) PROVE Areas!Next
  BY <1>6, <1>3 DEF FreeCall
<1>7. ASSUME NEW t \in Caller, ReallocCall(t) PROVE Areas!Next \/ UNCHANGED asked
  BY <1>7, <1>4 DEF ReallocCall, ReallocMove
<1>8. ASSUME NEW t \in Caller, ReallocMalloc(t) PROVE Areas!Next
  BY <1>8, <1>2 DEF ReallocMalloc, IInv, MoveOK, Sizes
<1>9. ASSUME NEW t \in Caller, ReallocFails(t) PROVE UNCHANGED asked
  BY <1>9 DEF ReallocFails
<1>10. ASSUME NEW t \in Caller, ReallocFree(t) PROVE Areas!Next
  BY <1>10, <1>3 DEF ReallocFree, IInv, MoveOK
<1> QED
  BY <1>1, <1>5, <1>6, <1>7, <1>8, <1>9, <1>10 DEF Next, vars

\* The heap implements what its users rely on: the area a call returns is within
\* the heap, as long as was asked for unless the request wrapped when it was
\* aligned, and apart from all the others in use.
THEOREM ImplementsAllocatorHolds == Spec => ImplementsAllocator
<1>1. Init => Areas!Init
  BY DEF Init, Areas!Init
<1>2. IInv /\ IInv' /\ [Next]_vars => Areas!Next \/ UNCHANGED Live
  BY StepIsStep
<1>3. IInv /\ IInv' /\ [Next]_vars => [Areas!Next]_(Live)
  BY <1>2
<1> QED
  BY <1>1, <1>3, Invariant, PTL DEF Spec, ImplementsAllocator, Areas!Spec, Live
=============================================================================
