-------------------------------- MODULE Heap --------------------------------
(***************************************************************************)
(* The heap of src/rt-thread/src/mem.c.  Every block starts with a header  *)
(* that says whether it is used and where the next and the previous block  *)
(* start; the blocks fill the heap from address 0 to the header End, which *)
(* is used for ever.  Addresses are those of headers, relative to heap_ptr.*)
(*                                                                         *)
(* The semaphore heap_sem, of one unit, is taken around each section, so a *)
(* section is one step here; rt_realloc may take three.  The header of a   *)
(* block that was merged into another is forgotten, and the prev of End,   *)
(* which nobody reads, stays as it was.                                    *)
(***************************************************************************)
EXTENDS Integers, FiniteSets

CONSTANTS
    Caller,    \* the threads
    Size,      \* mem_size_aligned
    Hdr,       \* SIZEOF_STRUCT_MEM
    MinSize,   \* MIN_SIZE, which is aligned
    AlignSize, \* RT_ALIGN_SIZE
    SizeMod,   \* 2^32: an rt_size_t wraps there
    Requests,  \* the sizes asked for
    NoBlock    \* RT_NULL

ASSUME HeapAssumption ==
    /\ AlignSize \in Nat \ {0} /\ Hdr \in Nat \ {0} /\ MinSize \in Nat \ {0}
    /\ MinSize % AlignSize = 0
    /\ Size \in Nat /\ Size >= MinSize
    /\ Requests \subseteq Nat
    /\ NoBlock \notin Nat

ASSUME WidthAssumption ==
    /\ SizeMod \in Nat /\ SizeMod > Size + Hdr + MinSize /\ SizeMod % AlignSize = 0
    /\ \A n \in Requests : n < SizeMod

VARIABLES
    heap,      \* mem: the headers, and lfree
    used_mem,
    asked,     \* the blocks callers hold |-> the size they asked for (history)
    move       \* the rt_realloc a thread is in between two sections

vars == <<heap, used_mem, asked, move>>

End == Size + Hdr
Block == DOMAIN heap.mem

\* RT_ALIGN, in 32 bits: the last sizes before SizeMod are rounded up to 0.
Aligned(n) == (((n + AlignSize - 1) % SizeMod) \div AlignSize) * AlignSize

\* The size of the block rt_malloc looks for.
Rounded(n) == IF Aligned(n) < MinSize THEN MinSize ELSE Aligned(n)

\* The bytes of block p after its header, in the headers m.
Room(m, p) == m[p].next - (p + Hdr)

NotMoving == [from |-> NoBlock, size |-> 0, to |-> NoBlock]

\* rt_system_heap_init
Init ==
    /\ heap = [mem |-> [p \in {0, End} |-> [used |-> p = End, next |-> End, prev |-> p]],
               lfree |-> 0]
    /\ used_mem = 0
    /\ asked = [p \in {} |-> 0]
    /\ move = [t \in Caller |-> NotMoving]

-----------------------------------------------------------------------------
(* Splitting and merging. *)

\* Block p keeps n bytes, the rest becomes a free block q.
Split(h, p, n) ==
    LET q  == p + Hdr + n
        nx == h.mem[p].next
    IN  [h EXCEPT !.mem =
           [x \in DOMAIN @ \cup {q} |->
              CASE x = q -> [used |-> FALSE, next |-> nx, prev |-> p]
                [] x = p -> [@[p] EXCEPT !.next = q]
                [] x = nx /\ nx # End -> [@[nx] EXCEPT !.prev = q]
                [] OTHER -> @[x]]]

\* Mutant of Join: the block after is not told.
JoinOneWay(h, p) ==
    LET n == h.mem[p].next
    IN  [mem |-> [x \in DOMAIN h.mem \ {n} |->
                    IF x = p THEN [h.mem[p] EXCEPT !.next = h.mem[n].next] ELSE h.mem[x]],
         lfree |-> IF h.lfree = n THEN p ELSE h.lfree]

\* Block p swallows the block after it.
Join(h, p) ==
    LET n  == h.mem[p].next
        nx == h.mem[n].next
    IN  [mem |-> [x \in DOMAIN h.mem \ {n} |->
                    CASE x = p -> [h.mem[p] EXCEPT !.next = nx]
                      [] x = nx /\ nx # End -> [h.mem[nx] EXCEPT !.prev = p]
                      [] OTHER -> h.mem[x]],
         lfree |-> IF h.lfree = n THEN p ELSE h.lfree]

\* The two halves of plug_holes.
PlugForward(h, p) ==
    LET n == h.mem[p].next
    IN  IF n # p /\ ~ h.mem[n].used /\ n # End THEN Join(h, p) ELSE h

PlugBackward(h, p) ==
    LET b == h.mem[p].prev
    IN  IF b # p /\ ~ h.mem[b].used THEN Join(h, b) ELSE h

\* Mutant of PlugHoles: the block before is not looked at.
PlugHolesForward(h, p) == PlugForward(h, p)

PlugHoles(h, p) == PlugBackward(PlugForward(h, p), p)

-----------------------------------------------------------------------------
(* rt_malloc *)

\* The blocks the loop over the heap, from lfree on, would take for n bytes:
\* it takes the first one.
Fitting(n) ==
    {p \in Block : /\ p >= heap.lfree /\ p < Size - n
                   /\ ~ heap.mem[p].used
                   /\ Room(heap.mem, p) >= n}

\* Block p is marked used, and the rest split off when it can be a block.
Taken(p, n) ==
    LET h == IF Room(heap.mem, p) >= n + Hdr + MinSize THEN Split(heap, p, n) ELSE heap
    IN  [h EXCEPT !.mem[p].used = TRUE]

\* What lfree may become: when it has been taken, the next free block.
LowestFree(h) ==
    {f \in DOMAIN h.mem :
        /\ f >= h.lfree
        /\ f = End \/ ~ h.mem[f].used
        /\ \A q \in DOMAIN h.mem : h.lfree <= q /\ q < f => h.mem[q].used}

Malloc(n, p) ==
    /\ n # 0 /\ Aligned(n) <= Size
    /\ p \in Fitting(Rounded(n))
    /\ \A q \in Fitting(Rounded(n)) : p <= q
    /\ LET h == Taken(p, Rounded(n))
       IN  /\ \E f \in LowestFree(h) : heap' = [h EXCEPT !.lfree = f]
           /\ used_mem' = used_mem + (h.mem[p].next - p)
    /\ asked' = [x \in DOMAIN asked \cup {p} |-> IF x = p THEN n ELSE asked[x]]

\* A pointer belongs to its holder alone while that is inside rt_realloc.
Free(p) == p \in DOMAIN asked /\ \A t \in Caller : p \notin {move[t].from, move[t].to}

Outside(t) == move[t] = NotMoving

MallocCall(t) ==
    /\ Outside(t)
    /\ \E n \in Requests, p \in Block : Malloc(n, p)
    /\ UNCHANGED move

-----------------------------------------------------------------------------
(* rt_free *)

Release(p) ==
    /\ LET h == [heap EXCEPT !.mem[p].used = FALSE,
                             !.lfree = IF p < @ THEN p ELSE @]
       IN  heap' = PlugHoles(h, p)
    /\ used_mem' = used_mem - (heap.mem[p].next - p)
    /\ asked' = [x \in DOMAIN asked \ {p} |-> asked[x]]

FreeCall(t) ==
    /\ Outside(t)
    /\ \E p \in DOMAIN asked : Free(p) /\ Release(p)
    /\ UNCHANGED move

-----------------------------------------------------------------------------
(* rt_realloc *)

\* Mutant of ReallocShrink: the header of the rest is not counted as free.
ReallocShrinkUncounted(p, newsize) ==
    LET n == Aligned(newsize)
        q == p + Hdr + n
    IN  /\ n + Hdr + MinSize < Room(heap.mem, p)
        /\ heap' = PlugHoles(Split(heap, p, n), q)
        /\ used_mem' = used_mem - (Room(heap.mem, p) - n) + Hdr

\* The block is long enough as it is, or its end is split off.
ReallocSame(p, newsize) ==
    /\ Room(heap.mem, p) = Aligned(newsize)
    /\ UNCHANGED <<heap, used_mem>>

ReallocShrink(p, newsize) ==
    LET n == Aligned(newsize)
        q == p + Hdr + n
    IN  /\ n + Hdr + MinSize < Room(heap.mem, p)
        /\ heap' = PlugHoles(Split(heap, p, n), q)
        /\ used_mem' = used_mem - (Room(heap.mem, p) - n)

\* Mutant of ReallocInPlace: the length of the block is not looked at.
ReallocInPlaceAlways(p, newsize) ==
    /\ ReallocSame(p, newsize) \/ ReallocShrink(p, newsize)
       \/ (Room(heap.mem, p) < Aligned(newsize) /\ UNCHANGED <<heap, used_mem>>)
    /\ asked' = [asked EXCEPT ![p] = newsize]

ReallocInPlace(p, newsize) ==
    /\ ReallocSame(p, newsize) \/ ReallocShrink(p, newsize)
    /\ asked' = [asked EXCEPT ![p] = newsize]

\* Otherwise the section ends, and rt_malloc is called.
ReallocMove(t, p, newsize) ==
    LET n == Aligned(newsize)
    IN  /\ Room(heap.mem, p) # n /\ n + Hdr + MinSize >= Room(heap.mem, p)
        /\ move' = [move EXCEPT ![t] = [from |-> p, size |-> newsize, to |-> NoBlock]]
        /\ UNCHANGED <<heap, used_mem, asked>>

ReallocCall(t) ==
    /\ Outside(t)
    /\ \E p \in DOMAIN asked, newsize \in Requests :
         /\ Free(p) /\ Aligned(newsize) <= Size
         /\ \/ ReallocInPlace(p, newsize) /\ UNCHANGED move
            \/ ReallocMove(t, p, newsize)

ReallocMalloc(t) ==
    /\ move[t].from # NoBlock /\ move[t].to = NoBlock
    /\ \E p \in Block :
         /\ Malloc(Aligned(move[t].size), p)
         /\ move' = [move EXCEPT ![t].to = p]

\* No memory: rt_realloc returns RT_NULL, and the caller keeps the old block.
ReallocFails(t) ==
    /\ move[t].from # NoBlock /\ move[t].to = NoBlock
    /\ Aligned(move[t].size) = 0 \/ Fitting(Rounded(move[t].size)) = {}
    /\ move' = [move EXCEPT ![t] = NotMoving]
    /\ UNCHANGED <<heap, used_mem, asked>>

\* The bytes are copied, then the old block is freed.
ReallocFree(t) ==
    /\ move[t].to # NoBlock
    /\ Release(move[t].from)
    /\ move' = [move EXCEPT ![t] = NotMoving]

-----------------------------------------------------------------------------
Next == \E t \in Caller :
    \/ MallocCall(t) \/ FreeCall(t) \/ ReallocCall(t)
    \/ ReallocMalloc(t) \/ ReallocFails(t) \/ ReallocFree(t)

Spec == Init /\ [][Next]_vars
-----------------------------------------------------------------------------
\* The headers lead from one to the next without gap or overlap, back and forth,
\* whatever was split and merged: plug_holes and the loop of rt_malloc follow
\* them without a test.
ChainWhole ==
    /\ {0, End} \subseteq Block /\ heap.mem[End].used /\ heap.mem[0].prev = 0
    /\ \A p \in Block \ {End} :
         LET n == heap.mem[p].next
         IN  /\ n \in Block /\ p + Hdr <= n
             /\ \A q \in Block : q <= p \/ q >= n
             /\ n # End => heap.mem[n].prev = p

\* No two free blocks are side by side ("if not we have 2 unused structs in a
\* row, plug_holes should have take care of this", mem.c:313), on which rt_malloc
\* relies when it does not split.
HolesPlugged ==
    \A p \in Block \ {End} : heap.mem[p].used \/ heap.mem[heap.mem[p].next].used

\* lfree never leads to a used block or into the middle of one (the RT_ASSERT of
\* mem.c:335, between any two calls).  It need not be the lowest free block, since
\* rt_realloc does not lower it when it splits one off.
LfreeIsFree == heap.lfree \in Block /\ (heap.lfree = End \/ ~ heap.mem[heap.lfree].used)

\* The bytes a request for n may count on: none when it wraps.
Promised(n) == IF n + AlignSize - 1 < SizeMod THEN n ELSE 0

\* The blocks in use are those that callers hold, each as long as was asked for
\* unless the request wrapped, and used_mem is the number of bytes they take,
\* headers included: no memory is lost, also by an rt_realloc that was
\* interrupted half-way, and rt_malloc with and without a split, rt_realloc and
\* rt_free count alike.
UsedIsHeld ==
    /\ {p \in Block \ {End} : heap.mem[p].used} = DOMAIN asked
    /\ \A p \in DOMAIN asked : Promised(asked[p]) <= Room(heap.mem, p)
    /\ used_mem = Cardinality(UNION {p .. heap.mem[p].next - 1 : p \in DOMAIN asked})

\* The areas after the headers implement what the users rely on.
Areas == INSTANCE Allocator WITH
            Addr <- 0 .. End - 1,
            Lengths <- {Promised(n) : n \in Requests \cup {Aligned(m) : m \in Requests}},
            live <- [a \in {p + Hdr : p \in DOMAIN asked} |-> Promised(asked[a - Hdr])]
ImplementsAllocator == Areas!Spec
=============================================================================
