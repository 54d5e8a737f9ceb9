----------------------------- MODULE Allocator -----------------------------
(***************************************************************************)
(* What the users of rt_malloc, rt_realloc and rt_free rely on: an area    *)
(* they hold is theirs alone, as long as they asked for, until they free   *)
(* it or shrink it.                                                        *)
(***************************************************************************)
EXTENDS Integers, FiniteSets

CONSTANTS
    Addr,     \* the addresses of the heap
    Lengths   \* the lengths asked for

VARIABLE live   \* the areas in use: the first address |-> the length

Area(f, p) == p .. p + f[p] - 1

Disjoint(f) ==
    \A p \in DOMAIN f :
        /\ Area(f, p) \subseteq Addr
        /\ \A q \in DOMAIN f \ {p} : Area(f, p) \cap Area(f, q) = {}

Init == live = [p \in {} |-> 0]

\* A new area somewhere, or the same place for another length.
Grant ==
    \E p \in DOMAIN live', n \in Lengths :
        live' = [x \in DOMAIN live \cup {p} |-> IF x = p THEN n ELSE live[x]]

Release == \E p \in DOMAIN live : live' = [x \in DOMAIN live \ {p} |-> live[x]]

Next == (Grant \/ Release) /\ Disjoint(live')

Spec == Init /\ [][Next]_live
=============================================================================
