----------------------------- MODULE RangePool -----------------------------
(***************************************************************************)
(* What every allocator of the kernel promises its callers: cells (frames, *)
(* pages of virtual address space, bytes of the heap) are either free or   *)
(* part of exactly one range that was handed out and not yet returned.     *)
(*                                                                         *)
(* FrameAllocator, RegionAllocator and HeapAllocator are shown to          *)
(* implement this specification.                                           *)
(***************************************************************************)
EXTENDS Integers

VARIABLES
    free,    \* the free cells
    held     \* the ranges handed out: records [base, size]

poolVars == <<free, held>>

Cells(r) == r.base..(r.base + r.size - 1)
HeldCells == UNION {Cells(r) : r \in held}

PoolInit == held = {}

\* Cells that belong to nobody are added.
Donate ==
    /\ free \subseteq free'
    /\ free' \cap HeldCells = {}
    /\ held' = held

Alloc ==
    \E r \in held' \ held :
        /\ Cells(r) \subseteq free
        /\ free' = free \ Cells(r)
        /\ held' = held \union {r}

Free ==
    \E r \in held \ held' :
        /\ free' = free \union Cells(r)
        /\ held' = held \ {r}

PoolNext == Donate \/ Alloc \/ Free

PoolSpec == PoolInit /\ [][PoolNext]_poolVars

\* No cell is handed out twice, or handed out while it is free.
NoCellTwice ==
    /\ \A r \in held : Cells(r) \cap free = {}
    /\ \A r, s \in held : r # s => Cells(r) \cap Cells(s) = {}

=============================================================================
