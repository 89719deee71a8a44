------------------------------ MODULE AddrMap ------------------------------
(***************************************************************************)
(* What the trait Mapper (mm/paging/mod.rs) promises: a map from pages to  *)
(* frames with flags, of which every operation changes one page.           *)
(* PageTables is shown to implement it.                                    *)
(***************************************************************************)
CONSTANTS
    Pages,      \* the page-aligned virtual addresses
    None        \* what translate returns for a page that is not mapped

VARIABLE map    \* page -> [frame, flags], or None

\* No two pages are mapped to the same frame: map takes an OwnedFrame.
Map ==
    \E v \in Pages :
        /\ map[v] = None
        /\ map'[v] # None
        /\ \A w \in Pages \ {v} : map'[w] = map[w] /\ (map[w] # None => map[w].frame # map'[v].frame)

Unmap ==
    \E v \in Pages :
        /\ map[v] # None
        /\ map' = [map EXCEPT ![v] = None]

Remap ==
    \E v \in Pages :
        /\ map[v] # None
        /\ map'[v] # None
        /\ map'[v].frame = map[v].frame
        /\ map' = [map EXCEPT ![v] = map'[v]]

MapInit == map = [v \in Pages |-> None]
MapSpec == MapInit /\ [][Map \/ Unmap \/ Remap]_map

=============================================================================
