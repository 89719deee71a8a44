---------------------------- MODULE MCMemoryInit ----------------------------
(* Instances of MemoryInit for TLC. *)
EXTENDS MemoryInit

\* The boot loader lists its entries by address and none overlaps the next one;
\* all of those with two entries, whatever their alignment and length.
TwoEntryMaps ==
    {m \in [1..2 -> [base : 0..PhysLimit, length : 0..PhysLimit, usable : BOOLEAN]] :
        /\ EntryEnd(m[1]) <= m[2].base
        /\ EntryEnd(m[2]) <= PhysLimit}

\* Three page-aligned entries.
PageMultiples == {k * PageSize : k \in 0..(PhysLimit \div PageSize)}
AlignedMaps ==
    {m \in [1..3 -> [base : PageMultiples, length : PageMultiples \ {0}, usable : BOOLEAN]] :
        /\ m[1].usable \/ m[2].usable
        /\ EntryEnd(m[1]) <= m[2].base
        /\ EntryEnd(m[2]) <= m[3].base
        /\ EntryEnd(m[3]) < PhysLimit}

AllMaps == TwoEntryMaps \union AlignedMaps

NoWords == {}

=============================================================================
