------------------------- MODULE MCRegionAllocator -------------------------
(* Instances of RegionAllocator for TLC. *)
EXTENDS RegionAllocator

SmallSizes == {1, 2, 3}
SmallAligns == {1, 2, 4}

=============================================================================
