-------------------------- MODULE MCHeapAllocator --------------------------
(* Instances of HeapAllocator for TLC, with units of two bytes. *)
EXTENDS HeapAllocator

\* Two pieces of memory that touch (the second one ends in an odd byte, which is
\* cut off), and one that add_memory refuses.
Pieces == {[ptr |-> 2, size |-> 6], [ptr |-> 8, size |-> 7], [ptr |-> 15, size |-> 3]}

SmallSizes == {1, 4}
SmallAligns == {1, 4, 8}

=============================================================================
