-------------------------- MODULE MCFrameAllocator --------------------------
(* Instances of FrameAllocator for TLC. *)
EXTENDS FrameAllocator

\* An owner stores the index of a frame, or the end mark, where the link was.
LinkLikeWords == {1, FREE_LIST_EMPTY}

=============================================================================
