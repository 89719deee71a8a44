------------------------------ MODULE PhysAddr ------------------------------
(***************************************************************************)
(* Physical addresses, frames and ranges of frames: PhysAddr of            *)
(* mm/addr.rs, PhysFrame and FrameRange of mm/frame.rs.                    *)
(*                                                                         *)
(* An address is a number below PhysLimit, a frame is its index, and an    *)
(* Option is a set with at most one element.  usize is wider than an       *)
(* address by far: the sums here do not overflow it.                       *)
(***************************************************************************)
EXTENDS Integers

CONSTANTS
    PageSize,    \* PAGE_SIZE
    PhysLimit    \* 2^52: PhysAddr::MAX + 1

ASSUME PhysAssumption ==
    /\ PageSize \in Nat \ {0}
    /\ PhysLimit \in Nat
    /\ PhysLimit % PageSize = 0

CeilDiv(a, b) == (a + b - 1) \div b

\* PhysAddr::new refuses what does not fit into 52 bits.
IsPhys(addr) == addr < PhysLimit
PhysNew(addr) == {a \in {addr} : IsPhys(a)}

\* align_up before its call of new, and after it; checked_add.
AlignUp(a, b) == CeilDiv(a, b) * b
PhysAlignUp(addr) == PhysNew(AlignUp(addr, PageSize))
PhysCheckedAdd(addr, n) == PhysNew(addr + n)

Frames == 0..((PhysLimit \div PageSize) - 1)

\* PhysFrame::containing, by its index (align_down cuts off the offset in the
\* frame), and from_index.
Containing(addr) == addr \div PageSize
FromIndex(i) == {f \in {i} : IsPhys(f * PageSize)}

-----------------------------------------------------------------------------
(* FrameRange: [start, end], both inclusive *)

FrameRanges == [start : Frames, end : Frames]

FromAddrLen(base, len) ==
    {[start |-> Containing(base), end |-> Containing(last)] :
        last \in IF len = 0 THEN {} ELSE PhysCheckedAdd(base, len - 1)}

RangeIsEmpty(r) == r.start > r.end
RangeLen(r) == IF RangeIsEmpty(r) THEN 0 ELSE r.end - r.start + 1
RangeContains(r, f) == f >= r.start /\ f <= r.end

\* Iterator::next: the frame it yields, and the range it leaves.  The ? returns
\* None when the frame after the one to be yielded does not exist.
RangeNext(r) ==
    IF r.start <= r.end /\ FromIndex(r.start + 1) # {}
    THEN [item |-> {r.start}, rest |-> [r EXCEPT !.start = @ + 1]]
    ELSE [item |-> {}, rest |-> r]

=============================================================================
