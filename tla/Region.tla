------------------------------- MODULE Region -------------------------------
(***************************************************************************)
(* mm/vm/region.rs: the operations on the slot array of a RegionAllocator, *)
(* as functions from slots to slots.  The array `slots[..len]' is a        *)
(* sequence; positions count from 1.  Everything is a multiple of          *)
(* PAGE_SIZE, so addresses, sizes and alignments count pages; a request    *)
(* that is not is refused before anything changes, and left out.           *)
(***************************************************************************)
EXTENDS Integers, SequencesExt

CONSTANTS
    Capacity,    \* CAPACITY: 64
    AddrTop      \* 2^64, in pages: where usize overflows

ASSUME RegionAssumption ==
    /\ Capacity \in Nat \ {0}
    /\ AddrTop \in Nat

Cells(r) == r.base..(r.base + r.size - 1)
FreeCells(s) == UNION {Cells(s[i]) : i \in DOMAIN s}

\* Region::is_left_adjacent_to.
LeftAdjacent(left, right) == left.base + left.size = right.base

\* The outcome of an operation: what it returns and the slots it leaves.
Outcome(res, slots, region) == [res |-> res, slots |-> slots, region |-> region]
NoRegion == [base |-> 0, size |-> 0]

\* The variants before some definitions are deliberately wrong; they are used by
\* no specification and show that a property can fail.

\* Only the right neighbour is merged.
TryMergeRight(s, pos) ==
    IF pos < Len(s) /\ LeftAdjacent(s[pos], s[pos + 1])
    THEN RemoveAt([s EXCEPT ![pos].size = @ + s[pos + 1].size], pos + 1)
    ELSE s

\* try_merge_at: the right neighbour first, then the left one.
TryMergeAt(s, pos) ==
    LET m == IF pos < Len(s) /\ LeftAdjacent(s[pos], s[pos + 1])
             THEN RemoveAt([s EXCEPT ![pos].size = @ + s[pos + 1].size], pos + 1)
             ELSE s
    IN  IF pos > 1 /\ LeftAdjacent(m[pos - 1], m[pos])
        THEN RemoveAt([m EXCEPT ![pos - 1].size = @ + m[pos].size], pos)
        ELSE m

\* The search ends one slot too far: the region goes behind the first slot that
\* lies above it.
PartitionPointLate(s, base) ==
    LET p == Cardinality({i \in DOMAIN s : s[i].base < base}) + 1
    IN  IF p <= Len(s) THEN p + 1 ELSE p

\* partition_point over the sorted slots: the first position whose base is not
\* below `base'.
PartitionPoint(s, base) == Cardinality({i \in DOMAIN s : s[i].base < base}) + 1

\* add_region, which is free() too; insert_at refuses when every slot is taken.
AddRegion(s, r) ==
    LET pos == PartitionPoint(s, r.base)
    IN  IF Len(s) >= Capacity
        THEN Outcome("TrackerFull", s, r)
        ELSE Outcome("Ok", TryMergeAt(InsertAt(s, pos, r), pos), r)

AlignUp(a, align) == ((a + align - 1) \div align) * align

\* The room test without the padding.
FitsUnpadded(slot, size, align) ==
    slot.base + align <= AddrTop /\ slot.size >= size

\* The closure alloc gives to find_map: the checked additions and the room test.
Fits(slot, size, align) ==
    /\ slot.base + align <= AddrTop
    /\ slot.size >= AlignUp(slot.base, align) - slot.base + size

\* alloc returns the padding in front of the range to nobody.
AllocLosesHead(s, size, align) ==
    LET i == SelectInSeq(s, LAMBDA slot : Fits(slot, size, align))
    IN  IF i = 0
        THEN Outcome("OutOfVirtualMemory", s, NoRegion)
        ELSE LET base == AlignUp(s[i].base, align)
                 tail == s[i].size - (base - s[i].base) - size
                 s1   == RemoveAt(s, i)
             IN  Outcome("Ok",
                         IF tail = 0 THEN s1
                         ELSE InsertAt(s1, i, [base |-> base + size, size |-> tail]),
                         [base |-> base, size |-> size])

\* alloc: the first slot with room is taken out and what is left of it before and
\* after the aligned range goes back, each piece with insert_at(..).expect(..).
Alloc(s, size, align) ==
    LET i == SelectInSeq(s, LAMBDA slot : Fits(slot, size, align))
    IN  IF i = 0
        THEN Outcome("OutOfVirtualMemory", s, NoRegion)
        ELSE LET base == AlignUp(s[i].base, align)
                 pad  == base - s[i].base
                 tail == s[i].size - pad - size
                 s1   == RemoveAt(s, i)
                 s2   == IF pad = 0 THEN s1
                         ELSE InsertAt(s1, i, [base |-> s[i].base, size |-> pad])
                 pos  == IF pad = 0 THEN i ELSE i + 1
             IN  IF tail > 0 /\ Len(s2) >= Capacity
                 THEN Outcome("panic", s2, NoRegion)
                 ELSE Outcome("Ok",
                              IF tail = 0 THEN s2
                              ELSE InsertAt(s2, pos, [base |-> base + size, size |-> tail]),
                              [base |-> base, size |-> size])

=============================================================================
