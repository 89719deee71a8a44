----------------------------- MODULE MemoryInit -----------------------------
(***************************************************************************)
(* mm::init::init: the bootstrap of the frame allocator from the memory    *)
(* map of the boot loader.  The bitmap is carved out of the first usable   *)
(* entry that can hold it, and what is left of the usable entries goes to  *)
(* the allocator, one add_region call after the other.                     *)
(*                                                                         *)
(* The whole function runs with FRAME_ALLOCATOR locked; its steps are the  *)
(* calls it makes.  AddRegion is used here without its contract: that init *)
(* meets the contract is what is checked.                                  *)
(***************************************************************************)
EXTENDS FrameAllocator

CONSTANT Memmaps     \* the memory maps: sequences of [base, length, usable]

VARIABLES
    memmap,          \* the boot loader's response
    carved,          \* [base, size] of the bitmap
    entry, part,     \* the loop over the entries: index, and "below" or "above"
    published        \* *guard = Some(allocator)

initVars == <<memmap, carved, entry, part, published>>

EntryEnd(e) == e.base + e.length
Usable == {i \in DOMAIN memmap : memmap[i].usable}
Entry == memmap[entry]
CarvedEnd == carved.base + carved.size

MaxPhys == Max({EntryEnd(memmap[i]) : i \in Usable})

\* The variants just before some definitions are deliberately wrong and used by no
\* specification.

\* The number of bytes is rounded down.
BitmapSizeFloor ==
    CeilDiv(CeilDiv(MaxPhys, PageSize) \div ByteBits, PageSize) * PageSize

\* bitmap_size: one bit per frame, rounded up to bytes and then to whole pages.
BitmapSize ==
    CeilDiv(CeilDiv(CeilDiv(MaxPhys, PageSize), ByteBits), PageSize) * PageSize

Init ==
    /\ memmap \in Memmaps
    /\ carved = [base |-> 0, size |-> 0]
    /\ entry = 0
    /\ part = "below"
    /\ published = FALSE
    /\ AllocInit

\* Up to BitmapAllocator::new.
Carve ==
    /\ phase = "none"
    /\ LET fits == {i \in Usable : memmap[i].length >= BitmapSize}
       IN  IF Usable = {} \/ fits = {}
           THEN Panic /\ UNCHANGED initVars
           ELSE /\ carved' = [base |-> memmap[Min(fits)].base, size |-> BitmapSize]
                /\ entry' = 1
                /\ New(BitmapSize, MaxPhys)
                /\ UNCHANGED <<memmap, part, published>>

\* PhysAddr::new of the base, and add_region when there is something to add.
Offer(base, len) ==
    IF len > 0 /\ base < PhysLimit THEN AddRegion(base, len) ELSE UNCHANGED allocVars

InLoop(p) ==
    /\ phase = "ready"
    /\ part = p
    /\ ~published
    /\ entry \in DOMAIN memmap

\* max in place of min: what lies between the entry and the bitmap is added too.
AddBelowMax ==
    /\ InLoop("below")
    /\ IF Entry.usable /\ Entry.base < carved.base
       THEN Offer(Entry.base, Max({carved.base, EntryEnd(Entry)}) - Entry.base)
       ELSE UNCHANGED allocVars
    /\ part' = "above"
    /\ UNCHANGED <<memmap, carved, entry, published>>

\* The part of the entry that lies below the bitmap.
AddBelow ==
    /\ InLoop("below")
    /\ IF Entry.usable /\ Entry.base < carved.base
       THEN Offer(Entry.base, Min({carved.base, EntryEnd(Entry)}) - Entry.base)
       ELSE UNCHANGED allocVars
    /\ part' = "above"
    /\ UNCHANGED <<memmap, carved, entry, published>>

\* The entry is added from its base, bitmap or not.
AddAboveFromBase ==
    /\ InLoop("above")
    /\ IF Entry.usable /\ EntryEnd(Entry) > CarvedEnd
       THEN Offer(Entry.base, Entry.length)
       ELSE UNCHANGED allocVars
    /\ part' = "below"
    /\ entry' = entry + 1
    /\ UNCHANGED <<memmap, carved, published>>

\* The part of the entry that lies above the bitmap.
AddAbove ==
    /\ InLoop("above")
    /\ IF Entry.usable /\ EntryEnd(Entry) > CarvedEnd
       THEN LET start == Max({CarvedEnd, Entry.base})
            IN  Offer(start, EntryEnd(Entry) - start)
       ELSE UNCHANGED allocVars
    /\ part' = "below"
    /\ entry' = entry + 1
    /\ UNCHANGED <<memmap, carved, published>>

AddFrames == AddFrame /\ UNCHANGED initVars

Publish ==
    /\ phase = "ready"
    /\ entry = Len(memmap) + 1
    /\ published' = TRUE
    /\ UNCHANGED <<memmap, carved, entry, part, allocVars>>

\* init has returned, or panicked.
Returned == (published \/ phase = "panic") /\ UNCHANGED <<initVars, allocVars>>

Next == Carve \/ AddBelow \/ AddAbove \/ AddFrames \/ Publish \/ Returned

Spec == Init /\ [][Next]_<<initVars, allocVars>>

-----------------------------------------------------------------------------
(* Properties *)

Bytes(base, size) == base..(base + size - 1)
FrameBytes(f) == Bytes(f * PageSize, PageSize)
BitmapFrames ==
    {f \in Frames : FrameBytes(f) \cap Bytes(carved.base, carved.size) # {}}

\* The bitmap is out of reach from the moment it is carved: no frame that
\* overlaps it is ever on the free list, where free_frame would write a link over
\* the bits, or handed out.
BitmapKeptOut == (Range(list) \union held) \cap BitmapFrames = {}

\* When init publishes the allocator, the free frames are those that lie whole in
\* a usable entry and outside the bitmap: none is lost, none is added twice, none
\* of another kind of memory is added.  An entry that reaches the end of the
\* physical address space gives no frame at all: add_region gives it up.
ExactlyUsableFree ==
    published =>
        /\ FreeListIntact
        /\ \A f \in Frames :
              f \in Range(list) <=>
                \E i \in Usable :
                    /\ EntryEnd(memmap[i]) < PhysLimit
                    /\ FrameBytes(f) \subseteq Bytes(memmap[i].base, memmap[i].length)
                    /\ f \notin BitmapFrames

\* What is left of a usable entry outside the bitmap begins behind the start of the
\* last page of the physical address space, so that align_up has no result for it.
BeginsInLastPage ==
    \E i \in Usable :
        \E a \in {memmap[i].base, CarvedEnd} :
            /\ a \in Bytes(memmap[i].base, memmap[i].length) \ Bytes(carved.base, carved.size)
            /\ a > PhysLimit - PageSize

\* init panics for two of the reasons its comment gives (no usable entry, none that
\* can hold the bitmap) and for one it does not give, the expect on align_up in
\* add_region; and it panics whenever one of the three holds.  In particular the
\* bitmap that was carved has a bit for every frame that is added.
PanicsExactly ==
    published \/ phase = "panic" =>
        (phase = "panic" <=> \/ Usable = {}
                             \/ \A i \in Usable : memmap[i].length < BitmapSize
                             \/ BeginsInLastPage)

=============================================================================
