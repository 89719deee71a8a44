--------------------------- MODULE FrameAllocator ---------------------------
(***************************************************************************)
(* The physical frame allocator: mm/allocator/bitmap.rs behind the global  *)
(* FRAME_ALLOCATOR of mm/init.rs, and the OwnedFrame handles of mm/frame.rs.*)
(*                                                                         *)
(* A bitmap and a free list describe the same frames.  The links of the    *)
(* list are stored in the free frames themselves, that is, in memory which *)
(* belongs to somebody else as soon as the frame is handed out.            *)
(*                                                                         *)
(* Every operation runs with the FRAME_ALLOCATOR lock held from beginning  *)
(* to end and is one action; add_region is a loop and has a step for each  *)
(* frame, during which nothing else is enabled.  Addresses are bytes, a    *)
(* frame is named by its index.                                            *)
(***************************************************************************)
EXTENDS PhysAddr, SequencesExt

CONSTANTS
    ByteBits,    \* 8: bits in a byte of the bitmap
    MaxBitmap,   \* bound: the longest bitmap passed to new, in bytes
    Words        \* bound: what an owner writes at the start of its frames

ASSUME FrameAssumption ==
    /\ ByteBits \in Nat \ {0}
    /\ MaxBitmap \in Nat

VARIABLES
    phase,       \* "none" (FRAME_ALLOCATOR is None), "ready", "adding", "panic"
    cursor,      \* [from, to]: the frames add_region has still to free
    bitmapLen,   \* bytes of the bitmap
    marked,      \* the frames whose bit is 1
    word,        \* the first word of every frame: FreeNode::next while it is free
    head,        \* free_list_head
    total, free, \* the two counters
    held,        \* the frames handed out as OwnedFrames and not returned
    list         \* history: the frames on the free list, the first one first

allocVars == <<phase, cursor, bitmapLen, marked, word, head, total, free, held, list>>

\* The variants here and below, each just before the definition it distorts, are
\* deliberately wrong and used by no specification; they show that a property
\* can fail.

\* usize::MAX: no frame starts there.
FREE_LIST_EMPTY == PhysLimit

TypeOK ==
    /\ phase \in {"none", "ready", "adding", "panic"}
    /\ cursor \in [from : Nat, to : Nat]
    /\ bitmapLen \in Nat
    /\ marked \subseteq Frames
    /\ word \in [Frames -> Frames \union {FREE_LIST_EMPTY} \union Words]
    /\ head \in Frames \union {FREE_LIST_EMPTY}
    /\ total \in Nat
    /\ free \in Nat
    /\ held \subseteq Frames
    /\ list \in Seq(Frames)

InBitmap(f) == f \div ByteBits < bitmapLen

\* The assert of deallocate passes for every frame.
IsAllocatedAlways(f) == TRUE

\* is_allocated: a frame the bitmap does not cover counts as allocated.
IsAllocated(f) == InBitmap(f) => f \in marked

Panic ==
    /\ phase' = "panic"
    /\ UNCHANGED <<cursor, bitmapLen, marked, word, head, total, free, held, list>>

\* free_frame writes the link one page too high, at the frame's end().
FreeFrameAtEnd(f) ==
    /\ InBitmap(f)
    /\ marked' = marked \ {f}
    /\ word' = [w \in Frames |-> IF w = f + 1 THEN head ELSE word[w]]
    /\ head' = f
    /\ free' = free + 1
    /\ list' = Cons(f, list)
    /\ held' = held \ {f}
    /\ UNCHANGED <<bitmapLen, total>>

\* free_frame forgets the counter.
FreeFrameUncounted(f) ==
    /\ InBitmap(f)
    /\ marked' = marked \ {f}
    /\ word' = [word EXCEPT ![f] = head]
    /\ head' = f
    /\ list' = Cons(f, list)
    /\ held' = held \ {f}
    /\ UNCHANGED <<bitmapLen, total, free>>

\* free_frame, when mark_free's assert holds: the frame becomes the first of the
\* list.  Whoever owned it gave up the handle.
FreeFrame(f) ==
    /\ InBitmap(f)
    /\ marked' = marked \ {f}
    /\ word' = [word EXCEPT ![f] = head]
    /\ head' = f
    /\ free' = free + 1
    /\ list' = Cons(f, list)
    /\ held' = held \ {f}
    /\ UNCHANGED <<bitmapLen, total>>

\* pop_free forgets mark_allocated.
PopFreeUnmarked ==
    /\ head # FREE_LIST_EMPTY
    /\ InBitmap(head)
    /\ head' = word[head]
    /\ free' = free - 1
    /\ held' = held \union {head}
    /\ list' = Tail(list)
    /\ UNCHANGED <<phase, cursor, bitmapLen, total, word, marked>>

\* pop_free reads the link of the frame it has just made the head.
PopFreeSkips ==
    /\ head # FREE_LIST_EMPTY
    /\ InBitmap(head)
    /\ head' = IF word[head] \in Frames THEN word[word[head]] ELSE word[head]
    /\ marked' = marked \union {head}
    /\ free' = free - 1
    /\ held' = held \union {head}
    /\ list' = Tail(list)
    /\ UNCHANGED <<phase, cursor, bitmapLen, total, word>>

\* pop_free, when the list is not empty and mark_allocated's assert holds.
PopFree ==
    /\ head # FREE_LIST_EMPTY
    /\ InBitmap(head)
    /\ head' = word[head]
    /\ marked' = marked \union {head}
    /\ free' = free - 1
    /\ held' = held \union {head}
    /\ list' = Tail(list)
    /\ UNCHANGED <<phase, cursor, bitmapLen, total, word>>

-----------------------------------------------------------------------------
(* Operations *)

\* FRAME_ALLOCATOR is None.  What a frame holds is not read before it is written.
AllocInit ==
    /\ phase = "none"
    /\ cursor = [from |-> 0, to |-> 0]
    /\ bitmapLen = 0
    /\ marked = {}
    /\ word = [f \in Frames |-> FREE_LIST_EMPTY]
    /\ head = FREE_LIST_EMPTY
    /\ total = 0
    /\ free = 0
    /\ held = {}
    /\ list = <<>>

\* BitmapAllocator::new over a zeroed bitmap.
New(len, maxPhys) ==
    /\ phase = "none"
    /\ IF len >= CeilDiv(CeilDiv(maxPhys, PageSize), ByteBits)
       THEN /\ phase' = "ready"
            /\ bitmapLen' = len
            /\ total' = CeilDiv(maxPhys, PageSize)
            /\ UNCHANGED <<cursor, marked, word, head, free, held, list>>
       ELSE Panic

\* add_region, up to its loop.
AddRegion(base, len) ==
    /\ phase = "ready"
    /\ IF PhysAlignUp(base) = {}
       THEN Panic
       ELSE LET start == Containing(AlignUp(base, PageSize))
                end   == Containing(base + len)
            IN  /\ IF PhysCheckedAdd(base, len) = {} \/ start >= end
                   THEN UNCHANGED <<phase, cursor>>
                   ELSE phase' = "adding" /\ cursor' = [from |-> start, to |-> end]
                /\ UNCHANGED <<bitmapLen, marked, word, head, total, free, held, list>>

\* One round of the loop of add_region.
AddFrame ==
    /\ phase = "adding"
    /\ \/ /\ FreeFrame(cursor.from)
          /\ cursor' = [cursor EXCEPT !.from = @ + 1]
          /\ phase' = IF cursor.from + 1 < cursor.to THEN "adding" ELSE "ready"
       \/ ~InBitmap(cursor.from) /\ Panic

\* mm::allocate panics when the list is empty; FrameAllocator::allocate, which
\* alloc_and_map calls itself, then returns None and changes nothing.  A head outside
\* the bitmap fails the assertion of mark_allocated, after pop_free has moved the
\* head; Panic leaves it, since nothing reads it afterwards.
Allocate ==
    /\ phase = "ready"
    /\ \/ PopFree
       \/ (head = FREE_LIST_EMPTY \/ ~InBitmap(head)) /\ Panic

\* mm::deallocate, OwnedFrame::free and deallocate_owned.
Deallocate(f) ==
    /\ phase = "ready"
    /\ \/ /\ IsAllocated(f)
          /\ FreeFrame(f)
          /\ UNCHANGED <<phase, cursor>>
       \/ ~(IsAllocated(f) /\ InBitmap(f)) /\ Panic

\* The owner of a frame uses it, the first word included (through the HHDM or
\* through a mapping).
WriteFrame(f, w) ==
    /\ phase = "ready"
    /\ f \in held
    /\ word' = [word EXCEPT ![f] = w]
    /\ UNCHANGED <<phase, cursor, bitmapLen, marked, head, total, free, held, list>>

\* The panic handler's hlt loop.
Halted == phase = "panic" /\ UNCHANGED allocVars

\* The contract of add_region: nobody uses the frames of the region, and none of
\* them is in the allocator already.
Unused(base, len) ==
    \A f \in Containing(AlignUp(base, PageSize))..(Containing(base + len) - 1) :
        f \notin held \union Range(list)

AllocNext ==
    \/ \E len \in 0..MaxBitmap, maxPhys \in 0..PhysLimit : New(len, maxPhys)
    \/ \E base \in 0..(PhysLimit - 1), len \in 1..PhysLimit :
          Unused(base, len) /\ AddRegion(base, len)
    \/ AddFrame
    \/ Allocate
    \/ \E f \in Frames : Deallocate(f)
    \/ \E f \in Frames, w \in Words : WriteFrame(f, w)
    \/ Halted

AllocSpec == AllocInit /\ [][AllocNext]_allocVars

-----------------------------------------------------------------------------
(* Properties *)

\* The links spell the list: from free_list_head, through the first word of every
\* free frame, to FREE_LIST_EMPTY, without a frame twice, whatever the owners of
\* the other frames write into them; and the counter `free' is its length
\* (free_frame and pop_free).
FreeListIntact ==
    /\ head = (IF list = <<>> THEN FREE_LIST_EMPTY ELSE list[1])
    /\ \A i \in DOMAIN list :
          word[list[i]] = (IF i = Len(list) THEN FREE_LIST_EMPTY ELSE list[i + 1])
    /\ IsInjective(list)
    /\ free = Len(list)

\* The bitmap and the list agree: a bit is 1 exactly while the frame is handed
\* out, and no frame handed out is on the list, even if a frame is returned that
\* was never handed out or is returned twice (the assert of deallocate).
BitsAreHeld ==
    /\ marked = held
    /\ held \cap Range(list) = {}

\* allocate reports exhaustion exactly when the counter says that nothing is
\* free; frame 0 on the list is not mistaken for its end.
ExhaustedWhenNoneFree == (head = FREE_LIST_EMPTY) <=> (free = 0)

\* The allocator never writes into a frame that is handed out: a step that
\* changes the list leaves the memory of every owner alone (free_frame writes
\* through the HHDM).
OwnersUndisturbed ==
    [][list' # list => \A f \in held \cap held' : word'[f] = word[f]]_allocVars

\* The frames as cells of a pool.
Pool == INSTANCE RangePool WITH
            free <- Range(list),
            held <- {[base |-> f, size |-> 1] : f \in held}

\* The allocator implements the pool: a frame has one owner at a time.
ImplementsPool == Pool!PoolSpec

=============================================================================
