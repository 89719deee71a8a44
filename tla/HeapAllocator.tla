--------------------------- MODULE HeapAllocator ---------------------------
(***************************************************************************)
(* The kernel heap, mm/heap.rs: a first-fit list allocator.  The header of *)
(* a free block, its size and the link to the next one, is stored in the   *)
(* block itself.                                                           *)
(*                                                                         *)
(* LockedHeap runs every call with the lock held.  A call has one step for *)
(* each block it looks at, and no other call begins before it returns.     *)
(* `prev' stands for the pointer prev_next: Null is &self.head, any other  *)
(* value the link of that block.                                           *)
(***************************************************************************)
EXTENDS Integers, SequencesExt

CONSTANTS
    BlockAlign,     \* BLOCK_ALIGN
    MinBlock,       \* MIN_BLOCK_SIZE
    Donations,      \* the arguments of add_memory: records [ptr, size]
    Sizes, Aligns,  \* the layouts requested
    AddrMax         \* bound: above every donated address

ASSUME HeapAssumption ==
    /\ BlockAlign \in Nat \ {0}
    /\ MinBlock \in Nat \ {0}
    /\ MinBlock = BlockAlign       \* size_of::<FreeBlock>() is 16 on x86_64
    /\ AddrMax \in Nat
    /\ Donations \subseteq [ptr : Nat, size : Nat]
    /\ \A d \in Donations : d.ptr + d.size <= AddrMax
    /\ Sizes \subseteq Nat \ {0}
    /\ Aligns \subseteq Nat \ {0}

VARIABLES
    pc,             \* "idle", "alloc", "add", "free", "panic"
    req,            \* the call: [size, align] of alloc, [base, size] of an insertion
    prev,           \* prev_next
    head, node,     \* self.head, and what is in memory where a header may be
    total, free,    \* stats.total_bytes, stats.free_bytes
    count,          \* stats.alloc_count - stats.dealloc_count
    fresh,          \* the donations not made yet
    held,           \* the layouts handed out: [base, size, align]
    chain           \* history: the free blocks in the order of the list

vars == <<pc, req, prev, head, node, total, free, count, fresh, held, chain>>

Null == 0
Addrs == 0..AddrMax
Header(size, next) == [size |-> size, next |-> next]
Junk == Header(0, Null)

AlignUp(a, align) == ((a + align - 1) \div align) * align
AlignDown(a, align) == (a \div align) * align

\* How alloc and dealloc both round the size of a layout.
BlockSize(size) == AlignUp(Max({size, MinBlock}), BlockAlign)

\* *prev_next
Current == IF prev = Null THEN head ELSE node[prev].next

\* node and head after *prev_next = b, in a memory n.
Link(n, p, b) == IF p = Null THEN n ELSE [n EXCEPT ![p].next = b]
NewHead(p, b) == IF p = Null THEN b ELSE head

\* The blocks before the insertion point, as a position in the chain.
Pos(b) == IF b = Null THEN 0 ELSE CHOOSE i \in DOMAIN chain : chain[i] = b

\* The locals of a call are gone when it returns.
NoCall == [base |-> 0, size |-> 0]
Return == pc' = "idle" /\ req' = NoCall /\ prev' = Null

Cells(r) == r.base..(r.base + r.size - 1)
FreeCells == UNION {b..(b + node[b].size - 1) : b \in Range(chain)}
Block(r) == [base |-> r.base, size |-> BlockSize(r.size)]

Init ==
    /\ pc = "idle"
    /\ req = NoCall
    /\ prev = Null
    /\ head = Null
    /\ node = [a \in Addrs |-> Junk]
    /\ total = 0 /\ free = 0 /\ count = 0
    /\ fresh = Donations
    /\ held = {}
    /\ chain = <<>>

-----------------------------------------------------------------------------
(* add_memory, and the first part of dealloc *)

AddMemory(d) ==
    /\ pc = "idle"
    /\ fresh' = fresh \ {d}
    /\ LET size == AlignDown(d.size, BlockAlign)
       IN  IF d.ptr # Null /\ d.ptr % BlockAlign = 0 /\ d.size >= MinBlock
           THEN /\ pc' = "add"
                /\ req' = [base |-> d.ptr, size |-> size]
                /\ prev' = Null
                /\ node' = [node EXCEPT ![d.ptr] = Header(size, Null)]
                /\ total' = total + size
                /\ free' = free + size
           ELSE /\ pc' = "panic"
                /\ UNCHANGED <<req, prev, node, total, free>>
    /\ UNCHANGED <<head, count, held, chain>>

\* This variant and those further on are deliberately wrong and used by no
\* specification: dealloc adds the size of the layout to free_bytes, not the size of the block.
DeallocUnrounded(r) ==
    /\ pc = "idle"
    /\ r \in held
    /\ held' = held \ {r}
    /\ pc' = "free"
    /\ req' = Block(r)
    /\ prev' = Null
    /\ free' = free + r.size
    /\ count' = count - 1
    /\ UNCHANGED <<head, node, total, fresh, chain>>

Dealloc(r) ==
    /\ pc = "idle"
    /\ r \in held
    /\ held' = held \ {r}
    /\ pc' = "free"
    /\ req' = Block(r)
    /\ prev' = Null
    /\ free' = free + BlockSize(r.size)
    /\ count' = count - 1
    /\ UNCHANGED <<head, node, total, fresh, chain>>

-----------------------------------------------------------------------------
(* insert_and_coalesce *)

Inserting == pc \in {"add", "free"}

\* The loop: a block below the new one is passed.
InsertPasses ==
    /\ Inserting
    /\ Current # Null
    /\ Current < req.base
    /\ prev' = Current
    /\ UNCHANGED <<pc, req, head, node, total, free, count, fresh, held, chain>>

\* The left neighbour is not looked at.
InsertNoLeft ==
    LET b     == req.base
        right == Current
        joinR == right # Null /\ b + req.size = right
        hdr   == IF joinR THEN Header(req.size + node[right].size, node[right].next)
                 ELSE Header(req.size, right)
        k     == Pos(prev)
        rest  == SubSeq(chain, k + (IF joinR THEN 2 ELSE 1), Len(chain))
    IN  /\ Inserting
        /\ ~(Current # Null /\ Current < b)
        /\ head' = NewHead(prev, b)
        /\ node' = [Link(node, prev, b) EXCEPT ![b] = hdr]
        /\ chain' = SubSeq(chain, 1, k) \o <<b>> \o rest
        /\ Return
        /\ UNCHANGED <<total, free, count, fresh, held>>

\* After the loop: the block is linked in, takes over its right neighbour when the
\* two touch, and is taken over by its left neighbour when those touch.
Insert ==
    LET b     == req.base
        right == Current
        joinR == right # Null /\ b + req.size = right
        joinL == prev # Null /\ prev + node[prev].size = b
        hdr   == IF joinR THEN Header(req.size + node[right].size, node[right].next)
                 ELSE Header(req.size, right)
        n     == [Link(node, prev, b) EXCEPT ![b] = hdr]
        k     == Pos(prev)
        rest  == SubSeq(chain, k + (IF joinR THEN 2 ELSE 1), Len(chain))
    IN  /\ Inserting
        /\ ~(Current # Null /\ Current < b)
        /\ head' = NewHead(prev, b)
        /\ node' = IF joinL
                   THEN [n EXCEPT ![prev] = Header(node[prev].size + hdr.size, hdr.next)]
                   ELSE n
        /\ chain' = SubSeq(chain, 1, k) \o (IF joinL THEN <<>> ELSE <<b>>) \o rest
        /\ Return
        /\ UNCHANGED <<total, free, count, fresh, held>>

-----------------------------------------------------------------------------
(* alloc *)

AllocCall(size, align) ==
    /\ pc = "idle"
    /\ pc' = "alloc"
    /\ req' = [size |-> size, align |-> align]
    /\ prev' = Null
    /\ UNCHANGED <<head, node, total, free, count, fresh, held, chain>>

AllocStart == AlignUp(Current, Max({req.align, BlockAlign}))
Padding == AllocStart - Current

\* The block need not have room for the padding.
FitsUnpadded == node[Current].size >= BlockSize(req.size)

\* The tests of the loop body.
Fits ==
    /\ ~(0 < Padding /\ Padding < MinBlock)
    /\ node[Current].size >= Padding + BlockSize(req.size)

\* A `continue' before the pointer is moved: the same block is looked at again.
AllocPassesStays ==
    /\ pc = "alloc"
    /\ Current # Null
    /\ ~Fits
    /\ UNCHANGED vars

AllocPasses ==
    /\ pc = "alloc"
    /\ Current # Null
    /\ ~Fits
    /\ prev' = Current
    /\ UNCHANGED <<pc, req, head, node, total, free, count, fresh, held, chain>>

AllocNone ==
    /\ pc = "alloc"
    /\ Current = Null
    /\ Return
    /\ UNCHANGED <<head, node, total, free, count, fresh, held, chain>>

\* The block is split: the padding stays in the list, the remainder, if a header
\* fits into it, becomes a block after it.  The memory handed out is the caller's
\* from here on: Junk stands for whatever it writes there.
AllocTake ==
    /\ pc = "alloc"
    /\ Current # Null
    /\ Fits
    /\ LET b    == Current
           size == BlockSize(req.size)
           rem  == node[b].size - Padding - size
           rb   == AllocStart + size
           keep == rem >= MinBlock
           k    == Pos(b)
           next == IF keep THEN rb ELSE node[b].next
           m    == [a \in Addrs |-> IF a \in AllocStart..(rb - 1) THEN Junk ELSE node[a]]
           n    == IF Padding > 0 THEN [m EXCEPT ![b] = Header(Padding, next)]
                   ELSE Link(m, prev, next)
       IN  /\ head' = IF Padding > 0 THEN head ELSE NewHead(prev, next)
           /\ node' = IF keep THEN [n EXCEPT ![rb] = Header(rem, node[b].next)] ELSE n
           /\ chain' = SubSeq(chain, 1, k - 1) \o (IF Padding > 0 THEN <<b>> ELSE <<>>)
                           \o (IF keep THEN <<rb>> ELSE <<>>) \o SubSeq(chain, k + 1, Len(chain))
           /\ free' = free - (node[b].size - Padding - (IF keep THEN rem ELSE 0))
           /\ held' = held \union {[base |-> AllocStart, size |-> req.size, align |-> req.align]}
    /\ count' = count + 1
    /\ Return
    /\ UNCHANGED <<total, fresh>>

-----------------------------------------------------------------------------

Step == InsertPasses \/ Insert \/ AllocPasses \/ AllocNone \/ AllocTake

Halted == pc = "panic" /\ UNCHANGED vars

Next ==
    \/ \E d \in fresh : AddMemory(d)
    \/ \E r \in held : Dealloc(r)
    \/ \E size \in Sizes, align \in Aligns : AllocCall(size, align)
    \/ Step
    \/ Halted

Spec == Init /\ [][Next]_vars

\* A call that has begun keeps running: it holds the lock of LockedHeap.
FairSpec == Spec /\ WF_vars(Step)

-----------------------------------------------------------------------------
(* Properties *)

TypeOK ==
    /\ pc \in {"idle", "alloc", "add", "free", "panic"}
    /\ prev \in Addrs
    /\ head \in Addrs
    /\ node \in [Addrs -> [size : 0..AddrMax, next : Addrs]]
    /\ total \in Nat
    /\ free \in 0..total
    /\ count \in Nat
    /\ held \subseteq [base : Addrs, size : Sizes, align : Aligns]
    /\ chain \in Seq(Addrs)

\* The links spell the list: ascending, ended by None, no block overlaps or touches
\* the next one, and every block is aligned and large enough for its header; what
\* owners write into their blocks does not matter (insert_and_coalesce, alloc).
ListIntact ==
    /\ TypeOK
    /\ head = (IF chain = <<>> THEN Null ELSE chain[1])
    /\ \A i \in DOMAIN chain :
          /\ node[chain[i]].next = (IF i = Len(chain) THEN Null ELSE chain[i + 1])
          /\ chain[i] % BlockAlign = 0
          /\ node[chain[i]].size >= MinBlock
          /\ node[chain[i]].size % BlockAlign = 0
          /\ i < Len(chain) => chain[i] + node[chain[i]].size < chain[i + 1]

\* The statistics are exact, although alloc and dealloc compute them from
\* different numbers: free_bytes is what the free blocks hold, and every layout
\* that was handed out and not returned is counted.
StatsExact ==
    /\ free = Cardinality(FreeCells) + (IF Inserting THEN req.size ELSE 0)
    /\ count = Cardinality(held)
    /\ total = free + Cardinality(UNION {Cells(Block(r)) : r \in held})

\* alloc against its definition: it takes the lowest suitably aligned run of free
\* bytes, and returns None only when there is none.
AllocIsFirstFit ==
    [][pc = "alloc" /\ pc' = "idle" =>
         LET size  == BlockSize(req.size)
             runs  == {b \in FreeCells :
                          /\ b % Max({req.align, BlockAlign}) = 0
                          /\ b..(b + size - 1) \subseteq FreeCells}
         IN  IF runs = {} THEN held' = held
             ELSE held' \ held =
                    {[base |-> Min(runs), size |-> req.size, align |-> req.align]}]_vars

\* The bytes of the heap as cells of a pool; a block that dealloc is inserting
\* counts as handed out until it is in the list.
BytePool == INSTANCE RangePool WITH
                free <- FreeCells,
                held <- {Block(r) : r \in held} \union (IF pc = "free" THEN {req} ELSE {})

\* The heap implements the pool: no byte has two owners, and none is lost to
\* padding, splitting or merging.
ImplementsPool == BytePool!PoolSpec

\* Every call returns: the list never becomes a cycle.
CallsReturn == pc \in {"alloc", "add", "free"} ~> pc = "idle"

=============================================================================
