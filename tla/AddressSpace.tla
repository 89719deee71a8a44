---------------------------- MODULE AddressSpace ----------------------------
(***************************************************************************)
(* mm/address_space.rs: the composition of the region allocators, the      *)
(* mapper, the frame allocator with its lock and the TLB.                  *)
(*                                                                         *)
(* The region allocators are the operators of Region.  The mapper and the  *)
(* frame allocator are used through what they promise (AddrMap, RangePool):*)
(* a map from pages to frames, and a set of free frames; the levels of the *)
(* page tables are collapsed into one, each table covering TablePages      *)
(* pages.  The long operations have one step for each page and each call   *)
(* they make.  Nothing else of the kernel runs meanwhile, but the hardware *)
(* does: it caches translations in the TLB whenever it likes.              *)
(***************************************************************************)
EXTENDS Region

\* As in Region, the variants just before some definitions are deliberately wrong
\* and used by no specification.

CONSTANTS
    Kinds,        \* AllocKind
    Ranges,       \* the pool of each kind: HEAP_START.., KERNEL_VM_START..
    TablePages,   \* the pages one table covers
    Frames,       \* the physical frames
    TlbSize,      \* bound: how many translations the TLB holds
    Sizes, Aligns, \* the sizes and alignments requested
    None

ASSUME SpaceAssumption ==
    /\ TablePages \in Nat \ {0}
    /\ TlbSize \in Nat
    /\ Ranges \in [Kinds -> [base : Nat, size : Nat \ {0}]]
    /\ Sizes \union Aligns \subseteq Nat \ {0}
    /\ None \notin Frames

VARIABLES
    slots,        \* heap_va and kernel_vm_va
    pte,          \* page -> frame or None
    tabled,       \* the tables that exist
    tableFrames,  \* the frames they occupy
    avail,        \* the free frames
    locked,       \* a guard of FRAME_ALLOCATOR is alive between two steps
    tlb,          \* page -> the frame the TLB has for it, or None
    regions,      \* what the callers hold: [kind, region, backed]
    owned,        \* the frames the callers hold as OwnedFrames
    call,         \* the operation that is running
    before        \* history: the state when it began

vars == <<slots, pte, tabled, tableFrames, avail, locked, tlb, regions, owned, call, before>>

Pages == UNION {Cells(Ranges[k]) : k \in Kinds}
Idle == [op |-> "none"]
Panic(why) == [op |-> "panic", why |-> why]

\* Where the page with index i of the operation is.
Virt(i) == call.region.base + i
Count == call.region.size
Stage(s) == call.op \in {"amap", "pmap", "dealloc", "map"} /\ call.stage = s
GoTo(s) == call' = [call EXCEPT !.stage = s]

Begin(op, kind, region, frames, stage) ==
    /\ call' = [op |-> op, kind |-> kind, region |-> region, i |-> 0, j |-> 0,
                frame |-> None, frames |-> frames, stage |-> stage]
    /\ before' = [slots |-> slots, pte |-> pte, memory |-> avail \union tableFrames]

Return == call' = Idle /\ before' = None

Init ==
    /\ slots = [k \in Kinds |-> <<Ranges[k]>>]
    /\ pte = [v \in Pages |-> None]
    /\ tabled = {} /\ tableFrames = {}
    /\ avail = Frames
    /\ locked = FALSE
    /\ tlb = [v \in Pages |-> None]
    /\ regions = {} /\ owned = {}
    /\ call = Idle
    /\ before = None

-----------------------------------------------------------------------------
(* The beginnings: what happens before the first page *)

\* alloc_virt, the first call of alloc_and_map and of map_physical_range.
Reserve(op, kind, size, align, frames) ==
    LET o == Alloc(slots[kind], size, align)
    IN  /\ call = Idle
        /\ slots' = [slots EXCEPT ![kind] = o.slots]
        /\ CASE o.res = "Ok" -> Begin(op, kind, o.region, frames, "frame")
             [] o.res = "panic" -> call' = Panic("slots") /\ UNCHANGED before
             [] OTHER -> \* map_physical_range drops its frames unmapped
                  /\ call' = IF frames = <<>> THEN Idle ELSE Panic("dropped")
                  /\ UNCHANGED before

AllocAndMap(kind, size, align) ==
    /\ Reserve("amap", kind, size, align, <<>>)
    /\ UNCHANGED <<pte, tabled, tableFrames, avail, locked, tlb, regions, owned>>

MapPhysicalRange(kind, fs, align) ==
    /\ owned' = owned \ Range(fs)
    /\ Reserve("pmap", kind, Len(fs), align, fs)
    /\ UNCHANGED <<pte, tabled, tableFrames, avail, locked, tlb, regions>>

UnmapAndDealloc(r) ==
    /\ call = Idle
    /\ r \in regions
    /\ regions' = regions \ {r}
    /\ Begin("dealloc", r.kind, r.region, <<>>, "unmap")
    /\ UNCHANGED <<slots, pte, tabled, tableFrames, avail, locked, tlb, owned>>

AllocVirt(kind, size, align) ==
    LET o == Alloc(slots[kind], size, align)
    IN  /\ call = Idle
        /\ slots' = [slots EXCEPT ![kind] = o.slots]
        /\ call' = IF o.res = "panic" THEN Panic("slots") ELSE call
        /\ regions' = IF o.res = "Ok"
                      THEN regions \union {[kind |-> kind, region |-> o.region, backed |-> FALSE]}
                      ELSE regions
        /\ UNCHANGED <<pte, tabled, tableFrames, avail, locked, tlb, owned, before>>

\* free_virt does not touch the page table; the caller keeps what was refused.
FreeVirt(r) ==
    LET o == AddRegion(slots[r.kind], r.region)
    IN  /\ call = Idle
        /\ r \in regions
        /\ slots' = [slots EXCEPT ![r.kind] = o.slots]
        /\ regions' = IF o.res = "Ok" THEN regions \ {r} ELSE regions
        /\ UNCHANGED <<pte, tabled, tableFrames, avail, locked, tlb, owned, call, before>>

\* map, of a page that the caller has reserved.
MapOne(r, v, f) ==
    /\ call = Idle
    /\ r \in regions /\ ~r.backed /\ v \in Cells(r.region)
    /\ f \in owned
    /\ owned' = owned \ {f}
    /\ call' = [op |-> "map", kind |-> r.kind, region |-> [base |-> v, size |-> 1], i |-> 0, j |-> 0,
                frame |-> f, frames |-> <<>>, stage |-> "map"]
    /\ UNCHANGED <<slots, pte, tabled, tableFrames, avail, locked, tlb, regions, before>>

\* unmap; the caller flushes.
UnmapOne(r, v) ==
    /\ call = Idle
    /\ r \in regions /\ ~r.backed /\ v \in Cells(r.region)
    /\ pte[v] # None
    /\ owned' = owned \union {pte[v]}
    /\ pte' = [pte EXCEPT ![v] = None]
    /\ tlb' = [tlb EXCEPT ![v] = None]
    /\ UNCHANGED <<slots, tabled, tableFrames, avail, locked, regions, call, before>>

\* mm::allocate and mm::deallocate called by the owner of frames.
TakeFrame ==
    /\ call = Idle
    /\ \E f \in avail : avail' = avail \ {f} /\ owned' = owned \union {f}
    /\ UNCHANGED <<slots, pte, tabled, tableFrames, locked, tlb, regions, call, before>>

GiveFrame(f) ==
    /\ call = Idle
    /\ f \in owned
    /\ avail' = avail \union {f} /\ owned' = owned \ {f}
    /\ UNCHANGED <<slots, pte, tabled, tableFrames, locked, tlb, regions, call, before>>

-----------------------------------------------------------------------------
(* The loop over the pages *)

\* The next frame.  alloc_and_map matches on FRAME_ALLOCATOR.lock()...allocate():
\* the guard, a temporary of the scrutinee, lives until the end of the match, the
\* arm for None included.
NextFrame ==
    /\ Stage("frame")
    /\ \/ /\ call.i = Count
          /\ GoTo("flush")
          /\ UNCHANGED <<avail, locked>>
       \/ /\ call.i < Count /\ call.op = "pmap"
          /\ call' = [call EXCEPT !.stage = "map", !.frame = Head(call.frames), !.frames = Tail(@)]
          /\ UNCHANGED <<avail, locked>>
       \/ /\ call.i < Count /\ call.op = "amap"
          /\ \E f \in avail :
                /\ avail' = avail \ {f}
                /\ call' = [call EXCEPT !.stage = "map", !.frame = f]
          /\ UNCHANGED locked
       \/ /\ call.i < Count /\ call.op = "amap"
          /\ avail = {}
          /\ locked' = TRUE
          /\ GoTo("rollback")
          /\ UNCHANGED avail
    /\ UNCHANGED <<slots, pte, tabled, tableFrames, tlb, regions, owned, before>>

\* Mapper::map, when the page has no table yet.
CreateTable ==
    /\ Stage("map")
    /\ Virt(call.i) \div TablePages \notin tabled
    /\ \/ /\ \E f \in avail :
                /\ avail' = avail \ {f}
                /\ tableFrames' = tableFrames \union {f}
          /\ tabled' = tabled \union {Virt(call.i) \div TablePages}
          /\ UNCHANGED call
       \/ /\ avail = {}
          /\ call' = Panic("frames")
          /\ UNCHANGED <<avail, tabled, tableFrames>>
    /\ UNCHANGED <<slots, pte, locked, tlb, regions, owned, before>>

\* Mapper::map, and what its caller does with the answer: the token is ignored,
\* or flushed by the caller of map; a frame that comes back is freed, or kept by
\* the caller of map.
MapPage ==
    LET v == Virt(call.i)
    IN  /\ Stage("map")
        /\ v \div TablePages \in tabled
        /\ \/ /\ pte[v] = None
              /\ pte' = [pte EXCEPT ![v] = call.frame]
              /\ IF call.op = "map"
                 THEN Return /\ tlb' = [tlb EXCEPT ![v] = None]
                 ELSE /\ call' = [call EXCEPT !.stage = "frame", !.i = @ + 1, !.frame = None]
                      /\ UNCHANGED <<tlb, before>>
              /\ UNCHANGED <<avail, owned>>
           \/ /\ pte[v] # None
              /\ IF call.op = "map"
                 THEN Return /\ owned' = owned \union {call.frame} /\ UNCHANGED avail
                 ELSE /\ avail' = avail \union {call.frame}
                      /\ call' = [call EXCEPT !.stage = "rollback", !.frame = None]
                      /\ UNCHANGED <<owned, before>>
              /\ UNCHANGED <<pte, tlb>>
        /\ UNCHANGED <<slots, tabled, tableFrames, locked, regions>>

\* rollback_range counts one page too many.
RollbackOneMore ==
    /\ Stage("rollback")
    /\ IF call.j > call.i
       THEN GoTo("freeva") /\ UNCHANGED <<pte, avail>>
       ELSE LET v == Virt(call.j)
            IN  /\ pte' = [pte EXCEPT ![v] = None]
                /\ IF pte[v] = None
                   THEN call' = Panic("rollback") /\ UNCHANGED avail
                   ELSE IF locked
                   THEN call' = [call EXCEPT !.stage = "spin", !.frame = pte[v]] /\ UNCHANGED avail
                   ELSE /\ avail' = avail \union {pte[v]}
                        /\ call' = [call EXCEPT !.j = @ + 1]
    /\ UNCHANGED <<slots, tabled, tableFrames, locked, tlb, regions, owned, before>>

\* rollback_range: unmap (its error panics), then lock FRAME_ALLOCATOR and free the
\* frame.  The lock is a spin lock, and not reentrant.
Rollback ==
    /\ Stage("rollback")
    /\ IF call.j = call.i
       THEN GoTo("freeva") /\ UNCHANGED <<pte, avail>>
       ELSE LET v == Virt(call.j)
            IN  /\ pte' = [pte EXCEPT ![v] = None]
                /\ IF pte[v] = None
                   THEN call' = Panic("rollback") /\ UNCHANGED avail
                   ELSE IF locked
                   THEN call' = [call EXCEPT !.stage = "spin", !.frame = pte[v]] /\ UNCHANGED avail
                   ELSE /\ avail' = avail \union {pte[v]}
                        /\ call' = [call EXCEPT !.j = @ + 1]
    /\ UNCHANGED <<slots, tabled, tableFrames, locked, tlb, regions, owned, before>>

\* The loop of unmap_and_dealloc without deallocate_owned.
UnmapPageLeaks ==
    LET v == Virt(call.i)
    IN  /\ Stage("unmap")
        /\ IF call.i = Count
           THEN GoTo("freeva") /\ UNCHANGED pte
           ELSE /\ call' = [call EXCEPT !.i = @ + 1]
                /\ pte' = [pte EXCEPT ![v] = None]
        /\ UNCHANGED <<slots, tabled, tableFrames, avail, locked, tlb, regions, owned, before>>

\* The loop of unmap_and_dealloc: a page that is not mapped is passed over.
UnmapPage ==
    LET v == Virt(call.i)
    IN  /\ Stage("unmap")
        /\ IF call.i = Count
           THEN GoTo("freeva") /\ UNCHANGED <<pte, avail>>
           ELSE /\ call' = [call EXCEPT !.i = @ + 1]
                /\ pte' = [pte EXCEPT ![v] = None]
                /\ avail' = avail \union ({pte[v]} \ {None})
        /\ UNCHANGED <<slots, tabled, tableFrames, locked, tlb, regions, owned, before>>

\* The rollback forgets to free the virtual range.
FreeVaOnlyInDealloc ==
    LET o == IF call.op = "dealloc" THEN AddRegion(slots[call.kind], call.region)
             ELSE Outcome("Ok", slots[call.kind], NoRegion)
    IN  /\ Stage("freeva")
        /\ slots' = [slots EXCEPT ![call.kind] = o.slots]
        /\ CASE o.res # "Ok" -> call' = Panic("va") /\ UNCHANGED <<locked, before>>
             [] o.res = "Ok" /\ call.op = "dealloc" -> GoTo("flush") /\ UNCHANGED <<locked, before>>
             [] o.res = "Ok" /\ call.op # "dealloc" ->
                  /\ locked' = FALSE
                  /\ IF call.frames = <<>> THEN Return
                     ELSE call' = Panic("dropped") /\ UNCHANGED before
        /\ UNCHANGED <<pte, tabled, tableFrames, avail, tlb, regions, owned>>

\* free_virt(..).expect(..), at the end of unmap_and_dealloc and of a rollback.
\* When map_physical_range returns its error, the frames still in the iterator are
\* dropped, and dropping an OwnedFrame panics.
FreeVa ==
    LET o == AddRegion(slots[call.kind], call.region)
    IN  /\ Stage("freeva")
        /\ slots' = [slots EXCEPT ![call.kind] = o.slots]
        /\ CASE o.res # "Ok" -> call' = Panic("va") /\ UNCHANGED <<locked, before>>
             [] o.res = "Ok" /\ call.op = "dealloc" -> GoTo("flush") /\ UNCHANGED <<locked, before>>
             [] o.res = "Ok" /\ call.op # "dealloc" ->
                  /\ locked' = FALSE
                  /\ IF call.frames = <<>> THEN Return
                     ELSE call' = Panic("dropped") /\ UNCHANGED before
        /\ UNCHANGED <<pte, tabled, tableFrames, avail, tlb, regions, owned>>

\* flush_range leaves out the last page.
FlushRangeShort ==
    /\ Stage("flush")
    /\ tlb' = [v \in Pages |-> IF v \in Cells(call.region) /\ v < Virt(Count - 1) THEN None ELSE tlb[v]]
    /\ regions' = IF call.op = "dealloc" THEN regions
                  ELSE regions \union {[kind |-> call.kind, region |-> call.region, backed |-> TRUE]}
    /\ Return
    /\ UNCHANGED <<slots, pte, tabled, tableFrames, avail, locked, owned>>

\* unmap_and_dealloc returns without its flush_range.
FlushRangeMappedOnly ==
    /\ Stage("flush")
    /\ tlb' = [v \in Pages |-> IF v \in Cells(call.region) /\ call.op # "dealloc" THEN None ELSE tlb[v]]
    /\ regions' = IF call.op = "dealloc" THEN regions
                  ELSE regions \union {[kind |-> call.kind, region |-> call.region, backed |-> TRUE]}
    /\ Return
    /\ UNCHANGED <<slots, pte, tabled, tableFrames, avail, locked, owned>>

\* flush_range, and the return of the three operations.
FlushRange ==
    /\ Stage("flush")
    /\ tlb' = [v \in Pages |-> IF v \in Cells(call.region) THEN None ELSE tlb[v]]
    /\ regions' = IF call.op = "dealloc" THEN regions
                  ELSE regions \union {[kind |-> call.kind, region |-> call.region, backed |-> TRUE]}
    /\ Return
    /\ UNCHANGED <<slots, pte, tabled, tableFrames, avail, locked, owned>>

-----------------------------------------------------------------------------

\* The hardware: an access to a mapped page, speculative ones included, loads the
\* TLB; an entry may be evicted at any time.
TlbFill(v) ==
    /\ pte[v] # None /\ tlb[v] = None
    /\ Cardinality({w \in Pages : tlb[w] # None}) < TlbSize
    /\ tlb' = [tlb EXCEPT ![v] = pte[v]]
    /\ UNCHANGED <<slots, pte, tabled, tableFrames, avail, locked, regions, owned, call, before>>

TlbEvict(v) ==
    /\ tlb[v] # None
    /\ tlb' = [tlb EXCEPT ![v] = None]
    /\ UNCHANGED <<slots, pte, tabled, tableFrames, avail, locked, regions, owned, call, before>>

\* The panic handler's hlt loop, and the loop of the spin lock.
Stopped == call.op = "panic" \/ Stage("spin")
Halted == Stopped /\ UNCHANGED vars

Step == NextFrame \/ CreateTable \/ MapPage \/ Rollback \/ UnmapPage \/ FreeVa \/ FlushRange

Next ==
    \/ \E k \in Kinds, size \in Sizes, align \in Aligns :
          AllocAndMap(k, size, align) \/ AllocVirt(k, size, align)
    \/ \E k \in Kinds, align \in Aligns, S \in (SUBSET owned) \ {{}} :
          \E fs \in SetToSeqs(S) : MapPhysicalRange(k, fs, align)
    \/ \E r \in regions : UnmapAndDealloc(r) \/ FreeVirt(r)
    \/ \E r \in regions, v \in Pages : UnmapOne(r, v) \/ \E f \in owned : MapOne(r, v, f)
    \/ TakeFrame
    \/ \E f \in owned : GiveFrame(f)
    \/ Step
    \/ \E v \in Pages : TlbFill(v) \/ TlbEvict(v)
    \/ Halted

Spec == Init /\ [][Next]_vars

\* An operation that has begun keeps running: nothing preempts it.
FairSpec == Spec /\ WF_vars(Step)

-----------------------------------------------------------------------------
(* Properties *)

MappedFrames == {pte[v] : v \in Pages} \ {None}
InHand == IF call.op \in {"none", "panic"} THEN {}
          ELSE ({call.frame} \ {None}) \union Range(call.frames)

TypeOK ==
    /\ pte \in [Pages -> Frames \union {None}]
    /\ tlb \in [Pages -> Frames \union {None}]
    /\ \A k \in Kinds : Len(slots[k]) <= Capacity
    /\ avail \union owned \union tableFrames \subseteq Frames
    /\ locked \in BOOLEAN
    /\ \A r \in regions : Cells(r.region) \subseteq Cells(Ranges[r.kind])
    /\ call.op \in {"none", "panic", "amap", "pmap", "dealloc", "map"}

\* Every frame is in exactly one place at every step of every operation: free, with
\* a caller, in the hands of the operation, a table, or mapped at one page; a
\* failure anywhere loses none and frees none twice, as long as nothing panics.
FramesInOnePlace ==
    LET kinds == <<avail, owned, tableFrames, MappedFrames, InHand>>
    IN  /\ TypeOK
        /\ \A i, j \in 1..5 : i # j => kinds[i] \cap kinds[j] = {}
        /\ \A v, w \in Pages : v # w /\ pte[v] # None => pte[v] # pte[w]
        /\ call.op # "panic" => UNION {kinds[i] : i \in 1..5} = Frames

\* alloc_and_map is all or nothing: when it gives up and returns its error, the
\* virtual pools and the page table are what they were before, and no frame is
\* missing but those that became tables.
FailureLeavesNoTrace ==
    [][call.op = "amap" /\ call.stage = "freeva" /\ call' = Idle =>
         /\ slots' = before.slots
         /\ pte' = before.pte
         /\ avail' \union tableFrames' = before.memory]_vars

\* A region that alloc_and_map or map_physical_range has returned is usable until
\* it is given back: every page is mapped, and the TLB, whatever it had cached for
\* the page before, does not have another frame for it.
RegionsUsable ==
    \A r \in regions : r.backed =>
        \A v \in Cells(r.region) : pte[v] # None /\ tlb[v] \in {None, pte[v]}

\* When unmap_and_dealloc returns, nothing reaches the frames it has freed through
\* the pages of the region: they are unmapped, and the TLB has dropped what it
\* loaded for them before the call or while it ran.
DeallocatedUnreachable ==
    [][call.op = "dealloc" /\ call' = Idle =>
         \A v \in Cells(call.region) : pte'[v] = None /\ tlb'[v] = None]_vars

\* rollback_range's expect: "rollback unmap must succeed for a page we just mapped".
RollbackUnmapSucceeds == call # Panic("rollback")

-----------------------------------------------------------------------------
(* What the comments of the code say and the code does not do *)

\* alloc_and_map, out of frames: "Roll back the pages already mapped, then free the
\* VA", and return the error; every operation comes to an end.
OperationsEnd == (call # Idle) ~> (call = Idle \/ call.op = "panic")

=============================================================================
