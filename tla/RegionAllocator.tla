-------------------------- MODULE RegionAllocator --------------------------
(***************************************************************************)
(* The virtual address allocator of mm/vm: a pool built by                 *)
(* heap_region_allocator or kernel_vm_region_allocator (mm/vm/mod.rs) and  *)
(* the calls of alloc and free made on it.  A caller frees what it was     *)
(* given, once.                                                            *)
(***************************************************************************)
EXTENDS Region

CONSTANTS
    Start, Size,     \* the range of the pool: HEAP_START.., KERNEL_VM_START..
    Sizes, Aligns    \* the requests

ASSUME PoolAssumption ==
    /\ Start \in Nat
    /\ Size \in Nat \ {0}
    /\ Start + Size < AddrTop
    /\ Sizes \subseteq Nat \ {0}
    /\ Aligns \subseteq Nat \ {0}

VARIABLES
    slots,           \* slots[..len]
    held,            \* the regions the callers own
    res              \* what the last call returned

vars == <<slots, held, res>>

Whole == [base |-> Start, size |-> Size]
RegionType == [base : Nat, size : Nat \ {0}]

TypeOK ==
    /\ slots \in Seq(RegionType)
    /\ Len(slots) <= Capacity
    /\ held \subseteq RegionType
    /\ res \in {"Ok", "OutOfVirtualMemory", "TrackerFull", "panic"}

\* RegionAllocator::new and the add_region of the pool's range.
Init ==
    /\ slots = AddRegion(<<>>, Whole).slots
    /\ held = {}
    /\ res = "Ok"

AllocVirt(size, align) ==
    /\ res # "panic"
    /\ LET o == Alloc(slots, size, align)
       IN  /\ slots' = o.slots
           /\ res' = o.res
           /\ held' = IF o.res = "Ok" THEN held \union {o.region} ELSE held

\* The caller keeps a region that free refused.
FreeVirt(r) ==
    /\ res # "panic"
    /\ r \in held
    /\ LET o == AddRegion(slots, r)
       IN  /\ slots' = o.slots
           /\ res' = o.res
           /\ held' = IF o.res = "Ok" THEN held \ {r} ELSE held

Halted == res = "panic" /\ UNCHANGED vars

Next ==
    \/ \E size \in Sizes, align \in Aligns : AllocVirt(size, align)
    \/ \E r \in held : FreeVirt(r)
    \/ Halted

Spec == Init /\ [][Next]_vars

-----------------------------------------------------------------------------
(* Properties *)

\* The invariants the module comment of region.rs lists: the slots are sorted by
\* base, none overlaps the next one, and no two are adjacent.
SlotsSorted ==
    /\ TypeOK
    /\ \A i \in 1..(Len(slots) - 1) : slots[i].base + slots[i].size < slots[i + 1].base

\* The pool that the free slots and the regions handed out form.
VaPool == INSTANCE RangePool WITH free <- FreeCells(slots)

\* The allocator implements the pool: no page is handed out twice, and whatever is
\* cut off, returned or merged, no page of the range is lost.  A panic in the
\* middle of alloc is out of the pool's terms, so the property is about the steps
\* that do not panic.
ImplementsPool ==
    VaPool!PoolInit /\ [][res' # "panic" => VaPool!PoolNext]_<<FreeCells(slots), held>>

\* When everything has been returned the pool is one region again, whatever the
\* order of the calls (try_merge_at).
FreedPoolIsWhole == held = {} /\ res # "panic" => slots = <<Whole>>

\* alloc against its definition: it returns the lowest suitably aligned run of
\* free pages, and OutOfVirtualMemory only when there is none, although it looks
\* at one slot at a time.
AllocIsFirstFit ==
    res # "panic" =>
        \A size \in Sizes, align \in Aligns :
            LET runs == {b \in FreeCells(slots) :
                            b % align = 0 /\ b..(b + size - 1) \subseteq FreeCells(slots)}
                o    == Alloc(slots, size, align)
            IN  \/ runs = {} /\ o.res = "OutOfVirtualMemory"
                \/ runs # {} /\ o.res = "Ok" /\ o.region = [base |-> Min(runs), size |-> size]
                \/ runs # {} /\ o.res = "panic"

-----------------------------------------------------------------------------
(* What the comments of the code say and the code does not do *)

\* region.rs, alloc: .expect("slot available after removal").
SlotAvailableAfterRemoval == res # "panic"

=============================================================================
