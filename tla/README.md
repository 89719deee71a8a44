# Specifications of the eira kernel

TLA+ specifications of the `eira` microkernel (`src/eira`), the instances TLC checks and the
theorems TLAPS proves. Paths below are relative to `src/eira/src/`.

## The system

A single-CPU x86_64 kernel. `kmain` initialises physical memory from the boot loader's map, takes
over the active page tables, maps 1 MiB of heap, creates the scheduler and two tasks, and yields.
`Platform::enable_interrupts` is never called, so tasks switch only when they call the scheduler, and
the memory and task modules take a critical section as atomic. Exceptions, NMI and machine checks do
interrupt kernel code, at any instruction; none of them returns. `Traps` models these, and also the
timer interrupts the kernel is prepared for and does not yet enable.

| Part | Code | Modules |
| --- | --- | --- |
| scheduler, contexts, stacks | `task/`, `arch/x86_64/context.rs` | `Scheduler`, `SchedulerProofs` |
| interrupts, exceptions, serial lock, boot order | `arch/x86_64/{gdt,idt,irq,pic,imp}.rs`, `serial/`, `logger.rs`, `main.rs` | `Traps` |
| physical addresses, frames, frame ranges | `mm/addr.rs`, `mm/frame.rs` | `PhysAddr` (operators), `PhysAddrProofs` |
| frame allocator | `mm/allocator/` | `FrameAllocator` (extends `PhysAddr`), `FrameAllocatorProofs` |
| memory bootstrap | `mm/init.rs` | `MemoryInit` (extends `FrameAllocator`) |
| virtual region allocator | `mm/vm/` | `Region` (operators), `RegionAllocator` |
| kernel heap | `mm/heap.rs` | `HeapAllocator` |
| page tables | `arch/x86_64/paging/`, `mm/paging/` | `PageTables` |
| address space | `mm/address_space.rs` | `AddressSpace` (composes region allocator, mapper, frames, lock, TLB) |
| abstract: a pool with one owner per cell | contract of the allocators | `RangePool` |
| abstract: a map from pages to frames | trait `Mapper` | `AddrMap` |

`SeqLemmas` holds the facts about sequences that the proofs share. Every `MC` module instantiates the
module of the same name for TLC.

## State and actions

**Scheduler.** `runQueue`, `current`, `dead`, `state`, `prio` are the fields of `Scheduler` and
`Task`. A context is the stack it runs on and the point it returns to; `cpu` is the thread of control.
One action is one critical section of the `SCHEDULER` lock, or the switch after it: `Exit` and
`ExitSchedule` are the two halves of `exit()`, and `SwitchTo` is separate from `Schedule` because the
code switches with the lock released. Code resumed on a freed stack may do anything (`"wild"`).

**Traps.** `mem`, `rsp` and `regs` are stacks, stack pointer and registers; `ctxs` is the stack of
activations, `kmain` at the bottom. Gates, TSS descriptor and IST are encoded into fields and decoded as
the CPU does. `Enter` is a trap up to `trap_handler`: the pushes of the CPU, of the stub and of
`isr_common`, each word with the name of its field; `Return` is the pops and `iretq`. A print takes
the lock in one step and releases it in a later one, and a trap may come between. The CPU and the PIC
are external: modelled from how the code programs them.

**PhysAddr.** `align_up`, `checked_add`, `containing`, `from_index` with the limit of the physical address
space, and `FrameRange` with its iterator.

**FrameAllocator.** Bitmap bits, the first word of every frame (the link while the frame is free),
head and counters. `WriteFrame` is an owner using its frame, link word included. `list` is a history
variable. `Deallocate` is offered every frame, also frames that were never handed out.

**MemoryInit.** The steps of `mm::init::init` over the allocator's actions, without assuming
`add_region`'s safety contract: that the bootstrap meets it is what the run checks.

**Region / RegionAllocator.** The slot array as a sequence and its operations as functions from slots
to slots, counted in pages. Requests that are not page multiples are refused at once and left out.

**HeapAllocator.** Headers live in the blocks; a call has a step for each block it visits. `chain` is
a history variable. A block handed out is overwritten (`Junk`).

**PageTables.** Frames hold tables of entries; `walk_or_create` has a step for each level. The boot
loader's table holds a huge page. Free frames hold stale entries until they are zeroed.

**AddressSpace.** The multi-page operations, one step per page and per call, with the guard of the
frame allocator's lock (`locked`) and a TLB the hardware may fill or evict at any step. The four table
levels are collapsed into one, and mapper and frame allocator appear as what they promise. Page flags,
`remap` and `translate` are left to `PageTables`.

Definitions commented as deliberately wrong are plausible slips, used by no specification; each breaks
a property when it replaces the definition that follows it.

## Runs

| Run | Bounds | What it shows |
| --- | --- | --- |
| `scheduler` | idle + 3 tasks, priorities 0, 128, 200 | tasks never lost or duplicated; the CPU runs the current task on its live stack; strict priority, FIFO among equals; a ready task of the highest priority gets the CPU |
| `frames` | 5 frames, bitmaps up to 3 bytes of 2 bits | list, bits and counters agree; one owner per frame; owners' memory untouched |
| `meminit` | 6 frames; all maps of 2 entries, aligned maps of 3 | exactly the usable frames outside the bitmap become free; on which maps `init` panics, one reason being undocumented |
| `regions` | 10 pages, 3 slots | sorted, merged slots; first fit; no page lost or given twice |
| `heap` | 12 bytes in two touching pieces, 2 sizes, 3 alignments | list intact, exact statistics, first fit, termination |
| `pagetables` | 6 free frames, 5 pages, 2 flag sets | the tables implement `AddrMap`; answers are true; no frame in two places |
| `traps` | timer and a masked line; vectors 0, 11, 14, NMI, machine check; 3 nested activations | the handler's frame is true; interrupted code goes on unchanged; a print waits only for one it interrupted; no reset once the IDT is loaded; ticks go on; exceptions are reported unless a print was interrupted |
| `addrspace` | 4 frames, 5 pages, 2 slots, TLB of 1 | a failure that returns an error leaves frames, pools and page table as they were, and no failure frees a frame twice; regions handed out are usable, and unreachable once given back |

The bounds are chosen so that the boundary cases occur: three equal tasks (two cannot show
overtaking), a bitmap that is too short, full slot arrays, blocks that merge on both sides, tables that
run out of frames at every level, ranges that cross a table. Frames are interchangeable in
`pagetables` and `addrspace` (symmetry); neither run checks liveness. In `traps` the exceptions are with
and without error code and with and without a stack of their own; the stubs of the other vectors
are in the model (`StubPushes`) and are not raised. A byte has two values, so that an address fills every
field it is cut into. The type invariants of `RegionAllocator`, `HeapAllocator`, `PageTables`, `AddressSpace`
and `Traps` are the first conjunct of a structural invariant. One kind of pool is used in
`addrspace`, since the two pools share no state.

Four runs end in a violation, each of something a comment or an `expect` says:

* `sched_idle`: with no current task, `schedule` saves its caller into the idle slot
  (`task/scheduler.rs:276`), so the idle task never runs: loading the slot resumes `kmain` or an exited
  task at an `unreachable!()`.
* `sched_exit_stack`: `exit` calls `schedule`, which reaps the stack being executed on.
* `region_panic`: `alloc` needs two slots where it freed one, and `expect("slot available after
  removal")` fails. Two aligned requests on a fresh pool are enough when there are two slots.
* `aspace_oom`: the guard in the scrutinee of the `match` lives through the `None` arm, whose rollback
  locks again.

Disagreements met on the way that have no run:

* Scheduler (`task/scheduler.rs`): a ready task of priority 0 is never picked (88 speaks of "no ready
  tasks"), and the properties about priorities are stated for priorities above 0; `current` is `None`
  whenever the idle context is loaded (44: "always `Some`"); `block` leaves the task in the run queue, as
  214-215 say and 193 does not ("removed from the run queue"); `block` without a current task does not
  panic (199); `unblock` of a task that is ready returns (211: it panics if the id
  "does not refer to a blocked task"); the idle task's id is 1.
* Frame allocator: the list ends with `usize::MAX`, not with the 0 of `mm/allocator/bitmap.rs:39`, 42 and 52.
  At the end of the physical address space, a region that ends exactly there is skipped whole ("overflow,
  skip"; 108 says its frames become free), and `align_up`'s `expect` panics for one that begins behind the
  start of the last page, a panic `mm/init.rs:39-43` does not list. `PanicsExactly` and `ExactlyUsableFree`
  state this behaviour. `mm::allocate` panics where `mm/paging/mod.rs:226` promises `FrameAllocationFailed`.
* Region allocator: `add_region` returns `TrackerFull` before merging (`mm/vm/region.rs:149` says after). For
  this reason the `expect`s of `free_virt` in `mm/address_space.rs` ("cannot fail", 283, 300, 349, 404) do fail
  when every slot is taken: with two slots, one aligned `alloc_virt` leaves two free pieces, and
  `unmap_and_dealloc` of the region between them panics although it would merge into one. The model reaches
  this panic (`Panic("va")` in `FreeVa`), and likewise the one of a frame iterator dropped on an error
  (`Panic("dropped")`). `FailureLeavesNoTrace` is about the failures that return an error, and
  `FramesInOnePlace` loses track of the frames in hand once something has panicked.
* Page tables: `remap` of a huge page returns `NotMapped` (`mm/paging/mod.rs:259`: `HugePage`).
* Traps: `isr_common` saves no SSE register although the target leaves SSE on (`arch/x86_64/idt.rs:372`: "the
  full register state"), so a tick would change `xmm` under the code it interrupts, and `InterruptedIntact` is
  stated for the other registers; a print in a trap that interrupted a print hangs
  (`WaitsOnlyForInterrupted` shows that this is the only way). Interrupts stay disabled in the present kernel,
  so it does not meet the `xmm` case, and meets the hanging print only through an exception, an NMI or a
  machine check.
* `FrameRange::next` withholds the last frame of the address space, which `len` counts
  (`LastFrameIsWithheld`); only the tests use `FrameRange`.

## Fairness

`Scheduler`: weak fairness of the switch, of the rest of `exit`, of `kmain`'s yield, and of a running task
reaching some call of `yield_now`, `block` or `exit`. The last is an assumption on tasks, which a
cooperative scheduler needs and `task_a` and `task_b` meet. `HeapAllocator` and `AddressSpace`: a call that has begun keeps running, since nothing preempts it. No caller is assumed to
call. `Traps`: weak fairness of the code that runs (the CPU executes) and of each unmasked line (the CPU
takes a pending interrupt when `IF` stays set); no fairness of faults, NMI or machine checks.

## Proofs

For every number of tasks and set of priorities (`SchedulerAssumption`), `SchedulerProofs` shows
`TypeOK`, `OnePlace`, `RunningIsCurrent`, `HighestPriorityRuns` and `StopsOnlyWithoutWork`. The inductive
invariant is `TypeOK /\ OnePlace /\ RunningIsCurrent /\ OnlyIdleSlotIsForeign`: that a task's slot holds the
task's own context needs to know who saves where, which is `OnlyIdleSlotIsForeign`; that the caller of
`schedule` may be put back on the queue needs `OnePlace`. `PriorityIsStrict` adds what `pick_next` returns
(`PickNextSelects`).

For every page size and address limit (`PhysAssumption`), `PhysAddrProofs` shows that `align_up` gives a multiple
of the page size, not below its argument and the least such multiple, that `from_addr_len` gives exactly the frames that hold a byte
of the range, and what `next` does, at the last frame too.

For every memory size, page size and bitmap (`PhysAssumption`, `FrameAssumption`), `FrameAllocatorProofs` shows `TypeOK`,
`FreeListIntact`, `BitsAreHeld`, `ExhaustedWhenNoneFree`, `OwnersUndisturbed`, and that the allocator
implements `RangePool`. The invariant adds `CursorFresh`: the frames `add_region` has still to free are
neither listed nor held, which is how its contract (`Unused`) survives the loop.

The runs `scheduler` and `frames` check every conjunct of both invariants except `CursorFresh`.

`ExhaustedWhenNoneFree` is proved and not listed in a run: it follows from the other invariants.

Only model-checked: all liveness properties (fairness is beyond the prover), `LegalTransitions`,
`NoOvertaking`, and everything about traps, the bootstrap, the region allocator, the heap, the page tables
and the address space.

## Not modelled

* The aarch64 port, whose functions are stubs; the in-kernel tests; the build tool, a sequence of
  host commands without state of its own.
* Canonical forms and pointers of `VirtAddr`, formatting of addresses, frames and reports, the UART's
  registers.
* In `Traps`: stack sizes and alignment, segment limits, the spurious interrupts of the 8259 (vector
  39 has no gate), and a panic raised while a print formats its arguments: `Panic` is entered outside a
  print, and the print of the panic handler would wait for the lock that the first one holds.
* The boot as one composition: each module starts from the state the one before it leaves.

## Plan

1. Proofs for `RegionAllocator` (`SlotsSorted`, `ImplementsPool`), `RangePool` (`NoCellTwice`),
   `PageTables` (`FramesInOnePlace`), then `AddressSpace`; the action properties of `Scheduler`.
2. `AddressSpace` over `PageTables` itself in place of `AddrMap`, with a refinement between the two.
3. The stack discipline of `Traps` as an inductive invariant.
