----------------------------- MODULE PageTables -----------------------------
(***************************************************************************)
(* The x86_64 mapper, arch/x86_64/paging: four levels of tables in         *)
(* physical frames, with the entry encoding of entry.rs.  The frames come  *)
(* from the frame allocator, of which only its promise (RangePool) is used *)
(* here: allocate returns some free frame.                                 *)
(*                                                                         *)
(* walk_or_create, which map and remap share, has one step for every level *)
(* it visits; the other operations are single steps.  A virtual address is *)
(* the sequence of its four indices, of which index_of cuts out one.  A    *)
(* misaligned or non-canonical address is refused at once and left out.    *)
(***************************************************************************)
EXTENDS Integers, Sequences, FiniteSets

CONSTANTS
    Frames,       \* the physical frames
    Pml4,         \* the root table
    BootTable,    \* the boot loader's table: an entry of Pml4 points to it
    Indices,      \* 0..511
    BootIndex,    \* the index of BootTable in Pml4, and of a huge page in BootTable
    Pages,        \* the virtual addresses used
    FlagSets,     \* the PageFlags used
    None, NoFrame

ASSUME PageTablesAssumption ==
    /\ {Pml4, BootTable} \subseteq Frames
    /\ Pml4 # BootTable
    /\ BootIndex \in Indices
    /\ Pages \subseteq Seq(Indices)
    /\ \A v \in Pages : Len(v) = 4
    /\ None \notin [frame : Frames, flags : SUBSET {"READ", "WRITE", "EXECUTE", "USER", "UNCACHED", "GLOBAL"}]
    /\ NoFrame \notin Frames

VARIABLES
    mem,          \* what a frame holds, read as a table
    avail,        \* the frames that are free
    owned,        \* the frames callers hold as OwnedFrames
    call,         \* the map or remap that is walking down the tables
    res           \* what the last call returned

vars == <<mem, avail, owned, call, res>>

-----------------------------------------------------------------------------
(* Entries *)

EMPTY == [frame |-> NoFrame, bits |-> {}]
Present(e) == "PRESENT" \in e.bits
Huge(e) == "HUGE_PAGE" \in e.bits
ZeroTable == [i \in Indices |-> EMPTY]

\* What may be left in a frame by whoever used it before: worst, entries.
Stale == [i \in Indices |-> [frame |-> Pml4, bits |-> {"PRESENT"}]]

\* entry_flags_from_page_flags.
EntryFlags(pf) ==
    {"PRESENT"} \union {x \in {"WRITABLE", "USER", "CACHE_DISABLE", "GLOBAL", "NO_EXECUTE"} :
        \/ x = "WRITABLE" /\ "WRITE" \in pf
        \/ x = "USER" /\ "USER" \in pf
        \/ x = "CACHE_DISABLE" /\ "UNCACHED" \in pf
        \/ x = "GLOBAL" /\ "GLOBAL" \in pf
        \/ x = "NO_EXECUTE" /\ "EXECUTE" \notin pf}

\* This variant and those further on are deliberately wrong and used by no
\* specification: page_flags_from_entry_flags forgets that NO_EXECUTE is inverted.
PageFlagsNotInverted(ef) ==
    {"READ"} \union {x \in {"WRITE", "USER", "UNCACHED", "GLOBAL", "EXECUTE"} :
        \/ x = "WRITE" /\ "WRITABLE" \in ef
        \/ x = "USER" /\ "USER" \in ef
        \/ x = "UNCACHED" /\ "CACHE_DISABLE" \in ef
        \/ x = "GLOBAL" /\ "GLOBAL" \in ef
        \/ x = "EXECUTE" /\ "NO_EXECUTE" \in ef}

\* page_flags_from_entry_flags.
PageFlags(ef) ==
    {"READ"} \union {x \in {"WRITE", "USER", "UNCACHED", "GLOBAL", "EXECUTE"} :
        \/ x = "WRITE" /\ "WRITABLE" \in ef
        \/ x = "USER" /\ "USER" \in ef
        \/ x = "UNCACHED" /\ "CACHE_DISABLE" \in ef
        \/ x = "GLOBAL" /\ "GLOBAL" \in ef
        \/ x = "EXECUTE" /\ "NO_EXECUTE" \notin ef}

L4e(v) == mem[Pml4][v[1]]
L3e(v) == mem[L4e(v).frame][v[2]]
L2e(v) == mem[L3e(v).frame][v[3]]
L1e(v) == mem[L2e(v).frame][v[4]]

\* What the walk down to the last table meets: unmap tells the three apart, walk
\* returns None for "huge" as for "absent".
WalkTo(v) ==
    IF ~Present(L4e(v)) THEN "absent"
    ELSE IF ~Present(L3e(v)) THEN "absent"
    ELSE IF Huge(L3e(v)) THEN "huge"
    ELSE IF ~Present(L2e(v)) THEN "absent"
    ELSE IF Huge(L2e(v)) THEN "huge"
    ELSE "table"

Mapped(v) == WalkTo(v) = "table" /\ Present(L1e(v))

\* translate.
Translate(v) ==
    IF Mapped(v) THEN [frame |-> L1e(v).frame, flags |-> PageFlags(L1e(v).bits)] ELSE None

-----------------------------------------------------------------------------
(* Operations *)

Idle == [op |-> "none"]

\* The tables of the boot loader: one huge page.  Every other frame holds what
\* was left in it.
Init ==
    /\ mem = [f \in Frames |->
                CASE f = Pml4 -> [ZeroTable EXCEPT ![BootIndex] =
                                    [frame |-> BootTable, bits |-> {"PRESENT", "WRITABLE"}]]
                  [] f = BootTable -> [ZeroTable EXCEPT ![BootIndex] =
                                    [frame |-> NoFrame, bits |-> {"PRESENT", "HUGE_PAGE"}]]
                  [] OTHER -> Stale]
    /\ avail = Frames \ {Pml4, BootTable}
    /\ owned = {}
    /\ call = Idle
    /\ res = "Ok"

\* mm::allocate and mm::deallocate called by the owner of frames.
Allocate ==
    /\ call = Idle
    /\ \E f \in avail : avail' = avail \ {f} /\ owned' = owned \union {f}
    /\ UNCHANGED <<mem, call, res>>

Deallocate(f) ==
    /\ call = Idle
    /\ f \in owned
    /\ avail' = avail \union {f}
    /\ owned' = owned \ {f}
    /\ UNCHANGED <<mem, call, res>>

MapCall(v, f, flags) ==
    /\ call = Idle
    /\ f \in owned
    /\ owned' = owned \ {f}
    /\ call' = [op |-> "map", virt |-> v, frame |-> f, flags |-> flags, table |-> Pml4, level |-> 1]
    /\ UNCHANGED <<mem, avail, res>>

RemapCall(v, flags) ==
    /\ call = Idle
    /\ call' = [op |-> "remap", virt |-> v, frame |-> NoFrame, flags |-> flags,
                table |-> Pml4, level |-> 1]
    /\ UNCHANGED <<mem, avail, owned, res>>

Here == mem[call.table][call.virt[call.level]]
Walking == call.op \in {"map", "remap"}

\* map gives the frame back with the error.
Fail(error) ==
    /\ res' = error
    /\ owned' = IF call.op = "map" THEN owned \union {call.frame} ELSE owned
    /\ call' = Idle
    /\ UNCHANGED <<mem, avail>>

\* A new table is linked in as it was found, without zero().
CreateTableUnzeroed ==
    /\ call.op = "map"
    /\ call.level < 4
    /\ ~Present(Here)
    /\ \E f \in avail :
          /\ avail' = avail \ {f}
          /\ mem' = [mem EXCEPT ![call.table][call.virt[call.level]] =
                                    [frame |-> f, bits |-> {"PRESENT", "WRITABLE", "USER"}]]
          /\ call' = [call EXCEPT !.table = f, !.level = @ + 1]
    /\ UNCHANGED <<owned, res>>

\* next_table, the entry not being present: a table is allocated, zeroed and
\* linked in, and the walk goes on in it.
CreateTable ==
    /\ call.op = "map"
    /\ call.level < 4
    /\ ~Present(Here)
    /\ \E f \in avail :
          /\ avail' = avail \ {f}
          /\ mem' = [mem EXCEPT ![f] = ZeroTable,
                                ![call.table][call.virt[call.level]] =
                                    [frame |-> f, bits |-> {"PRESENT", "WRITABLE", "USER"}]]
          /\ call' = [call EXCEPT !.table = f, !.level = @ + 1]
    /\ UNCHANGED <<owned, res>>

\* mm::allocate panics when there is no frame.
OutOfFrames ==
    /\ call.op = "map"
    /\ call.level < 4
    /\ ~Present(Here)
    /\ avail = {}
    /\ call' = [op |-> "panic"]
    /\ UNCHANGED <<mem, avail, owned, res>>

\* next_table, the entry being present.
Descend ==
    /\ Walking
    /\ call.level < 4
    /\ Present(Here)
    /\ ~Huge(Here)
    /\ call' = [call EXCEPT !.table = Here.frame, !.level = @ + 1]
    /\ UNCHANGED <<mem, avail, owned, res>>

\* remap turns whatever error walk_or_create returns into NotMapped.
WalkFails ==
    /\ Walking
    /\ call.level < 4
    /\ \/ Present(Here) /\ Huge(Here)
       \/ call.op = "remap" /\ ~Present(Here)
    /\ Fail(IF call.op = "map" THEN "AlreadyMapped" ELSE "NotMapped")

\* The end of map.
MapLeaf ==
    /\ call.op = "map"
    /\ call.level = 4
    /\ IF Present(Here)
       THEN Fail("AlreadyMapped")
       ELSE /\ mem' = [mem EXCEPT ![call.table][call.virt[4]] =
                                    [frame |-> call.frame, bits |-> EntryFlags(call.flags)]]
            /\ res' = "Ok"
            /\ call' = Idle
            /\ UNCHANGED <<avail, owned>>

\* The end of remap.
RemapLeaf ==
    /\ call.op = "remap"
    /\ call.level = 4
    /\ IF Present(Here) /\ ~Huge(Here)
       THEN /\ mem' = [mem EXCEPT ![call.table][call.virt[4]].bits = EntryFlags(call.flags)]
            /\ res' = "Ok"
            /\ call' = Idle
            /\ UNCHANGED <<avail, owned>>
       ELSE Fail(IF Present(Here) THEN "HugePage" ELSE "NotMapped")

\* unmap returns the frame and leaves the entry.
UnmapKeepsEntry(v) ==
    /\ call = Idle
    /\ IF Mapped(v)
       THEN /\ res' = "Ok"
            /\ owned' = owned \union {L1e(v).frame}
            /\ mem' = mem
       ELSE /\ res' = IF WalkTo(v) = "huge" THEN "HugePage" ELSE "NotMapped"
            /\ UNCHANGED <<mem, owned>>
    /\ UNCHANGED <<avail, call>>

\* unmap: the leaf is cleared and its frame is the caller's; no table is freed.
Unmap(v) ==
    /\ call = Idle
    /\ IF Mapped(v)
       THEN /\ res' = "Ok"
            /\ owned' = owned \union {L1e(v).frame}
            /\ mem' = [mem EXCEPT ![L2e(v).frame][v[4]] = EMPTY]
       ELSE /\ res' = IF WalkTo(v) = "huge" THEN "HugePage" ELSE "NotMapped"
            /\ UNCHANGED <<mem, owned>>
    /\ UNCHANGED <<avail, call>>

Halted == call.op = "panic" /\ UNCHANGED vars

Next ==
    \/ Allocate
    \/ \E f \in owned : Deallocate(f)
    \/ \E v \in Pages, flags \in FlagSets :
          RemapCall(v, flags) \/ \E f \in owned : MapCall(v, f, flags)
    \/ \E v \in Pages : Unmap(v)
    \/ CreateTable \/ OutOfFrames \/ Descend \/ WalkFails
    \/ MapLeaf \/ RemapLeaf
    \/ Halted

Spec == Init /\ [][Next]_vars

-----------------------------------------------------------------------------
(* Properties *)

TypeOK ==
    /\ mem \in [Frames -> [Indices -> [frame : Frames \union {NoFrame},
                   bits : SUBSET {"PRESENT", "WRITABLE", "USER", "CACHE_DISABLE",
                                  "GLOBAL", "NO_EXECUTE", "HUGE_PAGE"}]]]
    /\ avail \subseteq Frames
    /\ owned \subseteq Frames
    /\ call.op \in {"none", "map", "remap", "panic"}
    /\ Walking => call.level \in 1..4 /\ call.table \in Frames
    /\ res \in {"Ok", "AlreadyMapped", "NotMapped", "HugePage"}

\* The tables of each level that are linked in, from the root down.
Targets(ts) == {mem[t][i].frame : <<t, i>> \in
                  {x \in ts \X Indices : Present(mem[x[1]][x[2]]) /\ ~Huge(mem[x[1]][x[2]])}}
Tables3 == Targets({Pml4})
Tables2 == Targets(Tables3)
Tables1 == Targets(Tables2)
Leaves == Targets(Tables1)
Entries(ts) == {x \in ts \X Indices : Present(mem[x[1]][x[2]]) /\ ~Huge(mem[x[1]][x[2]])}

InFlight == IF call.op = "map" THEN {call.frame} ELSE {}

\* Every frame is in exactly one place: free, in the hands of a caller, a table of
\* one level linked in once, or mapped once; no table is reachable twice, none is
\* mapped or handed out, and no frame is lost (except the one map held when
\* mm::allocate panicked).
FramesInOnePlace ==
    LET kinds == <<avail, owned, InFlight, {Pml4}, Tables3, Tables2, Tables1, Leaves>>
        tabs  == {Pml4} \union Tables3 \union Tables2 \union Tables1
    IN  /\ TypeOK
        /\ \A i, j \in 1..8 : i # j => kinds[i] \cap kinds[j] = {}
        /\ Cardinality(Entries(tabs)) = Cardinality(Tables3 \union Tables2 \union Tables1 \union Leaves)
        /\ call.op # "panic" => UNION {kinds[i] : i \in 1..8} = Frames

\* translate seen as a map.
Abstract == INSTANCE AddrMap WITH map <- [v \in Pages |-> Translate(v)]

\* The tables implement the map: an operation on one page, with the tables it
\* creates on the way, changes the translation of no other page.
ImplementsMap == Abstract!MapSpec

\* The answers are true: map succeeds exactly on a page that was not mapped, and
\* then translate gives back the frame and the flags it was given, READ added;
\* remap succeeds exactly on a page that is mapped, and keeps its frame.
AnswersAreTrue ==
    [][Walking /\ call' = Idle =>
         \A v \in {call.virt} :
             LET old == Translate(v)
             IN  /\ (res' = "Ok") <=> IF call.op = "map"
                                     THEN old = None /\ WalkTo(v) # "huge"
                                     ELSE old # None
                 /\ Translate(v)' =
                      IF res' # "Ok" THEN old
                      ELSE [frame |-> IF call.op = "map" THEN call.frame ELSE old.frame,
                            flags |-> call.flags \union {"READ"}]]_vars

=============================================================================
