------------------------------- MODULE Traps -------------------------------
(***************************************************************************)
(* Exceptions and interrupts of the boot CPU, and the serial port they all *)
(* print to: the descriptor tables of arch/x86_64/gdt.rs and idt.rs, the   *)
(* trap entry and exit of idt.rs, irq.rs, pic.rs, serial/mod.rs, logger.rs *)
(* and the part of kmain that brings them up.                              *)
(*                                                                         *)
(* One CPU executes a stack of activations: kmain (and the kernel it       *)
(* becomes) at the bottom, and on top of it the traps taken since.  Only   *)
(* the topmost one runs.  A trap pushes a frame on a stack in memory, and  *)
(* what the handler reads and the return restores is what is there then.   *)
(*                                                                         *)
(* kmain leaves interrupts disabled: EnableInterrupts is the call of       *)
(* Arch::enable_interrupts that the timer set up by init_cpu is meant for. *)
(***************************************************************************)
EXTENDS Integers, SequencesExt

CONSTANTS
    Byte,        \* 256: the number of values of a byte
    TextBase,    \* the address of isr_stub_0
    TssBase,     \* the address of BSP_TABLES.tss
    Lines,       \* the IRQ lines that devices raise
    Faults,      \* the exceptions that kernel code raises
    MaxDepth     \* bound: no exception is raised under this many activations

ASSUME TrapAssumption ==
    /\ Byte \in Nat \ {0, 1}
    /\ TextBase \in Nat
    /\ TssBase \in Nat
    /\ Lines \subseteq 0..15
    /\ Faults \subseteq 0..31
    /\ MaxDepth \in Nat

VARIABLES
    ctxs,        \* the activations, the running one last
    lock,        \* SERIAL: 0, or the index of the activation that holds it
    ready,       \* what kmain has brought up: "serial", "logger", "idt"
    tr,          \* the address of the TSS that the CPU uses, 0 for none
    handlers,    \* IRQ_HANDLERS: the lines with a handler
    regs,        \* the registers of the running activation
    rsp,         \* its stack pointer: <<stack, words on it>>
    mem,         \* the words on each stack, the oldest first
    intr,        \* RFLAGS.IF
    pic,         \* the 8259 pair and the LAPIC before it
    seen         \* the NMI and the machine check, which are taken once

machine == <<regs, rsp, mem>>
vars == <<ctxs, lock, ready, tr, handlers, machine, intr, pic, seen>>

-----------------------------------------------------------------------------
(* Descriptor tables *)

U16 == Byte ^ 2
U32 == Byte ^ 4

IST_COUNT == 7
IST_DF == 1
IST_NMI == 2
IST_MCE == 3
IST_SS == 4
IST_GP == 5
IST_PF == 6
IST_BP == 7

\* CpuStacks, and the boot stack 0.
Stacks == 0..IST_COUNT

\* The TSS that CpuTables::load fills in: ist[i] is the top of stacks.ist[i].
TssIst == [i \in 0..(IST_COUNT - 1) |-> i + 1]

\* The variants here and below, each just before the definition it distorts, are
\* deliberately wrong and used by no specification; they show that a property
\* can fail.

\* set_tss leaves out the bits 24 to 31 of the base.
TssDescriptorShort ==
    [base0 |-> TssBase % Byte ^ 3, base24 |-> 0, base32 |-> TssBase \div U32]

\* Gdt::set_tss: the base is cut into three fields of the descriptor.
TssDescriptor ==
    [base0  |-> TssBase % Byte ^ 3,
     base24 |-> (TssBase \div Byte ^ 3) % Byte,
     base32 |-> TssBase \div U32]

\* ltr: the CPU puts the base together again.
LoadedTss(d) == d.base0 + d.base24 * Byte ^ 3 + d.base32 * U32

\* IdtEntry::new and missing; a stub's address is cut into three fields.
IdtEntry(addr, ist) ==
    [present |-> TRUE, ist |-> ist % 8,
     low |-> addr % U16, mid |-> (addr \div U16) % U16, high |-> (addr \div U32) % U32]

Missing == [present |-> FALSE, ist |-> 0, low |-> 0, mid |-> 0, high |-> 0]

\* The address the CPU jumps to.
GateTarget(g) == g.low + g.mid * U16 + g.high * U32

\* The stacks that populate gives the vectors; the others stay on the current one.
IstOf(v) ==
    CASE v = 2  -> IST_NMI
      [] v = 3  -> IST_BP
      [] v = 8  -> IST_DF
      [] v = 12 -> IST_SS
      [] v = 13 -> IST_GP
      [] v = 14 -> IST_PF
      [] v = 18 -> IST_MCE
      [] OTHER  -> 0

\* Idt::populate: gates for the exceptions and the first two lines of the PIC.
IDT == [v \in 0..255 |-> IF v <= 33 THEN IdtEntry(TextBase + v, IstOf(v)) ELSE Missing]

-----------------------------------------------------------------------------
(* The frame of a trap *)

\* The exceptions for which the CPU pushes an error code.
ErrorCodeVectors == {8, 10, 11, 12, 13, 14, 17, 21, 29, 30}

\* The stub of the page fault is an isr_no_err.
StubPushesPfDummy(v) ==
    IF v \in {8, 10, 11, 12, 13, 17, 21, 29, 30}
    THEN <<<<"vector", v>>>>
    ELSE <<<<"error_code", 0>>, <<"vector", v>>>>

\* What stub v pushes: isr_with_err leaves the error code of the CPU in its
\* place, isr_no_err pushes a 0 for it.
StubPushes(v) ==
    IF v \in {8, 10, 11, 12, 13, 14, 17, 21, 29, 30}
    THEN <<<<"vector", v>>>>
    ELSE <<<<"error_code", 0>>, <<"vector", v>>>>

\* isr_common: the registers it pushes, and where its pops put them.
Pushes == <<"rbp", "rax", "rbx", "rcx", "rdx", "rsi", "rdi", "r8", "r9", "r10",
            "r11", "r12", "r13", "r14", "r15", "cr3", "cr2">>

\* isr_common pops r8 and r9 in the order it pushed them.
PopsSwapped == <<"rax", "rax", "r15", "r14", "r13", "r12", "r11", "r10", "r8", "r9",
                 "rdi", "rsi", "rdx", "rcx", "rbx", "rax", "rbp">>

Pops == <<"rax", "rax", "r15", "r14", "r13", "r12", "r11", "r10", "r9", "r8",
          "rdi", "rsi", "rdx", "rcx", "rbx", "rax", "rbp">>

\* ExceptionFrame, the lowest address first.
ExceptionFrame ==
    <<"cr2", "cr3", "r15", "r14", "r13", "r12", "r11", "r10", "r9", "r8", "rdi",
      "rsi", "rdx", "rcx", "rbx", "rax", "rbp", "vector", "error_code", "rip",
      "cs", "rflags", "rsp", "ss">>

\* enable_sse is the first call of kmain, and the target does not turn SSE off:
\* compiled code uses the registers xmm0 to xmm15.
Regs == Range(Pushes) \cup {"xmm"}

\* The registers that the Rust code under isr_common leaves as they were.
Preserved == {"rbx", "rbp", "r12", "r13", "r14", "r15", "cr2", "cr3"}

KernelRegs == [r \in Regs |-> <<"kernel", r>>]
KernelRsp == <<0, 1>>

-----------------------------------------------------------------------------
(* Activations *)

\* at: the next step once the `print' messages left are out; writing: inside
\* uart.write_fmt; frame, cause: where a trap's ExceptionFrame is, and the
\* vector of the event that the trap is for.
Activation(at, frame, cause) ==
    [at |-> at, print |-> 0, writing |-> FALSE, frame |-> frame, cause |-> cause]

Depth == Len(ctxs)
Top == Last(ctxs)

\* The running activation goes on at `at' after n messages.
Go(at, n) == ctxs' = [ctxs EXCEPT ![Depth].at = at, ![Depth].print = n]

\* log::*! prints one message, or none before logger::init.
Log == IF "logger" \in ready THEN 1 ELSE 0

At(at) == Top.at = at /\ Top.print = 0

Init ==
    /\ ctxs = <<Activation("serial", KernelRsp, 0)>>
    /\ lock = 0
    /\ ready = {}
    /\ tr = 0
    /\ handlers = {}
    /\ regs = KernelRegs
    /\ rsp = KernelRsp
    /\ mem = [s \in Stacks |-> IF s = 0 THEN <<<<"kernel", 0>>>> ELSE <<>>]
    /\ intr = FALSE
    /\ pic = [lapic |-> TRUE, base |-> 8, masked |-> {}, irr |-> {}, isr |-> {}]
    /\ seen = {}

-----------------------------------------------------------------------------
(* kmain *)

\* serial::init, and the print! that clears the screen.
SerialInit ==
    /\ At("serial")
    /\ lock = 0
    /\ ready' = ready \cup {"serial"}
    /\ Go("logger", 1)
    /\ UNCHANGED <<lock, tr, handlers, machine, intr, pic, seen>>

LoggerInit ==
    /\ At("logger")
    /\ ready' = ready \cup {"logger"}
    /\ Go("tables", 0)
    /\ UNCHANGED <<lock, tr, handlers, machine, intr, pic, seen>>

\* CpuTables::load
LoadTables ==
    /\ At("tables")
    /\ tr' = LoadedTss(TssDescriptor)
    /\ Go("idt", Log)
    /\ UNCHANGED <<lock, ready, handlers, machine, intr, pic, seen>>

\* Idt::load
LoadIdt ==
    /\ At("idt")
    /\ ready' = ready \cup {"idt"}
    /\ Go("lapic", Log)
    /\ UNCHANGED <<lock, tr, handlers, machine, intr, pic, seen>>

\* pic::disable_lapic; its message is followed by the first one of pic::init.
DisableLapic ==
    /\ At("lapic")
    /\ pic' = [pic EXCEPT !.lapic = FALSE]
    /\ Go("pic", Log + Log)
    /\ UNCHANGED <<lock, ready, tr, handlers, machine, intr, seen>>

\* The lines whose bit is set in the masks written to the two data ports.
MaskedBy(mask1, mask2) ==
    {l \in 0..7 : (mask1 \div 2 ^ l) % 2 = 1} \cup
    {l \in 8..15 : (mask2 \div 2 ^ (l - 8)) % 2 = 1}

\* pic::init after its message, and init_pit.  ICW1 clears what was pending.
InitPic ==
    /\ At("pic")
    /\ pic' = [pic EXCEPT !.base = 32, !.masked = MaskedBy(254, 255), !.irr = {}, !.isr = {}]
    /\ Go("register", 0)
    /\ UNCHANGED <<lock, ready, tr, handlers, machine, intr, seen>>

\* register_irq(0, timer_tick)
RegisterIrq ==
    /\ At("register")
    /\ handlers' = handlers \cup {0}
    /\ Go("run", Log)
    /\ UNCHANGED <<lock, ready, tr, machine, intr, pic, seen>>

\* The rest of kmain, and the tasks: they log.
Work ==
    /\ At("run")
    /\ Go("run", Log)
    /\ UNCHANGED <<lock, ready, tr, handlers, machine, intr, pic, seen>>

\* The panic handler, entered from one of the checks of the rest of kmain.
Panic ==
    /\ At("run")
    /\ intr' = FALSE
    /\ Go("halt", 5)
    /\ UNCHANGED <<lock, ready, tr, handlers, machine, pic, seen>>

\* Arch::enable_interrupts, any time after init_cpu.
EnableInterrupts ==
    /\ At("register") \/ At("run")
    /\ ~intr
    /\ intr' = TRUE
    /\ UNCHANGED <<ctxs, lock, ready, tr, handlers, machine, pic, seen>>

\* halt(), in a loop
Halt ==
    /\ At("halt")
    /\ UNCHANGED vars

-----------------------------------------------------------------------------
(* _print *)

\* SERIAL.lock(), when it is free.
Lock ==
    /\ Top.print > 0 /\ ~Top.writing
    /\ lock = 0
    /\ lock' = Depth
    /\ ctxs' = [ctxs EXCEPT ![Depth].writing = TRUE]
    /\ UNCHANGED <<ready, tr, handlers, machine, intr, pic, seen>>

\* SERIAL.lock(), when it is not: a spin lock retries for ever.
Spinning ==
    /\ Top.print > 0 /\ ~Top.writing
    /\ lock # 0

Spin == Spinning /\ UNCHANGED vars

\* The guard is not dropped.
WrittenKeepsLock ==
    /\ Top.writing
    /\ ctxs' = [ctxs EXCEPT ![Depth].writing = FALSE, ![Depth].print = @ - 1]
    /\ UNCHANGED <<lock, ready, tr, handlers, machine, intr, pic, seen>>

\* The last byte is out, and the guard is dropped.
Written ==
    /\ Top.writing
    /\ lock' = 0
    /\ ctxs' = [ctxs EXCEPT ![Depth].writing = FALSE, ![Depth].print = @ - 1]
    /\ UNCHANGED <<ready, tr, handlers, machine, intr, pic, seen>>

-----------------------------------------------------------------------------
(* Taking a trap *)

\* What the CPU pushes; an external interrupt has no error code.
CpuPushes(v, external) ==
    <<<<"ss", "kdata">>, <<"rsp", rsp>>, <<"rflags", intr>>, <<"cs", "kcode">>, <<"rip", Depth>>>>
    \o IF v \in ErrorCodeVectors /\ ~external THEN <<<<"error_code", <<"cpu", v>>>>>> ELSE <<>>

\* isr_common up to the call of trap_handler.
SavedRegs == [i \in 1..Len(Pushes) |-> <<Pushes[i], regs[Pushes[i]]>>]

\* The CPU goes through gate v, its stub and isr_common to trap_handler.
Enter(v, cause, external) ==
    LET gate  == IDT[v]
        stack == IF gate.ist = 0 THEN rsp ELSE <<TssIst[gate.ist - 1], 0>>
        frame == SubSeq(mem[stack[1]], 1, stack[2])
                 \o CpuPushes(v, external) \o StubPushes(GateTarget(gate) - TextBase) \o SavedRegs
        base  == <<stack[1], Len(frame)>>
    IN  /\ mem' = [mem EXCEPT ![stack[1]] = Append(frame, <<"locals", v>>)]
        /\ rsp' = <<stack[1], Len(frame) + 1>>
        /\ regs' = [r \in Regs |-> CASE r = "rbx" -> base
                                     [] r \in Preserved \ {"rbx"} -> regs[r]
                                     [] OTHER -> <<"handler", r>>]
        /\ ctxs' = Append(ctxs, Activation("trap_handler", base, cause))
        /\ intr' = FALSE
        /\ UNCHANGED <<lock, ready, tr, handlers>>

\* Without an IDT, or a TSS for a gate that names a stack, the CPU resets.
Reset ==
    /\ ctxs' = <<Activation("reset", rsp, 0)>>
    /\ lock' = 0
    /\ intr' = FALSE
    /\ UNCHANGED <<ready, tr, handlers, machine>>

\* A gate that is not present raises #NP.
Deliver(cause, external) ==
    LET v == IF IDT[cause].present THEN cause ELSE 11
    IN  IF "idt" \in ready /\ (IDT[v].ist # 0 => tr = TssBase)
        THEN Enter(v, cause, external /\ v = cause)
        ELSE Reset

Running == Top.at # "reset"

\* An exception of the instruction being executed.
Fault(v) ==
    /\ Running /\ ~At("halt")
    /\ Depth < MaxDepth
    /\ Deliver(v, FALSE)
    /\ UNCHANGED <<pic, seen>>

\* The NMI or a machine check: neither waits for IF.
Async(v) ==
    /\ Running
    /\ v \notin seen
    /\ seen' = seen \cup {v}
    /\ Deliver(v, FALSE)
    /\ UNCHANGED pic

\* A device raises its line.
Raise(l) ==
    /\ l \notin pic.irr
    /\ pic' = [pic EXCEPT !.irr = @ \cup {l}]
    /\ UNCHANGED <<ctxs, lock, ready, tr, handlers, machine, intr, seen>>

\* The PIC passes on the lines that are not masked, unless one that is as
\* urgent is in service.
Interrupt(l) ==
    /\ Running /\ intr /\ ~pic.lapic
    /\ l \in pic.irr \ pic.masked
    /\ \A k \in pic.isr : l < k
    /\ pic' = [pic EXCEPT !.irr = @ \ {l}, !.isr = @ \cup {l}]
    /\ Deliver(pic.base + l, TRUE)
    /\ UNCHANGED seen

-----------------------------------------------------------------------------
(* trap_handler *)

\* The word at a field of the ExceptionFrame that starts at `base'.
FrameWord(base, i) == mem[base[1]][base[2] - i + 1]

Vector == FrameWord(Top.frame, 18)[2]

IRQ_BASE == 32

\* handle_cpu_exception returns after its report.
HandleCpuExceptionReturns ==
    /\ At("trap_handler")
    /\ Vector < IRQ_BASE
    /\ intr' = FALSE
    /\ Go("return", 1)
    /\ UNCHANGED <<lock, ready, tr, handlers, machine, pic, seen>>

HandleCpuException ==
    /\ At("trap_handler")
    /\ Vector < IRQ_BASE
    /\ intr' = FALSE
    /\ Go("halt", 1)
    /\ UNCHANGED <<lock, ready, tr, handlers, machine, pic, seen>>

\* irq::dispatch: timer_tick prints a line, a line without a handler is logged.
Dispatch ==
    /\ At("trap_handler")
    /\ Vector >= IRQ_BASE
    /\ Go("eoi", IF Vector - IRQ_BASE \in handlers THEN 1 ELSE Log)
    /\ UNCHANGED <<lock, ready, tr, handlers, machine, intr, pic, seen>>

\* A non-specific EOI ends the most urgent of the lines that a PIC serves.
EndOf(isr) == isr \ {l \in isr : \A k \in isr : l <= k}

\* send_eoi tells the second PIC only.
SendEoiSecondOnly ==
    /\ At("eoi")
    /\ Go("return", 0)
    /\ UNCHANGED <<lock, ready, tr, handlers, machine, intr, pic, seen>>

SendEoi ==
    LET pic1 == {l \in pic.isr : l < 8}
        pic2 == pic.isr \ pic1
    IN  /\ At("eoi")
        /\ pic' = [pic EXCEPT !.isr = EndOf(pic1) \cup
                        (IF Vector - IRQ_BASE >= 8 THEN EndOf(pic2) ELSE pic2)]
        /\ Go("return", 0)
        /\ UNCHANGED <<lock, ready, tr, handlers, machine, intr, seen>>

\* isr_common after the call: mov rsp, rbx; the pops; add rsp, 16; iretq.
Return ==
    LET base == regs["rbx"]
        iret == Len(Pops) + 2
    IN  /\ At("return")
        /\ regs' = [r \in Regs |->
                LET at == {i \in 1..Len(Pops) : Pops[i] = r}
                IN  IF at = {} THEN regs[r]
                    ELSE FrameWord(base, CHOOSE i \in at : \A j \in at : j <= i)[2]]
        /\ ctxs' = SubSeq(ctxs, 1, FrameWord(base, iret + 1)[2])
        /\ intr' = FrameWord(base, iret + 3)[2]
        /\ rsp' = FrameWord(base, iret + 4)[2]
        /\ mem' = [mem EXCEPT ![rsp'[1]] = SubSeq(@, 1, rsp'[2])]
        /\ UNCHANGED <<lock, ready, tr, handlers, pic, seen>>

ResetState == Top.at = "reset" /\ UNCHANGED vars

-----------------------------------------------------------------------------
\* What the CPU does by executing the next instructions of the kernel.
Execute ==
    \/ SerialInit \/ LoggerInit \/ LoadTables \/ LoadIdt \/ DisableLapic \/ InitPic
    \/ RegisterIrq \/ Work \/ Lock \/ Written
    \/ HandleCpuException \/ Dispatch \/ SendEoi \/ Return

Next ==
    \/ Execute
    \/ Panic \/ EnableInterrupts
    \/ Halt \/ Spin \/ ResetState
    \/ \E v \in Faults : Fault(v)
    \/ \E v \in {2, 18} : Async(v)
    \/ \E l \in Lines : Raise(l) \/ Interrupt(l)

\* A CPU that is not halted executes, and takes an interrupt that is let through.
Fairness == WF_vars(Execute) /\ \A l \in Lines : WF_vars(Interrupt(l))

Spec == Init /\ [][Next]_vars /\ Fairness

-----------------------------------------------------------------------------
(* Properties *)

Places == {"serial", "logger", "tables", "idt", "lapic", "pic", "register", "run",
           "trap_handler", "eoi", "return", "halt", "reset"}

TypeOK ==
    /\ \A i \in 1..Depth : /\ ctxs[i].at \in Places
                           /\ ctxs[i].print \in 0..5
                           /\ ctxs[i].writing \in BOOLEAN
    /\ lock \in 0..Depth
    /\ DOMAIN regs = Regs /\ DOMAIN mem = Stacks
    /\ intr \in BOOLEAN
    /\ pic.irr \subseteq Lines /\ pic.isr \subseteq Lines

\* The trap that runs reads its ExceptionFrame at the fields of the struct: the
\* words are where isr_common, the stub and the CPU pushed them, and the vector
\* is that of the event the trap is for, whichever stack it came in on and
\* whatever was interrupted (idt.rs: the stubs, isr_common, ExceptionFrame).
FrameIsTrue ==
    /\ TypeOK
    /\ Depth > 1 =>
        /\ \A i \in 1..Len(ExceptionFrame) : FrameWord(Top.frame, i)[1] = ExceptionFrame[i]
        /\ Vector = Top.cause
        /\ FrameWord(Top.frame, 19)[2] =
               IF Top.cause \in ErrorCodeVectors THEN <<"cpu", Top.cause>> ELSE 0

\* Code that was interrupted by an IRQ goes on with its registers, its stack
\* and its stack pointer as they were (isr_common).  The SSE registers, which
\* no stub saves, are not among them.
InterruptedIntact ==
    Depth = 1 =>
        /\ \A r \in Range(Pushes) : regs[r] = KernelRegs[r]
        /\ rsp = KernelRsp
        /\ mem[0] = <<<<"kernel", 0>>>>

\* A print waits for the port only in a trap that came in the middle of another
\* print: SERIAL is never left locked (serial/mod.rs, _print).
WaitsOnlyForInterrupted ==
    lock # 0 =>
        /\ ctxs[lock].writing
        /\ Spinning => lock < Depth

\* Once the IDT is loaded no trap resets the machine: the gates and the stacks
\* they name are there before it (imp.rs, init_cpu).
NoResetWithIdt == [][ "idt" \in ready => Top'.at # "reset" \/ Top.at = "reset"]_vars

\* The CPU has stopped for good: halted with interrupts disabled, reset, or
\* waiting for a port that it holds itself.
Stopped == At("halt") \/ ~Running \/ Spinning

\* A tick of the timer that comes while interrupts are enabled is taken, unless
\* the machine stops (pic.rs, init and send_eoi; isr_common).
TicksAreTaken == (intr /\ 0 \in pic.irr) ~> (0 \notin pic.irr \/ Stopped)

\* An exception is printed and the CPU halts, unless it interrupted a print and
\* waits for the port (idt.rs, handle_cpu_exception).
ExceptionsReported ==
    (Depth > 1 /\ Top.cause < IRQ_BASE) ~> (At("halt") \/ Spinning)

=============================================================================
