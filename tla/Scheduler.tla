----------------------------- MODULE Scheduler -----------------------------
(***************************************************************************)
(* The cooperative, priority-based task scheduler of the kernel:           *)
(* eira/src/task/scheduler.rs, the task states of task/task.rs and the     *)
(* context switch of arch/x86_64/context.rs.                               *)
(*                                                                         *)
(* There is one CPU and interrupts stay disabled, so exactly one thread of *)
(* control executes: `cpu' says on whose stack and where.  An action is    *)
(* one critical section of the SCHEDULER lock, or the switch performed     *)
(* after the lock has been released.  A saved context is abstracted to     *)
(* what happens when it is loaded: the stack it runs on and the point it   *)
(* returns to.                                                             *)
(***************************************************************************)
EXTENDS Naturals, FiniteSets, SequencesExt

CONSTANTS
    MaxTasks,    \* bound: how many task ids are issued, the idle task's included
    Priorities   \* the priorities spawn is called with

ASSUME SchedulerAssumption ==
    /\ MaxTasks \in Nat \ {0}
    /\ Priorities \subseteq 0..255

VARIABLES
    nextId,      \* TaskId::next's COUNTER
    prio,        \* Task::priority
    state,       \* Task::state; the BlockReason is never read and left out
    runQueue,    \* Scheduler::run_queue
    current,     \* Scheduler::current
    dead,        \* Scheduler::dead
    ctx,         \* Task::context: [owner, ret], the stack and the return point
    stack,       \* Task::stack: "none", "live", or "freed" with its Task
    cpu          \* [owner, at, from, to, ret]: the executing thread of control

vars == <<nextId, prio, state, runQueue, current, dead, ctx, stack, cpu>>

TaskIds == 1..MaxTasks

\* TaskId(0) is never issued: COUNTER starts at 1, and the first id goes to
\* the task that scheduler::init builds, the idle task.
NoTask == 0
Boot == 0
Idle == 1

TaskStates == {"Created", "Ready", "Running", "Blocked", "Dead"}
ReturnPoints == {"run", "idle", "unreachable"}

\* Where control stops for good: idle_task's hlt loop, the panic handler's hlt
\* loop (entered by a panic! or by an unreachable!), and code executed from a
\* stack that has been freed and overwritten.
Stopped == {"idle", "panic", "unreachable", "wild"}

TypeOK ==
    /\ nextId \in 2..(MaxTasks + 1)
    /\ prio \in [TaskIds -> 0..255]
    /\ state \in [TaskIds -> TaskStates]
    /\ runQueue \in Seq(TaskIds)
    /\ current \in TaskIds \union {NoTask}
    /\ dead \in Seq(TaskIds)
    /\ ctx \in [TaskIds -> [owner : TaskIds \union {Boot}, ret : ReturnPoints]]
    /\ stack \in [TaskIds -> {"none", "live", "freed"}]
    /\ cpu \in [owner : TaskIds \union {Boot},
                at    : {"run", "exiting", "switch"} \union Stopped,
                from  : TaskIds,
                to    : TaskIds,
                ret   : ReturnPoints]

-----------------------------------------------------------------------------
(* Helpers *)

Queued == Range(runQueue)
Issued == 1..(nextId - 1)

\* The variants below and further on, each just before the definition it
\* distorts, are deliberately wrong and used by no specification: each is a slip
\* the code could have made, kept to show that a property can fail.

\* KernelContext::new without the entry point on the stack: the first switch
\* returns to a zero.
FreshContextNoEntry(t, entry) == [owner |-> t, ret |-> "zero"]

\* Task::new: a stack of its own and a context that starts at the entry point.
FreshContext(t, entry) == [owner |-> t, ret |-> entry]

\* is_runnable forgets that a blocked task waits on the same queue.
PickableBlocked(q, st) ==
    {i \in DOMAIN q : st[q[i]] \in {"Ready", "Blocked"} /\ prio[q[i]] > 0}

\* Task::is_runnable, and the priority test of pick_next's scan, which starts
\* from best_priority = 0 and so never accepts priority 0.
Pickable(q, st) == {i \in DOMAIN q : st[q[i]] = "Ready" /\ prio[q[i]] > 0}

\* `>=' in place of `>' in the scan: the last of the equals wins.
PickNextLast(q, st) ==
    LET S == Pickable(q, st)
    IN  IF S = {}
        THEN 0
        ELSE CHOOSE i \in S :
                \A j \in S : \/ prio[q[j]] < prio[q[i]]
                             \/ prio[q[j]] = prio[q[i]] /\ j <= i

\* best_priority is never updated: the first ready task wins.
PickNextFirst(q, st) ==
    LET S == Pickable(q, st)
    IN  IF S = {} THEN 0 ELSE CHOOSE i \in S : \A j \in S : i <= j

\* The scan stops one element early.
PickNextShort(q, st) ==
    LET S == Pickable(q, st) \ {Len(q)}
    IN  IF S = {}
        THEN 0
        ELSE CHOOSE i \in S :
                \A j \in S : \/ prio[q[j]] < prio[q[i]]
                             \/ prio[q[j]] = prio[q[i]] /\ i <= j

\* Scheduler::pick_next: the index of the first pickable task of highest
\* priority, 0 when there is none.
PickNext(q, st) ==
    LET S == Pickable(q, st)
    IN  IF S = {}
        THEN 0
        ELSE CHOOSE i \in S :
                \A j \in S : \/ prio[q[j]] < prio[q[i]]
                             \/ prio[q[j]] = prio[q[i]] /\ i <= j

\* schedule(): the critical section.  The dead are reaped, the current task
\* goes to the back of the queue in its new state, the next one is picked, and
\* the pointers of the two contexts are left for the switch.  `ret' is where
\* the caller continues when the context it is about to save is loaded.
Schedule(newState, ret) ==
    LET q    == IF current = NoTask THEN runQueue ELSE Append(runQueue, current)
        st   == IF current = NoTask THEN state ELSE [state EXCEPT ![current] = newState]
        from == IF current = NoTask THEN Idle ELSE current
        i    == PickNext(q, st)
        to   == IF i = 0 THEN Idle ELSE q[i]
    IN  /\ stack' = [t \in TaskIds |-> IF t \in Range(dead) THEN "freed" ELSE stack[t]]
        /\ dead' = <<>>
        /\ runQueue' = IF i = 0 THEN q ELSE RemoveAt(q, i)
        /\ state' = [st EXCEPT ![to] = "Running"]
        /\ current' = IF i = 0 THEN NoTask ELSE q[i]
        /\ cpu' = [cpu EXCEPT !.at = "switch", !.from = from, !.to = to, !.ret = ret]
        /\ UNCHANGED <<nextId, prio, ctx>>

-----------------------------------------------------------------------------
(* The state scheduler::init leaves: kmain executes on the boot stack, no task *)
(* is current, the idle task exists and is on no queue.                        *)

Init ==
    /\ nextId = 2
    /\ prio = [t \in TaskIds |-> 0]
    /\ state = [t \in TaskIds |-> "Created"]
    /\ runQueue = <<>>
    /\ current = NoTask
    /\ dead = <<>>
    /\ ctx = [t \in TaskIds |-> FreshContext(t, IF t = Idle THEN "idle" ELSE "run")]
    /\ stack = [t \in TaskIds |-> IF t = Idle THEN "live" ELSE "none"]
    /\ cpu = [owner |-> Boot, at |-> "run", from |-> Idle, to |-> Idle, ret |-> "run"]

InTask == cpu.at = "run" /\ cpu.owner # Boot

\* spawn and Scheduler::enqueue, called by kmain or by a task.
Spawn(p) ==
    /\ cpu.at = "run"
    /\ nextId <= MaxTasks
    /\ nextId' = nextId + 1
    /\ prio' = [prio EXCEPT ![nextId] = p]
    /\ state' = [state EXCEPT ![nextId] = "Ready"]
    /\ runQueue' = Append(runQueue, nextId)
    /\ ctx' = [ctx EXCEPT ![nextId] = FreshContext(nextId, "run")]
    /\ stack' = [stack EXCEPT ![nextId] = "live"]
    /\ UNCHANGED <<current, dead, cpu>>

\* The yield_now at the end of kmain, followed there by unreachable!().
BootYield ==
    /\ cpu.at = "run"
    /\ cpu.owner = Boot
    /\ Schedule("Ready", "unreachable")

\* yield_now called by a task.
Yield ==
    /\ InTask
    /\ Schedule("Ready", "run")

\* block called by a task.
Block ==
    /\ InTask
    /\ Schedule("Blocked", "run")

\* unblock without the search of the run queue: the task is queued again.
UnblockRequeue(t) ==
    /\ InTask
    /\ IF t \in Queued
       THEN /\ state' = [state EXCEPT ![t] = "Ready"]
            /\ runQueue' = Append(runQueue, t)
            /\ cpu' = cpu
       ELSE /\ cpu' = IF t \in Range(dead) THEN cpu ELSE [cpu EXCEPT !.at = "panic"]
            /\ UNCHANGED <<state, runQueue>>
    /\ UNCHANGED <<nextId, prio, current, dead, ctx, stack>>

\* unblock(t): a task found on the run queue is marked ready whatever it was
\* doing there and keeps its place, a dead one is ignored, and any other id
\* (the current task, a reaped task, the idle task) panics.
Unblock(t) ==
    /\ InTask
    /\ IF t \in Queued
       THEN /\ state' = [state EXCEPT ![t] = "Ready"]
            /\ cpu' = cpu
       ELSE /\ cpu' = IF t \in Range(dead) THEN cpu ELSE [cpu EXCEPT !.at = "panic"]
            /\ state' = state
    /\ UNCHANGED <<nextId, prio, runQueue, current, dead, ctx, stack>>

\* exit(), with current left in place: the task is both current and dead.
ExitKeepsCurrent ==
    /\ InTask
    /\ state' = [state EXCEPT ![current] = "Dead"]
    /\ dead' = Append(dead, current)
    /\ cpu' = [cpu EXCEPT !.at = "exiting"]
    /\ UNCHANGED <<nextId, prio, runQueue, current, ctx, stack>>

\* exit(), first critical section: the current task is killed and moved to the
\* dead queue.
Exit ==
    /\ InTask
    /\ state' = [state EXCEPT ![current] = "Dead"]
    /\ dead' = Append(dead, current)
    /\ current' = NoTask
    /\ cpu' = [cpu EXCEPT !.at = "exiting"]
    /\ UNCHANGED <<nextId, prio, runQueue, ctx, stack>>

\* exit(), the call of schedule(None), followed there by unreachable!().
ExitSchedule ==
    /\ cpu.at = "exiting"
    /\ Schedule("Ready", "unreachable")

\* switch_to with its two operands swapped.
SwitchToSwapped ==
    /\ cpu.at = "switch"
    /\ ctx' = [ctx EXCEPT ![cpu.to] = [owner |-> cpu.owner, ret |-> cpu.ret]]
    /\ cpu' = [cpu EXCEPT !.owner = ctx[cpu.from].owner, !.at = ctx[cpu.from].ret]
    /\ UNCHANGED <<nextId, prio, state, runQueue, current, dead, stack>>

\* KernelContext::switch_to: save into `from', load from `to'.  The memory of a
\* freed stack may have been handed out again by the heap since another thread
\* of control ran, so what is loaded from it may be anything.
SwitchTo ==
    /\ cpu.at = "switch"
    /\ ctx' = [ctx EXCEPT ![cpu.from] = [owner |-> cpu.owner, ret |-> cpu.ret]]
    /\ LET next == ctx'[cpu.to]
           lost == next.owner \notin {Boot, cpu.owner} /\ stack[next.owner] = "freed"
       IN  \E at \in {next.ret} \union (IF lost THEN {"wild"} ELSE {}) :
              cpu' = [cpu EXCEPT !.owner = next.owner, !.at = at]
    /\ UNCHANGED <<nextId, prio, state, runQueue, current, dead, stack>>

\* The hlt loops of the panic handler and of idle_task: nothing runs again.
HaltLoop ==
    /\ cpu.at \in Stopped
    /\ UNCHANGED vars

Next ==
    \/ \E p \in Priorities : Spawn(p)
    \/ BootYield
    \/ Yield
    \/ Block
    \/ \E t \in Issued : Unblock(t)
    \/ Exit
    \/ ExitSchedule
    \/ SwitchTo
    \/ HaltLoop

Spec == Init /\ [][Next]_vars

\* Cooperative tasks: code that runs keeps running, and sooner or later calls
\* yield_now, block or exit, as every task of the kernel does.
Fairness ==
    /\ WF_vars(BootYield)
    /\ WF_vars(Yield \/ Block \/ Exit)
    /\ WF_vars(ExitSchedule)
    /\ WF_vars(SwitchTo)

FairSpec == Spec /\ Fairness

-----------------------------------------------------------------------------
(* Safety *)

Reaped == {t \in Issued : stack[t] = "freed"}

\* Every task that was spawned and not yet reaped is in exactly one place: once
\* on the run queue, in `current', or once in the dead queue, and its state says
\* which (scheduler.rs moves the Box<Task> between these three).  The idle task
\* is in none of them.  This is also why the debug_asserts of mark_ready and of
\* block never fire.
OnePlace ==
    /\ IsInjective(runQueue)
    /\ IsInjective(dead)
    /\ \A t \in Queued : state[t] \in {"Ready", "Blocked"}
    /\ \A t \in Range(dead) : state[t] = "Dead"
    /\ current # NoTask => state[current] = "Running"
    /\ Queued \union Range(dead) \union ({current} \ {NoTask})
         = Issued \ (Reaped \union {Idle})

\* The CPU executes the task the scheduler calls current, from that task's own
\* stack, and the stack is alive; so do the contexts the scheduler may load next:
\* no switch resumes a task on another task's stack (schedule hands raw context
\* pointers to switch_to after the lock is released).
RunningIsCurrent ==
    /\ InTask => cpu.owner = current
    /\ cpu.at = "switch" => cpu.to = (IF current = NoTask THEN Idle ELSE current)
    /\ \A t \in Queued \union ({current} \ {NoTask}) :
          /\ stack[t] = "live"
          /\ ctx[t] = [owner |-> t, ret |-> "run"]

\* Only the idle slot ever holds a foreign context: what schedule saves into a
\* task's slot is that task, to be continued in its body, and what it saves into
\* the idle slot, because no task was current, is a caller that must not be
\* continued (kmain, or a task inside exit).
OnlyIdleSlotIsForeign ==
    /\ cpu.at = "exiting" \/ (cpu.at = "run" /\ cpu.owner = Boot) => current = NoTask
    /\ cpu.at = "switch" /\ cpu.from # Idle => cpu.owner = cpu.from /\ cpu.ret = "run"
    /\ cpu.at = "switch" /\ cpu.from = Idle => cpu.ret = "unreachable"
    /\ ctx[Idle].ret # "run"

\* Strict priorities: when schedule has decided, no ready task left on the queue
\* has a higher priority than the one chosen, and the idle context is chosen only
\* when no task of non-zero priority is ready (pick_next).
HighestPriorityRuns ==
    cpu.at = "switch" =>
        \A t \in Queued :
            state[t] = "Ready" => prio[t] <= (IF current = NoTask THEN 0 ELSE prio[current])

\* The kernel stops by an unreachable!() only when the queue holds no ready task
\* of non-zero priority: as long as someone can be picked, neither kmain nor an
\* exited task is ever resumed.
StopsOnlyWithoutWork ==
    cpu.at \in {"unreachable", "wild", "idle"} => Pickable(runQueue, state) = {}

\* A task goes from state to state only along the edges of TaskState: a blocked
\* task never runs before it was unblocked, and a dead one never comes back.
LegalTransition(a, b) ==
    \/ a = b
    \/ <<a, b>> \in {<<"Created", "Ready">>, <<"Ready", "Running">>,
                     <<"Running", "Ready">>, <<"Running", "Blocked">>,
                     <<"Blocked", "Ready">>, <<"Running", "Dead">>}

LegalTransitions ==
    [][\A t \in TaskIds \ {Idle} : LegalTransition(state[t], state'[t])]_vars

\* FIFO among equals: schedule never picks a task while a ready one of the same
\* priority stands before it on the queue (pick_next's doc comment).
NoOvertaking ==
    [][\A i, j \in DOMAIN runQueue :
          /\ i < j
          /\ state[runQueue[i]] = "Ready"
          /\ prio[runQueue[i]] = prio[runQueue[j]]
          => current' # runQueue[j]]_vars

-----------------------------------------------------------------------------
(* Liveness *)

\* Round robin at the top: a ready task of the highest priority in use gets the
\* CPU, whatever the others do, unless the kernel has stopped (in the panic of an
\* unblock) before its turn came.  A lower priority has no such guarantee.
ReadyEventuallyRuns ==
    \A t \in TaskIds \ {Idle} :
        state[t] = "Ready" /\ prio[t] > 0 /\ (\A p \in Priorities : p <= prio[t])
            ~> (current = t \/ cpu.at \in Stopped)

-----------------------------------------------------------------------------
(* What the comments of the code say and the code does not do *)

\* scheduler.rs, idle_task and Scheduler::idle: when nothing is ready the idle
\* task runs, and it spins on hlt.
IdleSpinsOnHlt ==
    [][cpu.at = "switch" /\ cpu.to = Idle => cpu'.at = "idle"]_vars

\* scheduler.rs, exit: "The dead queue is reaped next tick", that is, not while
\* the exiting task still executes on the stack the reaper frees.
ExecutingStackIsLive ==
    cpu.owner # Boot => stack[cpu.owner] = "live"

=============================================================================
