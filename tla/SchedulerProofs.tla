-------------------------- MODULE SchedulerProofs --------------------------
(* Proofs, for any number of tasks and any priorities, of the safety of the  *)
(* scheduler: each task is in one place, and the CPU runs the current task.  *)
EXTENDS Scheduler, SeqLemmas

\* The inductive invariant.
IInv == TypeOK /\ OnePlace /\ RunningIsCurrent /\ OnlyIdleSlotIsForeign

\* A priority is a byte, and so a number that can be compared.
LEMMA ByteIsNat ==
    ASSUME NEW x \in 0..255
    PROVE  x \in Nat
OBVIOUS

\* An index of a sequence is a natural number other than 0.
LEMMA IndexIsPositive ==
    ASSUME NEW n \in Nat, NEW x \in 1..n
    PROVE  x \in Nat /\ x # 0
OBVIOUS

\* pick_next returns None exactly when no task is pickable; otherwise it returns
\* a pickable task of highest priority, the first of them on the queue.
LEMMA PickNextSelects ==
    ASSUME TypeOK, NEW q \in Seq(TaskIds), NEW st
    PROVE  \/ PickNext(q, st) = 0 /\ Pickable(q, st) = {}
           \/ /\ PickNext(q, st) \in Pickable(q, st)
              /\ \A j \in Pickable(q, st) :
                    \/ prio[q[j]] < prio[q[PickNext(q, st)]]
                    \/ prio[q[j]] = prio[q[PickNext(q, st)]] /\ PickNext(q, st) <= j
<1> DEFINE S == Pickable(q, st)
           Best(i) == \A j \in S : \/ prio[q[j]] < prio[q[i]]
                                   \/ prio[q[j]] = prio[q[i]] /\ i <= j
<1>1. CASE S = {}
  BY <1>1 DEF PickNext
<1>2. CASE S # {}
  <2> DEFINE Byte == 0..255
  <2>a. Len(q) \in Nat /\ DOMAIN q = 1..Len(q) /\ \A j \in 1..Len(q) : q[j] \in TaskIds
    BY LenProperties, ElementOfSeq
  <2>b. prio \in [TaskIds -> Byte]
    BY Zenon DEF TypeOK
  <2>c. S \subseteq 1..Len(q)
    BY <2>a DEF Pickable
  <2> HIDE DEF S, Byte
  <2>d. \A j \in S : prio[q[j]] \in Byte
    BY <2>a, <2>b, <2>c
  <2>1. S \subseteq Nat /\ [i \in S |-> prio[q[i]]] \in [S -> Byte]
    <3>1. S \subseteq Nat
      BY <2>a, <2>c, IndexIsPositive
    <3>2. [i \in S |-> prio[q[i]]] \in [S -> Byte]
      BY <2>d, Zenon
    <3>3. QED
      BY <3>1, <3>2
  <2>2. \E k \in S : Best(k)
    <3> DEFINE f == [i \in S |-> prio[q[i]]]
    <3>1. \E k \in S : \A j \in S : f[j] < f[k] \/ (f[j] = f[k] /\ k <= j)
      <4>1. f \in [S -> 0..255]
        BY <2>1, Zenon DEF Byte
      <4>2. 255 \in Nat
        OBVIOUS
      <4> HIDE DEF f
      <4>3. \A B \in Nat : \A g \in [S -> 0..B] :
               \E k \in S : \A j \in S : g[j] < g[k] \/ (g[j] = g[k] /\ k <= j)
        BY <1>2, <2>1, FirstMaximum
      <4>4. QED
        BY <4>1, <4>2, <4>3, Zenon
    <3>2. QED
      BY <3>1
  <2>3. PickNext(q, st) = CHOOSE i \in S : Best(i)
    BY <1>2 DEF PickNext, S
  <2> HIDE DEF Best
  <2>4. PickNext(q, st) \in S /\ Best(PickNext(q, st))
    BY <2>2, <2>3, Zenon
  <2>5. QED
    BY <2>4 DEF S, Best
<1>3. QED
  BY <1>1, <1>2

\* The critical section of schedule keeps the invariant, when it is entered the
\* three ways the code enters it: by kmain, by a task that yields or blocks, and
\* by a task that has just moved itself to the dead queue.
LEMMA ScheduleKeepsIInv ==
    ASSUME IInv,
           NEW newState \in {"Ready", "Blocked"}, NEW ret \in {"run", "unreachable"},
           cpu.at \in {"run", "exiting"},
           IF current = NoTask THEN ret = "unreachable" ELSE InTask /\ ret = "run",
           Schedule(newState, ret)
    PROVE  IInv'
<1> DEFINE q    == IF current = NoTask THEN runQueue ELSE Append(runQueue, current)
           st   == IF current = NoTask THEN state ELSE [state EXCEPT ![current] = newState]
           from == IF current = NoTask THEN Idle ELSE current
           i    == PickNext(q, st)
           to   == IF i = 0 THEN Idle ELSE q[i]
<1>1. /\ stack' = [t \in TaskIds |-> IF t \in Range(dead) THEN "freed" ELSE stack[t]]
      /\ dead' = <<>>
      /\ runQueue' = IF i = 0 THEN q ELSE RemoveAt(q, i)
      /\ state' = [st EXCEPT ![to] = "Running"]
      /\ current' = IF i = 0 THEN NoTask ELSE q[i]
      /\ cpu' = [cpu EXCEPT !.at = "switch", !.from = from, !.to = to, !.ret = ret]
      /\ nextId' = nextId /\ prio' = prio /\ ctx' = ctx
  BY DEF Schedule
<1>2. /\ TypeOK /\ OnePlace /\ RunningIsCurrent /\ OnlyIdleSlotIsForeign
      /\ Idle \in TaskIds /\ NoTask \notin TaskIds
  BY SchedulerAssumption DEF IInv, TaskIds, Idle, NoTask
<1>3. current \notin Queued
  BY <1>2 DEF OnePlace, TypeOK, Queued, Range
<1>4. /\ q \in Seq(TaskIds)
      /\ IsInjective(q)
      /\ Range(q) = Queued \union ({current} \ {NoTask})
  BY <1>2, <1>3, AppendNew DEF OnePlace, TypeOK, Queued
<1>5. /\ st \in [TaskIds -> TaskStates]
      /\ \A t \in Range(q) : st[t] \in {"Ready", "Blocked"}
      /\ \A t \in TaskIds : t # current => st[t] = state[t]
  BY <1>2, <1>3, <1>4 DEF OnePlace, TypeOK, Queued, TaskStates
<1>6. /\ \A t \in Range(q) : stack[t] = "live" /\ ctx[t] = [owner |-> t, ret |-> "run"]
      /\ Range(q) \subseteq TaskIds \ {Idle}
      /\ Range(q) \intersect Range(dead) = {}
  <2>1. \A t \in Range(q) : stack[t] = "live" /\ ctx[t] = [owner |-> t, ret |-> "run"]
    BY <1>2, <1>4 DEF RunningIsCurrent
  <2>2. Issued \subseteq TaskIds
    BY <1>2, SchedulerAssumption DEF TypeOK, Issued, TaskIds
  <2>3. Range(q) \subseteq TaskIds \ {Idle}
    BY <1>2, <1>4, <2>2 DEF OnePlace
  <2>4. \A t \in Range(q) : state[t] \in {"Ready", "Blocked", "Running"}
    BY <1>2, <1>4 DEF OnePlace
  <2>5. Range(q) \intersect Range(dead) = {}
    BY <1>2, <2>4 DEF OnePlace
  <2>6. QED
    BY <2>1, <2>3, <2>5
<1>7. i = 0 \/ (i \in 1..Len(q) /\ q[i] \in Range(q) /\ i # 0)
  <2>1. i = 0 \/ i \in DOMAIN q
    BY <1>2, <1>4, PickNextSelects DEF Pickable
  <2>2. DOMAIN q = 1..Len(q)
    BY <1>4, LenProperties
  <2>3. QED
    BY <2>1, <2>2 DEF Range
<1> HIDE DEF q, st, i
<1>8. /\ runQueue' \in Seq(TaskIds)
      /\ IsInjective(runQueue')
      /\ Range(runQueue') = Range(q) \ ({current'} \ {NoTask})
      /\ current' \in Range(q) \union {NoTask}
      /\ to = IF current' = NoTask THEN Idle ELSE current'
  BY <1>1, <1>2, <1>4, <1>6, <1>7, RemoveAtInjective
<1> HIDE DEF to
<1>9. TypeOK'
  <2>1. to \in TaskIds /\ from \in TaskIds /\ current' \in TaskIds \union {NoTask}
    BY <1>2, <1>6, <1>8 DEF TypeOK, from
  <2>2. stack' \in [TaskIds -> {"none", "live", "freed"}]
    BY <1>1, <1>2 DEF TypeOK
  <2>3. state' \in [TaskIds -> TaskStates]
    BY <1>1, <1>5, <2>1 DEF TaskStates
  <2>4. cpu' \in [owner : TaskIds \union {Boot},
                  at    : {"run", "exiting", "switch"} \union Stopped,
                  from  : TaskIds,
                  to    : TaskIds,
                  ret   : ReturnPoints]
    <3> HIDE DEF from
    <3> QED BY <1>1, <1>2, <2>1 DEF TypeOK, ReturnPoints
  <2>5. dead' \in Seq(TaskIds)
    BY <1>1
  <2>6. QED
    BY <1>1, <1>2, <1>8, <2>1, <2>2, <2>3, <2>4, <2>5 DEF TypeOK
<1>10. OnePlace'
  <2>1. Reaped' = Reaped \union Range(dead)
    <3>1. Issued' = Issued /\ Issued \subseteq TaskIds
      BY <1>1, <1>2, SchedulerAssumption DEF TypeOK, Issued, TaskIds
    <3>2. Range(dead) \subseteq Issued
      BY <1>2 DEF OnePlace
    <3>3. QED
      BY <1>1, <3>1, <3>2 DEF Reaped
  <2>2. Range(dead') = {} /\ IsInjective(dead')
    BY <1>1 DEF Range, IsInjective
  <2>3. Range(q) = (Issued \ (Reaped \union {Idle})) \ Range(dead)
    BY <1>2, <1>4, <1>6 DEF OnePlace
  <2>4. Queued' \union Range(dead') \union ({current'} \ {NoTask})
          = Issued' \ (Reaped' \union {Idle})
    BY <1>1, <1>8, <2>1, <2>2, <2>3 DEF Queued, Issued
  <2>5. \A t \in Queued' : state'[t] \in {"Ready", "Blocked"}
    BY <1>1, <1>2, <1>5, <1>6, <1>8 DEF Queued
  <2>6. current' # NoTask => state'[current'] = "Running"
    BY <1>1, <1>2, <1>5, <1>6, <1>8
  <2>7. QED
    BY <1>8, <2>2, <2>4, <2>5, <2>6 DEF OnePlace, Queued
<1>11. RunningIsCurrent'
  <2>1. cpu'.at = "switch" /\ cpu'.to = to
    BY <1>1, <1>2 DEF TypeOK
  <2>2. \A t \in Queued' \union ({current'} \ {NoTask}) : t \in Range(q)
    BY <1>8 DEF Queued
  <2>3. QED
    BY <1>1, <1>6, <1>8, <2>1, <2>2 DEF RunningIsCurrent, InTask
<1>12. OnlyIdleSlotIsForeign'
  <2>1. cpu'.at = "switch" /\ cpu'.from = from /\ cpu'.ret = ret /\ cpu'.owner = cpu.owner
    BY <1>1, <1>2 DEF TypeOK
  <2>2. current # NoTask => current # Idle /\ cpu.owner = current
    BY <1>2 DEF OnePlace, RunningIsCurrent, Issued
  <2>3. QED
    BY <1>1, <1>2, <2>1, <2>2 DEF OnlyIdleSlotIsForeign, from
<1>13. QED
  BY <1>9, <1>10, <1>11, <1>12 DEF IInv

\* The places a task can be in hold issued ids other than the idle task's, and no
\* two of them hold the same one.
LEMMA PlacesAreDisjoint ==
    ASSUME IInv
    PROVE  /\ Issued \subseteq TaskIds /\ Idle \in TaskIds /\ NoTask \notin TaskIds
           /\ Queued \subseteq TaskIds \ {Idle}
           /\ Range(dead) \subseteq TaskIds \ {Idle}
           /\ current # Idle /\ (current = NoTask \/ current \in TaskIds)
           /\ current \notin Queued /\ current \notin Range(dead)
           /\ Queued \intersect Range(dead) = {}
<1>1. TypeOK /\ OnePlace
  BY DEF IInv
<1>2. Issued \subseteq TaskIds /\ Idle \in TaskIds /\ NoTask \notin TaskIds /\ Idle # NoTask
  BY <1>1, SchedulerAssumption DEF TypeOK, Issued, TaskIds, Idle, NoTask
<1>3. Queued \union Range(dead) \union ({current} \ {NoTask}) \subseteq TaskIds \ {Idle}
  BY <1>1, <1>2 DEF OnePlace
<1>4. current # Idle /\ (current = NoTask \/ current \in TaskIds)
  BY <1>1, <1>2, <1>3 DEF TypeOK
<1>5. Queued \intersect Range(dead) = {}
  BY <1>1 DEF OnePlace
<1>6. current \notin Queued /\ current \notin Range(dead)
  <2>1. CASE current = NoTask
    BY <1>2, <1>3, <2>1
  <2>2. CASE current # NoTask
    BY <1>1, <2>2 DEF OnePlace
  <2>3. QED
    BY <2>1, <2>2
<1>7. QED
  BY <1>2, <1>3, <1>4, <1>5, <1>6

\* The state scheduler::init leaves satisfies the invariant.
LEMMA InitIInv == Init => IInv
<1> SUFFICES ASSUME Init PROVE IInv
  OBVIOUS
<1>1. Idle \in TaskIds
  BY SchedulerAssumption DEF Idle, TaskIds
<1>2. TypeOK
  BY <1>1, SchedulerAssumption
     DEF Init, TypeOK, TaskStates, ReturnPoints, Stopped, FreshContext, Idle, Boot, NoTask
<1>3. Queued = {} /\ Range(dead) = {} /\ IsInjective(runQueue) /\ IsInjective(dead)
  BY DEF Init, Queued, Range, IsInjective
<1>4. OnePlace
  BY <1>3 DEF Init, OnePlace, Issued, Reaped, Idle, NoTask
<1>5. RunningIsCurrent /\ OnlyIdleSlotIsForeign
  BY <1>1, <1>3 DEF Init, RunningIsCurrent, OnlyIdleSlotIsForeign, InTask, FreshContext,
     Boot, Idle, NoTask
<1>6. QED
  BY <1>2, <1>4, <1>5 DEF IInv

\* spawn puts a fresh id at the back of the queue and touches no other task.
LEMMA SpawnKeepsIInv ==
    ASSUME IInv, NEW p \in Priorities, Spawn(p)
    PROVE  IInv'
<1>1. TypeOK /\ OnePlace /\ RunningIsCurrent /\ OnlyIdleSlotIsForeign
  BY DEF IInv
<1>2. nextId \in TaskIds /\ nextId # Idle /\ nextId # NoTask /\ nextId \notin Issued
  BY <1>1, SchedulerAssumption DEF TypeOK, Spawn, TaskIds, Idle, NoTask, Issued
<1>3. nextId \notin Queued /\ nextId \notin Range(dead) /\ nextId # current
  BY <1>1, <1>2 DEF OnePlace
<1>4. /\ runQueue' \in Seq(TaskIds) /\ IsInjective(runQueue')
      /\ Queued' = Queued \union {nextId}
  BY <1>1, <1>2, <1>3, AppendNew DEF TypeOK, OnePlace, Spawn, Queued
<1>5. TypeOK'
  <2>1. nextId' \in 2..(MaxTasks + 1)
    BY <1>1, SchedulerAssumption DEF TypeOK, Spawn
  <2>2. prio' \in [TaskIds -> 0..255]
    <3> DEFINE Byte == 0..255
    <3>1. prio \in [TaskIds -> Byte] /\ p \in Byte
      BY <1>1, SchedulerAssumption, Zenon DEF TypeOK
    <3>2. prio' = [prio EXCEPT ![nextId] = p]
      BY DEF Spawn
    <3> HIDE DEF Byte
    <3>3. prio' \in [TaskIds -> Byte]
      BY <3>1, <3>2
    <3>4. QED
      BY <3>3, Zenon DEF Byte
  <2>3. state' \in [TaskIds -> TaskStates]
    BY <1>1 DEF TypeOK, Spawn, TaskStates
  <2>4. ctx' \in [TaskIds -> [owner : TaskIds \union {Boot}, ret : ReturnPoints]]
    <3>1. FreshContext(nextId, "run") \in [owner : TaskIds \union {Boot}, ret : ReturnPoints]
      BY <1>2 DEF FreshContext, ReturnPoints
    <3>2. QED
      BY <1>1, <3>1 DEF TypeOK, Spawn
  <2>5. stack' \in [TaskIds -> {"none", "live", "freed"}]
    BY <1>1 DEF TypeOK, Spawn
  <2>6. UNCHANGED <<current, dead, cpu>>
    BY DEF Spawn
  <2>7. QED
    BY <1>1, <1>4, <2>1, <2>2, <2>3, <2>4, <2>5, <2>6, Zenon DEF TypeOK
<1>6. OnePlace'
  <2>1. Issued' = Issued \union {nextId}
    BY <1>1 DEF Spawn, Issued, TypeOK
  <2>2. Issued \subseteq TaskIds
    BY <1>1, SchedulerAssumption DEF TypeOK, Issued, TaskIds
  <2>3. Reaped' = Reaped
    BY <1>1, <1>2, <2>1, <2>2 DEF Reaped, Spawn, TypeOK
  <2>4. Queued' \union Range(dead') \union ({current'} \ {NoTask})
          = Issued' \ (Reaped' \union {Idle})
    BY <1>1, <1>2, <1>4, <2>1, <2>3 DEF OnePlace, Spawn, Reaped
  <2>5. \A t \in Queued \union Range(dead) \union ({current} \ {NoTask}) :
           t \in TaskIds /\ t # nextId
    BY <1>1, <1>3, <2>2 DEF OnePlace
  <2>6. \A t \in TaskIds : t # nextId => state'[t] = state[t]
    BY <1>1 DEF Spawn, TypeOK
  <2>7. state'[nextId] = "Ready" /\ UNCHANGED <<current, dead>>
    BY <1>1, <1>2 DEF Spawn, TypeOK
  <2>8. \A t \in Queued' : state'[t] \in {"Ready", "Blocked"}
    BY <1>1, <1>4, <2>5, <2>6, <2>7 DEF OnePlace
  <2>9. \A t \in Range(dead') : state'[t] = "Dead"
    BY <1>1, <2>5, <2>6, <2>7 DEF OnePlace
  <2>10. current' # NoTask => state'[current'] = "Running"
    BY <1>1, <2>5, <2>6, <2>7 DEF OnePlace
  <2>11. IsInjective(dead')
    BY <1>1, <2>7 DEF OnePlace
  <2>12. QED
    BY <1>4, <2>4, <2>8, <2>9, <2>10, <2>11, Zenon DEF OnePlace
<1>7. RunningIsCurrent' /\ OnlyIdleSlotIsForeign'
  <2>1. \A t \in Queued \union ({current} \ {NoTask}) : t \in TaskIds /\ t # nextId
    BY <1>3, PlacesAreDisjoint
  <2>2. \A t \in Queued' \union ({current'} \ {NoTask}) :
           stack'[t] = "live" /\ ctx'[t] = [owner |-> t, ret |-> "run"]
    <3>1. stack'[nextId] = "live" /\ ctx'[nextId] = [owner |-> nextId, ret |-> "run"]
      BY <1>1, <1>2 DEF Spawn, FreshContext, TypeOK
    <3>2. \A t \in TaskIds : t # nextId => stack'[t] = stack[t] /\ ctx'[t] = ctx[t]
      BY <1>1 DEF Spawn, TypeOK
    <3>3. current' = current
      BY DEF Spawn
    <3>4. QED
      BY <1>1, <1>4, <2>1, <3>1, <3>2, <3>3 DEF RunningIsCurrent
  <2>3. UNCHANGED <<current, cpu>> /\ ctx'[Idle] = ctx[Idle]
    BY <1>1, <1>2, PlacesAreDisjoint DEF Spawn, TypeOK
  <2>4. RunningIsCurrent'
    BY <1>1, <2>2, <2>3 DEF RunningIsCurrent, InTask
  <2>5. OnlyIdleSlotIsForeign'
    BY <1>1, <2>3 DEF OnlyIdleSlotIsForeign
  <2>6. QED
    BY <2>4, <2>5
<1>8. QED
  BY <1>5, <1>6, <1>7 DEF IInv

\* unblock changes the state of a queued task only, or panics.
LEMMA UnblockKeepsIInv ==
    ASSUME IInv, NEW t \in Issued, Unblock(t)
    PROVE  IInv'
<1>1. TypeOK /\ OnePlace /\ RunningIsCurrent /\ OnlyIdleSlotIsForeign
  BY DEF IInv
<1>2. Queued' = Queued /\ Reaped' = Reaped /\ Issued' = Issued
  BY DEF Queued, Unblock, Reaped, Issued
<1>3. t \in Queued => t \in TaskIds /\ t # current /\ t \notin Range(dead)
  BY PlacesAreDisjoint
<1>4. state' \in [TaskIds -> TaskStates] /\ \A u \in TaskIds : u # t => state'[u] = state[u]
  BY <1>1 DEF Unblock, TypeOK, TaskStates
<1>5. TypeOK' /\ OnePlace'
  <2>1. cpu' = cpu \/ cpu' = [cpu EXCEPT !.at = "panic"]
    BY DEF Unblock
  <2>2. cpu' \in [owner : TaskIds \union {Boot},
                  at    : {"run", "exiting", "switch"} \union Stopped,
                  from  : TaskIds,
                  to    : TaskIds,
                  ret   : ReturnPoints]
    BY <1>1, <2>1 DEF TypeOK, Stopped
  <2>3. TypeOK'
    BY <1>1, <1>4, <2>2 DEF TypeOK, Unblock
  <2>4. /\ \A u \in Queued : state'[u] \in {"Ready", "Blocked"}
        /\ \A u \in Range(dead) : state'[u] = "Dead"
        /\ current # NoTask => state'[current] = "Running"
    <3>1. CASE t \in Queued
      <4>1. state' = [state EXCEPT ![t] = "Ready"]
        BY <3>1 DEF Unblock
      <4>2. QED
        BY <1>1, <1>3, <1>4, <3>1, <4>1, PlacesAreDisjoint DEF OnePlace, TypeOK
    <3>2. CASE t \notin Queued
      BY <1>1, <3>2 DEF Unblock, OnePlace
    <3>3. QED
      BY <3>1, <3>2
  <2>5. OnePlace'
    BY <1>1, <1>2, <2>4 DEF OnePlace, Unblock
  <2>6. QED
    BY <2>3, <2>5
<1>6. RunningIsCurrent' /\ OnlyIdleSlotIsForeign'
  BY <1>1, <1>2 DEF RunningIsCurrent, OnlyIdleSlotIsForeign, Unblock, InTask, TypeOK
<1>7. QED
  BY <1>5, <1>6 DEF IInv

\* exit moves the current task, and only it, to the dead queue.
LEMMA ExitKeepsIInv ==
    ASSUME IInv, Exit
    PROVE  IInv'
<1>1. TypeOK /\ OnePlace /\ RunningIsCurrent /\ OnlyIdleSlotIsForeign
  BY DEF IInv
<1>2. current \in TaskIds /\ current # NoTask /\ current # Idle /\ cpu.owner = current
  BY <1>1 DEF Exit, InTask, RunningIsCurrent, TypeOK, OnePlace, Boot, NoTask
<1>3. current \notin Queued /\ current \notin Range(dead)
  BY <1>1, <1>2 DEF OnePlace
<1>4. dead' \in Seq(TaskIds) /\ IsInjective(dead') /\ Range(dead') = Range(dead) \union {current}
  BY <1>1, <1>2, <1>3, AppendNew DEF TypeOK, OnePlace, Exit
<1>5. TypeOK'
  BY <1>1, <1>2, <1>4 DEF TypeOK, Exit, TaskStates, Stopped
<1>6. OnePlace'
  <2>1. Queued' = Queued /\ Reaped' = Reaped /\ Issued' = Issued
    BY DEF Exit, Queued, Reaped, Issued
  <2>2. Queued \subseteq TaskIds /\ Range(dead) \subseteq TaskIds
    BY <1>1 DEF TypeOK, Queued, Range
  <2>3. QED
    BY <1>1, <1>2, <1>3, <1>4, <2>1, <2>2 DEF OnePlace, Exit, TypeOK
<1>7. RunningIsCurrent' /\ OnlyIdleSlotIsForeign'
  BY <1>1 DEF RunningIsCurrent, OnlyIdleSlotIsForeign, Exit, InTask, TypeOK, Queued
<1>8. QED
  BY <1>5, <1>6, <1>7 DEF IInv

\* The switch saves into the slot of the task that executes, or into the idle
\* slot, and loads the task that schedule made current.
LEMMA SwitchToKeepsIInv ==
    ASSUME IInv, SwitchTo
    PROVE  IInv'
<1>1. TypeOK /\ OnePlace /\ RunningIsCurrent /\ OnlyIdleSlotIsForeign
  BY DEF IInv
<1>2. cpu.at = "switch" /\ cpu.from \in TaskIds /\ cpu.to \in TaskIds /\ Idle \in TaskIds
  BY <1>1, SchedulerAssumption DEF SwitchTo, TypeOK, Idle, TaskIds
<1>3. ctx' \in [TaskIds -> [owner : TaskIds \union {Boot}, ret : ReturnPoints]]
  BY <1>1, <1>2 DEF SwitchTo, TypeOK
<1>4. ctx'[Idle].ret # "run"
  BY <1>1, <1>2 DEF SwitchTo, TypeOK, OnlyIdleSlotIsForeign
<1>5. Queued \subseteq TaskIds \ {Idle} /\ current # Idle
  BY PlacesAreDisjoint
<1>6. \A t \in Queued \union ({current} \ {NoTask}) : ctx'[t] = [owner |-> t, ret |-> "run"]
  <2>1. /\ ctx'[cpu.from] = [owner |-> cpu.owner, ret |-> cpu.ret]
        /\ \A t \in TaskIds : t # cpu.from => ctx'[t] = ctx[t]
    BY <1>1, <1>2 DEF SwitchTo, TypeOK
  <2>2. \A t \in Queued \union ({current} \ {NoTask}) : t \in TaskIds /\ t # Idle
    BY PlacesAreDisjoint
  <2>3. QED
    BY <1>1, <1>2, <2>1, <2>2 DEF RunningIsCurrent, OnlyIdleSlotIsForeign
<1>7. PICK at \in {ctx'[cpu.to].ret, "wild"} :
         cpu' = [cpu EXCEPT !.owner = ctx'[cpu.to].owner, !.at = at]
  BY DEF SwitchTo
<1>8. /\ cpu'.at = at /\ cpu'.owner = ctx'[cpu.to].owner
      /\ cpu'.from = cpu.from /\ cpu'.to = cpu.to /\ cpu'.ret = cpu.ret
  BY <1>1, <1>7 DEF TypeOK
<1>9. TypeOK'
  <2>1. ctx'[cpu.to] \in [owner : TaskIds \union {Boot}, ret : ReturnPoints]
    BY <1>2, <1>3
  <2>2. at \in {"run", "exiting", "switch"} \union Stopped
    BY <1>7, <2>1 DEF ReturnPoints, Stopped
  <2>3. cpu' \in [owner : TaskIds \union {Boot},
                  at    : {"run", "exiting", "switch"} \union Stopped,
                  from  : TaskIds,
                  to    : TaskIds,
                  ret   : ReturnPoints]
    BY <1>1, <1>7, <2>1, <2>2 DEF TypeOK
  <2>4. QED
    BY <1>1, <1>3, <2>3 DEF TypeOK, SwitchTo
<1>10. OnePlace'
  BY <1>1 DEF OnePlace, SwitchTo, Queued, Reaped, Issued
<1>11. CASE current = NoTask
  <2>1. cpu'.at \notin {"run", "exiting", "switch"}
    BY <1>1, <1>2, <1>3, <1>4, <1>7, <1>8, <1>11 DEF RunningIsCurrent, ReturnPoints
  <2>2. QED
    BY <1>1, <1>4, <1>6, <1>9, <1>10, <2>1
       DEF IInv, RunningIsCurrent, OnlyIdleSlotIsForeign, InTask, SwitchTo, Queued
<1>12. CASE current # NoTask
  <2>1. cpu'.owner = current /\ cpu'.at \in {"run", "wild"}
    <3>1. cpu.to = current
      BY <1>1, <1>2, <1>12 DEF RunningIsCurrent
    <3>2. ctx'[cpu.to] = [owner |-> current, ret |-> "run"]
      BY <1>6, <1>12, <3>1
    <3>3. QED
      BY <1>7, <1>8, <3>2
  <2>2. cpu'.owner # Boot
    BY <1>12, <2>1 DEF Boot, NoTask
  <2>3. QED
    BY <1>1, <1>4, <1>6, <1>9, <1>10, <2>1, <2>2
       DEF IInv, RunningIsCurrent, OnlyIdleSlotIsForeign, InTask, SwitchTo, Queued
<1>13. QED
  BY <1>11, <1>12

\* Every step keeps the invariant.
LEMMA NextKeepsIInv ==
    ASSUME IInv, [Next]_vars
    PROVE  IInv'
<1>1. TypeOK /\ OnlyIdleSlotIsForeign /\ RunningIsCurrent
  BY DEF IInv
<1>2. ASSUME NEW p \in Priorities, Spawn(p) PROVE IInv'
  BY <1>2, SpawnKeepsIInv
<1>3. CASE BootYield
  <2>1. current = NoTask
    BY <1>1, <1>3 DEF BootYield, OnlyIdleSlotIsForeign
  <2>2. QED
    BY <1>3, <2>1, ScheduleKeepsIInv DEF BootYield
<1>4. CASE Yield
  <2>1. current # NoTask
    BY <1>1, <1>4 DEF Yield, InTask, RunningIsCurrent, Boot, NoTask
  <2>2. QED
    BY <1>4, <2>1, ScheduleKeepsIInv DEF Yield, InTask
<1>5. CASE Block
  <2>1. current # NoTask
    BY <1>1, <1>5 DEF Block, InTask, RunningIsCurrent, Boot, NoTask
  <2>2. QED
    BY <1>5, <2>1, ScheduleKeepsIInv DEF Block, InTask
<1>6. ASSUME NEW t \in Issued, Unblock(t) PROVE IInv'
  BY <1>6, UnblockKeepsIInv
<1>7. CASE Exit
  BY <1>7, ExitKeepsIInv
<1>8. CASE ExitSchedule
  <2>1. current = NoTask
    BY <1>1, <1>8 DEF ExitSchedule, OnlyIdleSlotIsForeign
  <2>2. QED
    BY <1>8, <2>1, ScheduleKeepsIInv DEF ExitSchedule
<1>9. CASE SwitchTo
  BY <1>9, SwitchToKeepsIInv
<1>10. CASE UNCHANGED vars
  BY <1>10 DEF vars, IInv, TypeOK, OnePlace, RunningIsCurrent, OnlyIdleSlotIsForeign,
     Queued, Issued, Reaped, InTask
<1>11. QED
  BY <1>2, <1>3, <1>4, <1>5, <1>6, <1>7, <1>8, <1>9, <1>10 DEF Next, HaltLoop

\* The inductive invariant holds throughout every run of the scheduler.
THEOREM SchedulerInvariant == Spec => []IInv
<1>1. Init => IInv
  BY InitIInv
<1>2. IInv /\ [Next]_vars => IInv'
  BY NextKeepsIInv
<1>3. QED
  BY <1>1, <1>2, PTL DEF Spec

\* The variables keep their types: in particular run_queue, dead and current only
\* ever hold ids that were issued to tasks.
THEOREM SchedulerTypeCorrect == Spec => []TypeOK
<1>1. IInv => TypeOK
  BY DEF IInv
<1>2. QED
  BY <1>1, SchedulerInvariant, PTL

\* A task that was spawned and not reaped is in exactly one of run_queue, current
\* and dead, with the state that belongs there.
THEOREM TasksAreInOnePlace == Spec => []OnePlace
<1>1. IInv => OnePlace
  BY DEF IInv
<1>2. QED
  BY <1>1, SchedulerInvariant, PTL

\* The CPU executes the current task on that task's own, live stack, and every
\* context that schedule can choose for a task resumes that task.
THEOREM CpuRunsTheCurrentTask == Spec => []RunningIsCurrent
<1>1. IInv => RunningIsCurrent
  BY DEF IInv
<1>2. QED
  BY <1>1, SchedulerInvariant, PTL

\* What the critical section of schedule decides: nobody ready and left on the
\* queue has a higher priority than the task chosen.
LEMMA ScheduleRespectsPriority ==
    ASSUME IInv, NEW newState, NEW ret, Schedule(newState, ret), IInv'
    PROVE  HighestPriorityRuns' /\ cpu'.at = "switch"
<1> DEFINE q    == IF current = NoTask THEN runQueue ELSE Append(runQueue, current)
           st   == IF current = NoTask THEN state ELSE [state EXCEPT ![current] = newState]
           i    == PickNext(q, st)
           to   == IF i = 0 THEN Idle ELSE q[i]
<1>1. /\ runQueue' = IF i = 0 THEN q ELSE RemoveAt(q, i)
      /\ state' = [st EXCEPT ![to] = "Running"]
      /\ current' = IF i = 0 THEN NoTask ELSE q[i]
      /\ prio' = prio
      /\ cpu'.at = "switch"
  BY DEF Schedule, IInv, TypeOK
<1>2. /\ TypeOK /\ TypeOK' /\ OnePlace' /\ Idle \in TaskIds /\ NoTask \notin TaskIds
      /\ current \in TaskIds \union {NoTask} /\ runQueue \in Seq(TaskIds)
  BY PlacesAreDisjoint DEF IInv, TypeOK
<1>3. q \in Seq(TaskIds)
  BY <1>2, AppendProperties
<1>4. DOMAIN st = TaskIds
  BY <1>2 DEF TypeOK
<1> HIDE DEF q, st
<1>5. /\ DOMAIN q = 1..Len(q) /\ Len(q) \in Nat
      /\ \A j \in DOMAIN q : q[j] \in TaskIds /\ prio[q[j]] \in 0..255
  <2> DEFINE Byte == 0..255
  <2>1. DOMAIN q = 1..Len(q) /\ Len(q) \in Nat /\ \A j \in 1..Len(q) : q[j] \in TaskIds
    BY <1>3, ElementOfSeq, LenProperties
  <2>2. prio \in [TaskIds -> Byte]
    BY <1>2, Zenon DEF TypeOK
  <2> HIDE DEF Byte
  <2>3. \A j \in DOMAIN q : q[j] \in TaskIds /\ prio[q[j]] \in Byte
    BY <2>1, <2>2
  <2>4. QED
    BY <2>1, <2>3, Zenon DEF Byte
<1>6. \/ i = 0 /\ Pickable(q, st) = {}
      \/ /\ i \in 1..Len(q) /\ i # 0
         /\ \A j \in Pickable(q, st) : prio[q[j]] <= prio[q[i]]
  <2>1. \A j \in Pickable(q, st) : j \in 1..Len(q) /\ prio[q[j]] \in 0..255
    BY <1>5 DEF Pickable
  <2> DEFINE P == Pickable(q, st)
  <2>2. \/ i = 0 /\ P = {}
        \/ /\ i \in P
           /\ \A j \in P : \/ prio[q[j]] < prio[q[i]]
                           \/ prio[q[j]] = prio[q[i]] /\ i <= j
    BY <1>2, <1>3, PickNextSelects
  <2> HIDE DEF P, i
  <2>3. \A j \in P : j \in 1..Len(q) /\ prio[q[j]] \in 0..255
    BY <2>1 DEF P
  <2>4. \/ i = 0 /\ P = {}
        \/ i \in 1..Len(q) /\ i # 0 /\ \A j \in P : prio[q[j]] <= prio[q[i]]
    <3>1. CASE i = 0 /\ P = {}
      BY <3>1
    <3>2. CASE i \in P /\ \A j \in P : \/ prio[q[j]] < prio[q[i]]
                                       \/ prio[q[j]] = prio[q[i]] /\ i <= j
      <4>1. ASSUME NEW j \in P PROVE prio[q[j]] <= prio[q[i]]
        <5>1. prio[q[j]] \in Nat /\ prio[q[i]] \in Nat
          <6>1. prio[q[j]] \in 0..255 /\ prio[q[i]] \in 0..255
            BY <2>3, <3>2, <4>1, Zenon
          <6>2. QED
            BY <6>1, ByteIsNat, Zenon
        <5>2. \/ prio[q[j]] < prio[q[i]]
              \/ prio[q[j]] = prio[q[i]]
          BY <3>2, <4>1, Zenon
        <5>3. QED
          BY <5>1, <5>2
      <4>2. QED
        <5>1. i \in 1..Len(q) /\ Len(q) \in Nat
          BY <1>5, <2>3, <3>2, Zenon
        <5>2. i # 0
          BY <5>1, IndexIsPositive, Zenon
        <5>3. QED
          BY <4>1, <5>1, <5>2, Zenon
    <3>3. QED
      BY <2>2, <3>1, <3>2
  <2>5. QED
    BY <2>4 DEF P
<1> HIDE DEF i
<1>7. i # 0 => i \in 1..Len(q) /\ q[i] \in TaskIds /\ to = q[i] /\ current' = q[i]
  BY <1>1, <1>5, <1>6
<1>8. Queued' \subseteq Range(q)
  <2>1. CASE i = 0
    BY <1>1, <2>1 DEF Queued
  <2>2. CASE i # 0
    <3>1. RemoveAt(q, i) \in Seq(TaskIds) /\ Len(RemoveAt(q, i)) = Len(q) - 1
      BY <1>3, <1>7, <2>2, RemoveAtElements
    <3>2. \A j \in 1..(Len(q) - 1) :
             RemoveAt(q, i)[j] = IF j < i THEN q[j] ELSE q[j + 1]
      BY <1>3, <1>7, <2>2, RemoveAtElements
    <3>3. DOMAIN runQueue' = 1..(Len(q) - 1) /\ runQueue' = RemoveAt(q, i)
      BY <1>1, <2>2, <3>1, LenProperties
    <3>4. ASSUME NEW k \in 1..(Len(q) - 1) PROVE runQueue'[k] \in Range(q)
      <4>1. PICK m \in DOMAIN q : runQueue'[k] = q[m]
        <5>1. k \in DOMAIN q /\ k + 1 \in DOMAIN q
          <6>1. Len(q) \in Nat /\ DOMAIN q = 1..Len(q)
            BY <1>3, LenProperties, Zenon
          <6>2. k \in 1..Len(q) /\ k + 1 \in 1..Len(q)
            BY ONLY <6>1, k \in 1..(Len(q) - 1), SMT
          <6>3. QED
            BY <6>1, <6>2, Zenon
        <5>2. QED
          BY <3>2, <3>3, <3>4, <5>1
      <4>2. QED
        BY <4>1 DEF Range
    <3>5. QED
      BY <3>3, <3>4 DEF Queued, Range
  <2>3. QED
    BY <2>1, <2>2
<1>9. Queued' \subseteq TaskIds \ {to}
  <2>1. Queued' \subseteq TaskIds /\ Idle \notin Queued'
    <3>1. Queued' \subseteq TaskIds
      <4>1. runQueue' \in Seq(TaskIds)
        BY <1>2 DEF TypeOK
      <4>2. \A k \in DOMAIN runQueue' : runQueue'[k] \in TaskIds
        BY <4>1, ElementOfSeq, LenProperties
      <4>3. QED
        BY <4>2 DEF Queued, Range
    <3>2. QED
      BY <1>2, <3>1 DEF OnePlace
  <2>2. i # 0 => state'[current'] = "Running"
    BY <1>2, <1>7 DEF OnePlace
  <2>3. i # 0 => to \notin Queued'
    BY <1>2, <1>7, <2>2 DEF OnePlace
  <2>4. QED
    BY <2>1, <2>3
<1>10. ASSUME NEW t \in Queued', state'[t] = "Ready"
       PROVE  prio'[t] <= (IF current' = NoTask THEN 0 ELSE prio'[current'])
  <2>1. PICK j \in DOMAIN q : t = q[j]
    BY <1>8 DEF Range
  <2>2. st[t] = "Ready" /\ prio[t] \in 0..255
    BY <1>1, <1>4, <1>5, <1>9, <1>10, <2>1
  <2>3. prio[t] > 0 => j \in Pickable(q, st)
    BY <2>1, <2>2 DEF Pickable
  <2>4. CASE i = 0
    <3>1. Pickable(q, st) = {} /\ current' = NoTask
      BY <1>1, <1>6, <2>4
    <3>2. ~ (prio[t] > 0) /\ prio[t] \in Nat
      BY <2>2, <2>3, <3>1, ByteIsNat, Zenon
    <3>3. prio[t] <= 0
      BY <3>2
    <3>4. QED
      BY <1>1, <3>1, <3>3, Zenon
  <2>5. CASE i # 0
    <3>1. prio[q[i]] \in 0..255 /\ current' = q[i] /\ current' # NoTask
      BY <1>2, <1>5, <1>7, <2>5
    <3>2. prio[t] > 0 => prio[t] <= prio[q[i]]
      BY <1>6, <2>1, <2>3, <2>5
    <3>3. prio[t] \in Nat /\ prio[q[i]] \in Nat
      BY <2>2, <3>1, ByteIsNat, Zenon
    <3>4. prio[t] <= prio[q[i]]
      BY <3>2, <3>3
    <3>5. QED
      BY <1>1, <3>1, <3>4, Zenon
  <2>6. QED
    BY <2>4, <2>5
<1>11. QED
  BY <1>1, <1>10 DEF HighestPriorityRuns

\* A switch always completes: to the body of the task chosen, or, when none was,
\* to whatever the idle slot holds.
LEMMA SwitchLeavesSwitching ==
    ASSUME IInv, SwitchTo
    PROVE  cpu'.at # "switch" /\ (current # NoTask => cpu'.at = "run")
<1>1. TypeOK /\ RunningIsCurrent /\ OnlyIdleSlotIsForeign
  BY DEF IInv
<1>2. cpu.at = "switch" /\ cpu.from \in TaskIds /\ cpu.to \in TaskIds
  BY <1>1 DEF SwitchTo, TypeOK
<1>3. ctx' \in [TaskIds -> [owner : TaskIds \union {Boot}, ret : ReturnPoints]]
  BY <1>1, <1>2 DEF SwitchTo, TypeOK
<1> DEFINE next == ctx'[cpu.to]
<1>4. PICK at \in {next.ret} \union (IF /\ next.owner \notin {Boot, cpu.owner}
                                      /\ stack[next.owner] = "freed"
                                   THEN {"wild"} ELSE {}) :
         cpu' = [cpu EXCEPT !.owner = next.owner, !.at = at]
  BY DEF SwitchTo
<1>5. cpu'.at = at
  BY <1>1, <1>4 DEF TypeOK
<1>6. next.ret \in ReturnPoints
  BY <1>2, <1>3
<1>7. ASSUME current # NoTask PROVE at = "run"
  <2>1. cpu.to = current /\ current # Idle /\ current \in TaskIds
    BY <1>1, <1>2, <1>7, PlacesAreDisjoint DEF RunningIsCurrent
  <2>2. next = [owner |-> current, ret |-> "run"] /\ stack[current] = "live"
    BY <1>1, <1>2, <1>7, <2>1 DEF SwitchTo, RunningIsCurrent, OnlyIdleSlotIsForeign, TypeOK
  <2> HIDE DEF next
  <2>3. QED
    BY <1>4, <2>2
<1>8. QED
  BY <1>4, <1>5, <1>6, <1>7 DEF ReturnPoints

\* Strict priorities hold at every switch, and the kernel comes to rest in an
\* unreachable!() only when there is no ready task of non-zero priority.
THEOREM PriorityIsStrict == Spec => [](HighestPriorityRuns /\ StopsOnlyWithoutWork)
<1> DEFINE PInv == HighestPriorityRuns /\ StopsOnlyWithoutWork
<1>1. Init => PInv
  BY DEF Init, HighestPriorityRuns, StopsOnlyWithoutWork
<1>2. ASSUME IInv, IInv', PInv, [Next]_vars
      PROVE  PInv'
  <2>1. TypeOK /\ TypeOK'
    BY <1>2 DEF IInv
  <2>2. ASSUME NEW newState, NEW ret, Schedule(newState, ret) PROVE PInv'
    <3>1. HighestPriorityRuns' /\ cpu'.at = "switch"
      BY <1>2, <2>2, ScheduleRespectsPriority
    <3>2. QED
      BY <3>1 DEF StopsOnlyWithoutWork
  <2>3. ASSUME NEW p \in Priorities, Spawn(p) PROVE PInv'
    BY <2>1, <2>3 DEF Spawn, HighestPriorityRuns, StopsOnlyWithoutWork
  <2>4. ASSUME NEW t \in Issued, Unblock(t) PROVE PInv'
    BY <2>1, <2>4 DEF Unblock, InTask, HighestPriorityRuns, StopsOnlyWithoutWork, TypeOK
  <2>5. CASE Exit
    BY <2>1, <2>5 DEF Exit, HighestPriorityRuns, StopsOnlyWithoutWork, TypeOK
  <2>6. CASE SwitchTo
    <3>1. cpu.at = "switch" /\ UNCHANGED <<state, runQueue, prio, current, stack>>
      BY <2>6 DEF SwitchTo
    <3>2. CASE current = NoTask
      <4>1. \A t \in Queued : state[t] = "Ready" => prio[t] <= 0
        BY <1>2, <3>1, <3>2 DEF HighestPriorityRuns
      <4>2. \A i \in DOMAIN runQueue : runQueue[i] \in Queued /\ prio[runQueue[i]] \in Nat
        <5> DEFINE Byte == 0..255
        <5>a. runQueue \in Seq(TaskIds) /\ prio \in [TaskIds -> Byte]
          BY <2>1, Zenon DEF TypeOK
        <5>b. Byte \subseteq Nat
          OBVIOUS
        <5> HIDE DEF Byte
        <5>1. /\ runQueue \in Seq(TaskIds)
              /\ \A t \in TaskIds : prio[t] \in Nat
          BY <5>a, <5>b, Zenon
        <5>2. DOMAIN runQueue = 1..Len(runQueue)
          BY <5>1, LenProperties
        <5>3. \A i \in DOMAIN runQueue : runQueue[i] \in TaskIds
          BY <5>1, <5>2, ElementOfSeq
        <5>4. QED
          BY <5>1, <5>3, Zenon DEF Queued, Range
      <4>3. Pickable(runQueue, state) = {}
        BY <4>1, <4>2 DEF Pickable
      <4>4. Pickable(runQueue, state)' = {}
        BY <3>1, <4>3 DEF Pickable
      <4>5. cpu'.at # "switch"
        BY <1>2, <2>1, <2>6, SwitchLeavesSwitching
      <4>6. QED
        BY <4>4, <4>5 DEF HighestPriorityRuns, StopsOnlyWithoutWork
    <3>3. CASE current # NoTask
      <4>1. cpu'.at = "run"
        BY <1>2, <2>6, <3>3, SwitchLeavesSwitching
      <4>2. QED
        BY <4>1 DEF HighestPriorityRuns, StopsOnlyWithoutWork
    <3>4. QED
      BY <3>2, <3>3
  <2>7. CASE UNCHANGED vars
    BY <1>2, <2>7 DEF vars, HighestPriorityRuns, StopsOnlyWithoutWork, Queued, Pickable
  <2>8. QED
    BY <1>2, <2>2, <2>3, <2>4, <2>5, <2>6, <2>7
       DEF Next, BootYield, Yield, Block, ExitSchedule, HaltLoop
<1>3. QED
  BY <1>1, <1>2, SchedulerInvariant, PTL DEF Spec

=============================================================================
