---------------------------- MODULE MCScheduler ----------------------------
(* Instances of Scheduler for TLC. *)
EXTENDS Scheduler

\* The priorities the kernel names, IDLE among them: 0, 128 and 200.
NamedPriorities == {0, 128, 200}

=============================================================================
