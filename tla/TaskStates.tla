----------------------------- MODULE TaskStates ----------------------------
(***************************************************************************)
(* The values of t->state in which a task is on its way through schedule() *)
(* (include/linux/sched.h), for the scheduler and for the wait queues.     *)
(***************************************************************************)
Running         == "running"
Interruptible   == "interruptible"
Uninterruptible == "uninterruptible"
============================================================================
