------------------------------ MODULE WaitOps ------------------------------
(***************************************************************************)
(* The value of a kernel wait queue and what sleep_on and wake_up          *)
(* (kernel/sched.c) do to it, without the chain of saved pointers that     *)
(* implements it.                                                          *)
(*                                                                         *)
(* The value is a record: the tasks asleep on the queue, and whether a     *)
(* wake-up is at work.  wake_up makes one task runnable; each task that    *)
(* leaves makes the one it had found on the queue runnable in turn, so one *)
(* wake-up goes on until the queue is empty, and a task that joins while   *)
(* it is at work is woken too, though nothing happened since it joined.    *)
(***************************************************************************)
EmptyQueue == [waiting |-> {}, signalled |-> FALSE]

\* The queues on which tasks of T may sleep.
QueueOf(T) == [waiting : SUBSET T, signalled : BOOLEAN]

\* The queue after task t went to sleep on it.
Joined(w, t) == [waiting |-> w.waiting \cup {t}, signalled |-> w.signalled]

\* The queue after wake_up(&w), which does nothing when nobody sleeps.
Woken(w) == [waiting |-> w.waiting, signalled |-> w.waiting # {}]

\* The queue after task t returned from sleep_on.
Left(w, t) == [waiting   |-> w.waiting \ {t},
               signalled |-> w.waiting \ {t} # {}]

\* Task t can return from sleep_on.
MayLeave(w, t) == w.signalled /\ t \in w.waiting
============================================================================
