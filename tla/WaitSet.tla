------------------------------ MODULE WaitSet ------------------------------
(***************************************************************************)
(* What one wait queue promises: the behaviour that the chain of saved     *)
(* pointers of kernel/sched.c (WaitQueue) implements, and on which the     *)
(* modules that sleep on queues build.                                     *)
(***************************************************************************)
EXTENDS WaitOps

CONSTANT Sleeper   \* the tasks of the task table, without task 0 (it never sleeps)

VARIABLE w         \* the value of the queue

Init == w = EmptyQueue

Join(t)  == t \notin w.waiting /\ w' = Joined(w, t)
WakeAll  == w' = Woken(w)
Leave(t) == MayLeave(w, t) /\ w' = Left(w, t)

Next == \/ WakeAll
        \/ \E t \in Sleeper : Join(t) \/ Leave(t)

Spec == Init /\ [][Next]_w

\* A signalled queue keeps draining.  Which task leaves first is not promised:
\* a task that leaves and sleeps again at once is ahead of the others.
FairSpec == Spec /\ WF_w(\E t \in Sleeper : Leave(t))
============================================================================
