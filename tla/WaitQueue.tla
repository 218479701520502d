----------------------------- MODULE WaitQueue -----------------------------
(***************************************************************************)
(* One wait queue, a `struct task_struct *` p, as kernel/sched.c builds it *)
(* (__sleep_on, sleep_on, interruptible_sleep_on, wake_up).  The queue is  *)
(* a stack without links of its own: a sleeper saves the previous head in  *)
(* a local variable (tmp), puts itself at the head, and when it runs again *)
(* restores the saved head and makes that task runnable.                   *)
(*                                                                         *)
(* The kernel does not preempt a task in kernel mode, and a caller whose   *)
(* waker is an interrupt handler has interrupts off (wait_on_buffer,       *)
(* lock_buffer), so the code between two calls of schedule() is one step.  *)
(* The exception, tty_read, sleeps with interrupts on; it is not a user of *)
(* this module.                                                            *)
(***************************************************************************)
EXTENDS TaskStates

CONSTANTS Sleeper,  \* the tasks but task 0, for which __sleep_on panics
          None      \* the null pointer

ASSUME NoneAssumption == None \notin Sleeper

VARIABLES p,        \* *p: the head of the queue
          tmp,      \* tmp[t]: the head that task t found when it joined
          t_state,  \* t_state[t]: t->state
          inside    \* the tasks that are inside __sleep_on, stopped in schedule()

waitVars == <<p, tmp, t_state, inside>>

SleepState == {Running, Interruptible, Uninterruptible}

WaitInit == /\ p = None
            /\ tmp = [t \in Sleeper |-> None]
            /\ t_state = [t \in Sleeper |-> Running]
            /\ inside = {}

\* A sleeper that does not save the head it found.
SleepOnForgetsHead(t, s) ==
    /\ t \notin inside
    /\ p' = t
    /\ t_state' = [t_state EXCEPT ![t] = s]
    /\ inside' = inside \cup {t}
    /\ UNCHANGED tmp

\* __sleep_on(p, s), up to its first call of schedule().
SleepOn(t, s) ==
    /\ t \notin inside
    /\ tmp' = [tmp EXCEPT ![t] = p]
    /\ p' = t
    /\ t_state' = [t_state EXCEPT ![t] = s]
    /\ inside' = inside \cup {t}

\* schedule() returns to a sleeper that is no longer the head: it wakes the
\* head and sleeps again, uninterruptibly.
ResumeBuried(t) ==
    /\ t \in inside /\ t_state[t] = Running
    /\ p # None /\ p # t
    /\ t_state' = [t_state EXCEPT ![p] = Running, ![t] = Uninterruptible]
    /\ UNCHANGED <<p, tmp, inside>>

\* A head that leaves without making the next task runnable.
ResumeWakesNobody(t) ==
    /\ t \in inside /\ t_state[t] = Running
    /\ p = None \/ p = t
    /\ p' = tmp[t]
    /\ tmp' = [tmp EXCEPT ![t] = None]
    /\ inside' = inside \ {t}
    /\ UNCHANGED t_state

\* schedule() returns to the head: it takes itself off, makes the next task
\* runnable and returns to its caller.
ResumeHead(t) ==
    /\ t \in inside /\ t_state[t] = Running
    /\ p = None \/ p = t
    /\ p' = tmp[t]
    /\ t_state' = IF tmp[t] = None THEN t_state ELSE [t_state EXCEPT ![tmp[t]] = Running]
    /\ tmp' = [tmp EXCEPT ![t] = None]
    /\ inside' = inside \ {t}

\* wake_up(p).
WakeUpHead ==
    /\ p # None
    /\ t_state' = [t_state EXCEPT ![p] = Running]
    /\ UNCHANGED <<p, tmp, inside>>

\* schedule() makes an interruptible sleeper runnable when its timeout ran out
\* or a signal it does not block is pending.
Interrupt(t) ==
    /\ t_state[t] = Interruptible
    /\ t_state' = [t_state EXCEPT ![t] = Running]
    /\ UNCHANGED <<p, tmp, inside>>

Resume(t) == ResumeBuried(t) \/ ResumeHead(t)

WaitNext ==
    \/ WakeUpHead
    \/ \E t \in Sleeper : \/ \E s \in {Interruptible, Uninterruptible} : SleepOn(t, s)
                          \/ ResumeBuried(t)
                          \/ ResumeHead(t)
                          \/ Interrupt(t)

WaitSpec == WaitInit /\ [][WaitNext]_waitVars

\* schedule() gives every runnable task the processor in the end.
WaitFairSpec == WaitSpec /\ \A t \in Sleeper : WF_waitVars(Resume(t))

----------------------------------------------------------------------------
\* Type invariant: the head and the saved heads are tasks or null.
WaitTypeOK == /\ p \in Sleeper \cup {None}
              /\ tmp \in [Sleeper -> Sleeper \cup {None}]
              /\ t_state \in [Sleeper -> SleepState]
              /\ inside \in SUBSET Sleeper

\* The saved heads form one chain: nobody points at the head, no task is
\* pointed at twice, and a pointer leads to a task still inside.
NoDangling ==
    /\ p # None => p \in inside
    /\ \A t \in inside :
        /\ tmp[t] # None => tmp[t] \in inside
        /\ tmp[t] # None => tmp[t] # p
        /\ \A u \in inside : tmp[t] = tmp[u] /\ tmp[t] # None => t = u

\* The set S holds the head and, with a task, the task it saved.
ClosedFromHead(S) == /\ p # None => p \in S
                     /\ \A t \in S : tmp[t] # None => tmp[t] \in S

\* No sleeper is lost: following the saved pointers from the head reaches every
\* task inside __sleep_on, whatever order they joined and were woken in
\* (__sleep_on, sched.c:93-119).
WholeChain == \A S \in SUBSET inside : ClosedFromHead(S) => S = inside

\* The message "Warning: *P = NULL" (sched.c:114-115) is never printed: a task
\* that returns from schedule() finds the queue not empty.
HeadNeverNull == inside # {} => p # None

\* The wait queue implements the set of waiting tasks of WaitSet.
Abstract == INSTANCE WaitSet WITH
    w <- [waiting   |-> inside,
          signalled |-> \E t \in inside : t_state[t] = Running]

\* Every step of the chain is a step of WaitSet or changes nothing there, and
\* once a wake-up was given the queue keeps draining.
Refines == Abstract!FairSpec

\* The invariant that makes the others inductive.
WaitInv == WaitTypeOK /\ NoDangling /\ WholeChain
============================================================================
