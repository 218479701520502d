----------------------------- MODULE Scheduler -----------------------------
(***************************************************************************)
(* schedule(), do_timer's accounting and sys_alarm of kernel/sched.c, and  *)
(* what tasks do that bears on them: sleep, wake others, fork, exit, post  *)
(* signals and give the processor up (truncate).                           *)
(*                                                                         *)
(* Time is relative: alarm[t] holds the ticks until jiffies reaches t's    *)
(* alarm, so that the counter of ticks itself, which wraps after 497 days, *)
(* is not modelled.  Nothing sets a task's timeout or blocks a signal, and *)
(* no signal that wakes a sleeper is ever taken off (do_signal has no      *)
(* caller).                                                                *)
(***************************************************************************)
EXTENDS Integers, TaskStates

CONSTANTS NR_TASKS,   \* the slots of the task table
          Priority,   \* the priority of every task, 15 in INIT_TASK
          MaxDelay,   \* bound: the longest alarm, in ticks; -1 for none
          Posted      \* the signals that tasks post: SIGCHLD, or none

ASSUME TaskAssumption == NR_TASKS \in Nat \ {0, 1}
ASSUME PriorityAssumption == Priority \in Nat \ {0}
ASSUME DelayAssumption == MaxDelay \in Int /\ MaxDelay >= -1

VARIABLES current,  \* the task that runs
          state,    \* state[t] of each slot but 0
          counter,  \* the ticks that are left to each task
          alarm,    \* the ticks until each alarm
          signal    \* the signals that are pending

vars == <<current, state, counter, alarm, signal>>

Idle == 0
Task == 1 .. NR_TASKS - 1

\* TASK_RUNNING and so on; a slot that is NULL is "empty".
Zombie == "zombie"
Empty  == "empty"
State == {Running, Interruptible, Uninterruptible, Zombie, Empty}

SIGALRM == "SIGALRM"
SIGCHLD == "SIGCHLD"

\* No alarm; an alarm whose time is over.
NoAlarm == -2
Overdue == -1

\* main: task 0 has forked task 1.
Init == /\ current = Idle
        /\ state = [t \in Task |-> IF t = 1 THEN Running ELSE Empty]
        /\ counter = [t \in Task \cup {Idle} |-> IF t \in {Idle, 1} THEN Priority ELSE 0]
        /\ alarm = [t \in Task |-> NoAlarm]
        /\ signal = [t \in Task |-> {}]

----------------------------------------------------------------------------
\* An alarm that is looked for in the tick it is set to only.
DueExactly(al, t) == al[t] = 0

Due(al, t) == al[t] = Overdue

\* Alarms whose time is over are signals now.
Alarmed(al, sg) == [t \in Task |-> IF Due(al, t) THEN sg[t] \cup {SIGALRM} ELSE sg[t]]
Cleared(al)     == [t \in Task |-> IF Due(al, t) THEN NoAlarm ELSE al[t]]

\* A pass that looks at the signals before the alarms.
SignalledEarly(st, al, sg) ==
    [t \in Task |-> IF st[t] = Interruptible /\ sg[t] # {} THEN Running ELSE st[t]]

\* Interruptible sleepers with a signal are runnable.
Signalled(st, al, sg) ==
    [t \in Task |-> IF st[t] = Interruptible /\ Alarmed(al, sg)[t] # {} THEN Running ELSE st[t]]

Ready(st) == {t \in Task : st[t] = Running}

\* A new allowance that does not halve what is left of the old one.
RechargedWhole(st, cnt) ==
    [t \in Task \cup {Idle} |-> IF t # Idle /\ st[t] # Empty THEN cnt[t] + Priority ELSE cnt[t]]

\* A new allowance for the sleepers too, who so get ahead of the others.
Recharged(st, cnt) ==
    [t \in Task \cup {Idle} |-> IF t # Idle /\ st[t] # Empty THEN (cnt[t] \div 2) + Priority ELSE cnt[t]]

\* A new allowance at every call.
AllowanceAlways(st, cnt) ==
    [t \in Task \cup {Idle} |-> IF t \in Ready(st) THEN (cnt[t] \div 2) + Priority ELSE cnt[t]]

\* The allowance is over when no runnable task has any of it left.
Allowance(st, cnt) ==
    IF Ready(st) # {} /\ \A t \in Ready(st) : cnt[t] = 0 THEN Recharged(st, cnt) ELSE cnt

\* The runnable task with the most ticks left, the last slot among equals.
Best(t, st, cnt) ==
    /\ t \in Ready(st)
    /\ \A u \in Ready(st) : cnt[u] < cnt[t] \/ (cnt[u] = cnt[t] /\ u <= t)

Goes(st, cnt) == IF Ready(st) = {} THEN current' = Idle
                 ELSE \E t \in Ready(st) : Best(t, st, cnt) /\ current' = t

\* schedule(), called with these states, counters, alarms and signals.
Schedule(st, cnt, al, sg) ==
    /\ signal' = Alarmed(al, sg)
    /\ alarm' = Cleared(al)
    /\ state' = Signalled(st, al, sg)
    /\ counter' = Allowance(Signalled(st, al, sg), cnt)
    /\ Goes(Signalled(st, al, sg), Allowance(Signalled(st, al, sg), cnt))

----------------------------------------------------------------------------
Ticked == [t \in Task |-> IF alarm[t] >= 0 THEN alarm[t] - 1 ELSE alarm[t]]

\* The timer interrupt, in user or in kernel mode.  Task 0 loops in user mode.
Tick(user) ==
    /\ current = Idle => user
    /\ LET cnt == [counter EXCEPT ![current] = IF @ > 1 THEN @ - 1 ELSE 0]
       IN  IF cnt[current] > 0 \/ ~user
           THEN /\ counter' = cnt /\ alarm' = Ticked
                /\ UNCHANGED <<current, state, signal>>
           ELSE Schedule(state, cnt, Ticked, signal)

\* The running task sleeps (__sleep_on, sys_waitpid).
Sleep(s) == /\ current # Idle
            /\ Schedule([state EXCEPT ![current] = s], counter, alarm, signal)

\* truncate meets a block that is in use.
GiveUp == /\ current # Idle
          /\ Schedule(state, [counter EXCEPT ![current] = 0], alarm, signal)

\* do_exit: the task is a zombie until its parent q releases it.
Exit(q) == /\ current # Idle /\ q # current
           /\ q # Idle => state[q] \notin {Zombie, Empty}
           /\ Schedule([state EXCEPT ![current] = Zombie], counter, alarm,
                       [t \in Task |-> IF t = q THEN signal[t] \cup Posted ELSE signal[t]])

\* release(t), called by its parent in sys_waitpid.
Release(t) == /\ current # Idle /\ state[t] = Zombie
              /\ Schedule([state EXCEPT ![t] = Empty], [counter EXCEPT ![t] = 0],
                          [alarm EXCEPT ![t] = NoAlarm], [signal EXCEPT ![t] = {}])

\* wake_up(t), by the running task or an interrupt: nobody is preempted.
WakeUp(t) == /\ state[t] \in {Interruptible, Uninterruptible}
             /\ state' = [state EXCEPT ![t] = Running]
             /\ UNCHANGED <<current, counter, alarm, signal>>

\* copy_process: the child has its parent's counter and pending signals, and no
\* alarm.
Fork(t) == /\ current # Idle /\ state[t] = Empty
           /\ state' = [state EXCEPT ![t] = Running]
           /\ counter' = [counter EXCEPT ![t] = counter[current]]
           /\ alarm' = [alarm EXCEPT ![t] = NoAlarm]
           /\ signal' = [signal EXCEPT ![t] = signal[current]]
           /\ UNCHANGED current

\* sys_alarm(d), or with d = NoAlarm sys_alarm(0).
SysAlarm(d) == /\ current # Idle
               /\ alarm' = [alarm EXCEPT ![current] = d]
               /\ UNCHANGED <<current, state, counter, signal>>

\* A signal is posted, by the running task or the keyboard interrupt.
Post(t, s) == /\ state[t] # Empty
              /\ signal' = [signal EXCEPT ![t] = @ \cup {s}]
              /\ UNCHANGED <<current, state, counter, alarm>>

Next == \/ \E user \in BOOLEAN : Tick(user)
        \/ \E s \in {Interruptible, Uninterruptible} : Sleep(s)
        \/ GiveUp
        \/ \E q \in Task \cup {Idle} : Exit(q)
        \/ \E t \in Task : Release(t) \/ WakeUp(t) \/ Fork(t) \/ \E s \in Posted : Post(t, s)
        \/ \E d \in {NoAlarm} \cup 0 .. MaxDelay : SysAlarm(d)

Spec == Init /\ [][Next]_vars

\* The clock goes on, and a tick finds the processor in user mode in the end: no
\* task stays in the kernel for ever without calling schedule().
FairSpec == Spec /\ WF_vars(Tick(TRUE))

----------------------------------------------------------------------------
\* Type invariant.
TypeOK == /\ current \in Task \cup {Idle}
          /\ state \in [Task -> State]
          /\ counter \in [Task \cup {Idle} -> Nat]
          /\ alarm \in [Task -> {NoAlarm, Overdue} \cup 0 .. MaxDelay]
          /\ signal \in [Task -> SUBSET ({SIGALRM} \cup Posted)]

\* The allowance that sleepers save up stays below two full ones, however long
\* they sleep, whatever is inherited by fork: a sleeper cannot keep the others
\* waiting longer the longer it slept (sched.c:83-88).
CounterBounded == \A t \in Task \cup {Idle} : counter[t] < 2 * Priority

\* The task that runs is runnable, or it is task 0: schedule() is called before
\* a task that is to sleep goes on, and a task is not made a sleeper by others.
CurrentRuns == current # Idle => state[current] = Running

\* The task table is sound: types, bounded allowances, and a runnable task on the
\* processor (schedule, sched.c:47-91).
TableSound == TypeOK /\ CounterBounded /\ CurrentRuns

\* When the processor goes to another task, no interruptible sleeper is left
\* behind with a signal pending or an alarm that is over (sched.c:51-66).
SignalsSeen ==
    [][current' # current =>
        \A t \in Task : state'[t] = Interruptible => signal'[t] = {} /\ ~Due(alarm', t)]_vars

\* When no task is added for ever, every runnable task gets the processor.  (With
\* forks it may not: a child that has its parent's whole counter uses that up
\* and not the parent's.)
Forked == \E t \in Task : state[t] = Empty /\ state'[t] # Empty
RunnableRuns ==
    <>[][~Forked]_vars => \A t \in Task : state[t] = Running ~> (current = t \/ state[t] # Running)

\* When no alarm is put off for ever, each is signalled, or taken back, or its
\* task ends.
PutOff == \E t \in Task : alarm'[t] > alarm[t]
AlarmComes ==
    <>[][~PutOff]_vars =>
        \A t \in Task : alarm[t] # NoAlarm ~> (SIGALRM \in signal[t] \/ alarm[t] = NoAlarm)
============================================================================
