----------------------------- MODULE ProcessTree -----------------------------
(***************************************************************************)
(* fork, exit, waitpid and kill: the slots of task[] and the links between *)
(* the task structures in them (kernel/fork.c, kernel/exit.c), and the     *)
(* wake-up of a parent that waits (kernel/sched.c).                        *)
(*                                                                         *)
(* No system call that this kernel has in its table changes a process      *)
(* group, a session or a leader, and nothing stops a task, so what do_exit *)
(* and kill do for them is left out.  No call masks a signal or clears     *)
(* one: do_signal is never called.  A slot that is empty is taken to match *)
(* no pid and no group (the code reads through a null pointer there).      *)
(* Task 0 has forked task 1 and runs main.c's loop from then on; task 1    *)
(* does so too after it forked the first program, and never waits.         *)
(***************************************************************************)
EXTENDS Integers, SequencesExt

CONSTANTS NR_TASKS,    \* the slots of task[]
          MaxPid,      \* the pid after which last_pid starts again at 1
          Asks,        \* what waitpid is asked for: pids, or 0 for any child
          Killed       \* the slots whose tasks programs send signals to

ASSUME TasksAssumption == NR_TASKS \in Nat /\ NR_TASKS > 2
ASSUME PidAssumption == MaxPid \in Nat /\ MaxPid > NR_TASKS /\ Asks \subseteq 0 .. MaxPid
ASSUME KilledAssumption == Killed \subseteq 1 .. NR_TASKS - 1

Slot == 0 .. NR_TASKS - 1
Nil == -1
Link == Slot \cup {Nil}

VARIABLES task,        \* the task structure in each slot
          last_pid

vars == <<task, last_pid>>

\* state: "running"; "waiting", TASK_INTERRUPTIBLE in sys_waitpid; "exiting", in
\* do_exit's sleeps; "zombie"; and "none" for an empty slot.  call is the pid
\* that a sys_waitpid in progress asks for, 0 for any; none when not in one.
None == -2
Empty == [state |-> "none", pid |-> 0, signal |-> {}, call |-> None,
          p_pptr |-> Nil, p_cptr |-> Nil, p_ysptr |-> Nil, p_osptr |-> Nil]

Init == /\ task = [s \in Slot |->
              IF s = 0 THEN [Empty EXCEPT !.state = "running", !.p_pptr = 0, !.p_cptr = 1]
              ELSE IF s = 1 THEN [Empty EXCEPT !.state = "running", !.pid = 1, !.p_pptr = 0]
              ELSE Empty]
        /\ last_pid = 1

Used == {s \in Slot : task[s].state # "none"}

\* The children of s, as one finds them along p_osptr up to its end.
Children(s) ==
    LET from[n \in 0 .. NR_TASKS] ==
            [c \in Link |-> IF c = Nil \/ n = 0 THEN <<>> ELSE <<c>> \o from[n - 1][task[c].p_osptr]]
    IN  from[NR_TASKS][task[s].p_cptr]

Runs(t) == task[t].state = "running" /\ task[t].call = None

\* The tasks that call fork: task 1 once (main.c), the programs at will.
Forks(t) == Runs(t) /\ t # 0 /\ (t = 1 => task[1].p_cptr = Nil)

\* The tasks that run programs.
Program(t) == Runs(t) /\ t > 1

----------------------------------------------------------------------------
\* fork.

\* find_empty_process counts last_pid on until no task has it.
NextPid(last) ==
    LET after(n) == IF last + n <= MaxPid THEN last + n ELSE (last + n) - MaxPid
        steps == {n \in 1 .. MaxPid : \A s \in Used : task[s].pid # after(n)}
    IN  after(CHOOSE n \in steps : \A m \in steps : n <= m)

\* copy_process into the first empty slot.  The child is a copy of the task, its
\* signals included, and comes first among the children.
Fork(t) ==
    /\ Forks(t)
    /\ last_pid' = NextPid(last_pid)
    /\ IF Used = Slot THEN UNCHANGED task
       ELSE LET c     == CHOOSE s \in Slot \ Used : \A r \in Slot \ Used : s <= r
                elder == task[t].p_cptr
                child == [task[t] EXCEPT !.pid = last_pid', !.p_pptr = t, !.p_cptr = Nil,
                                         !.p_ysptr = Nil, !.p_osptr = elder]
                linked == IF elder = Nil THEN task ELSE [task EXCEPT ![elder].p_ysptr = c]
            IN  task' = [linked EXCEPT ![c] = child, ![t].p_cptr = c]

----------------------------------------------------------------------------
\* exit.

\* do_exit sleeps in sys_close and iput.
Exit(t) == /\ Program(t)
           /\ task' = [task EXCEPT ![t].state = "exiting"]
           /\ UNCHANGED last_pid

\* An exit that does not tell the parent.
PostsNothing(s, sig, tasks) == tasks

Posts(s, sig, tasks) == [tasks EXCEPT ![s].signal = @ \cup {sig}]

\* A list whose end is not linked to init's own children.
BequeathUnlinked(t, tasks) ==
    LET cs == Children(t)
        new == [s \in Slot |-> IF s \in ToSet(cs) THEN [tasks[s] EXCEPT !.p_pptr = 1] ELSE tasks[s]]
    IN  IF cs = <<>> THEN tasks
        ELSE [new EXCEPT ![1].p_cptr = tasks[t].p_cptr, ![t].p_cptr = Nil]

\* The children of t become init's: all get the new parent, and the list goes in
\* front of init's list.
Bequeath(t, tasks) ==
    LET cs  == Children(t)
        old == cs[Len(cs)]
        own == tasks[1].p_cptr
        new == [s \in Slot |-> IF s \in ToSet(cs) THEN [tasks[s] EXCEPT !.p_pptr = 1] ELSE tasks[s]]
        told == IF \E s \in ToSet(cs) : tasks[s].state = "zombie" THEN Posts(1, "SIGCHLD", new) ELSE new
    IN  IF cs = <<>> THEN tasks
        ELSE [told EXCEPT ![old].p_osptr = own, ![own].p_ysptr = old,
                          ![1].p_cptr = tasks[t].p_cptr, ![t].p_cptr = Nil]

\* The rest of do_exit.
Exited(t) ==
    /\ task[t].state = "exiting"
    /\ LET dead == [task EXCEPT ![t].state = "zombie"]
       IN  task' = Bequeath(t, Posts(task[t].p_pptr, "SIGCHLD", dead))
    /\ UNCHANGED last_pid

----------------------------------------------------------------------------
\* waitpid.

WaitPid(t, pid) ==
    /\ Program(t)
    /\ task' = [task EXCEPT ![t].call = pid]
    /\ UNCHANGED last_pid

\* A release that forgets the link from the younger sibling.
UnlinkDown(t, c) ==
    LET elder == task[c].p_osptr
        up    == IF elder = Nil THEN task ELSE [task EXCEPT ![elder].p_ysptr = task[c].p_ysptr]
    IN  [up EXCEPT ![c] = Empty, ![t].p_cptr = IF @ = c THEN elder ELSE @]

\* The end of release for child c of t: the links around c.
Unlink(t, c) ==
    LET elder == task[c].p_osptr
        young == task[c].p_ysptr
        up    == IF elder = Nil THEN task ELSE [task EXCEPT ![elder].p_ysptr = young]
        down  == IF young = Nil THEN [up EXCEPT ![task[c].p_pptr].p_cptr = elder]
                 ELSE [up EXCEPT ![young].p_osptr = elder]
    IN  [down EXCEPT ![c] = Empty]

\* The children that a sys_waitpid of t asks for.
Asked(t) == {c \in ToSet(Children(t)) : task[t].call \in {0, task[c].pid}}

\* The search of sys_waitpid: the first zombie is released; without a child that
\* matches the call returns -ECHILD, and else it sleeps, or with WNOHANG returns.
Search(t) ==
    /\ task[t].state = "running" /\ task[t].call # None
    /\ LET cs      == Children(t)
           zombies == {k \in DOMAIN cs : cs[k] \in Asked(t) /\ task[cs[k]].state = "zombie"}
           returns(tasks) == [tasks EXCEPT ![t].call = None]
       IN  \/ /\ zombies # {}
              /\ task' = returns(Unlink(t, cs[Min(zombies)]))
           \/ /\ zombies = {}
              /\ task' = returns(task)
           \/ /\ zombies = {} /\ Asked(t) # {}
              /\ task' = [task EXCEPT ![t].state = "waiting"]
    /\ UNCHANGED last_pid

\* schedule() makes the task run again, since a signal is there; any but SIGCHLD
\* ends the call with -ERESTARTSYS.
Wake(t) ==
    /\ task[t].state = "waiting" /\ task[t].signal # {}
    /\ task' = [task EXCEPT ![t].state = "running",
                            ![t].call = IF task[t].signal \subseteq {"SIGCHLD"} THEN @ ELSE None]
    /\ UNCHANGED last_pid

\* kill_proc and send_sig.
Kill(t, s) ==
    /\ Program(t) /\ s \in Used \cap Killed
    /\ task' = Posts(s, "SIGTERM", task)
    /\ UNCHANGED last_pid

----------------------------------------------------------------------------
Next == \E t \in Slot : \/ Fork(t) \/ Exit(t) \/ Exited(t) \/ Search(t) \/ Wake(t)
                        \/ \E pid \in Asks : WaitPid(t, pid)
                        \/ \E s \in Slot : Kill(t, s)

Spec == Init /\ [][Next]_vars

\* schedule() runs every runnable task, and what do_exit sleeps for comes.
FairSpec == Spec /\ \A t \in Slot \ {0, 1} : WF_vars(Exited(t) \/ Search(t) \/ Wake(t))

----------------------------------------------------------------------------
\* Type invariant.
TypeOK ==
    /\ task \in [Slot -> [state : {"none", "running", "waiting", "exiting", "zombie"},
                          pid : 0 .. MaxPid, signal : SUBSET {"SIGCHLD", "SIGTERM"},
                          call : 0 .. MaxPid \cup {None}, p_pptr : Link, p_cptr : Link,
                          p_ysptr : Link, p_osptr : Link]]
    /\ last_pid \in 1 .. MaxPid

\* The links agree: the list that starts at p_cptr holds each child of a task
\* once, the youngest first, p_ysptr runs it backwards, and no link leads to an
\* empty slot (copy_process, release and do_exit each repair half a dozen).
LinksAgree ==
    \A s \in Used :
        LET cs == Children(s)
        IN  /\ IsInjective(cs)
            /\ ToSet(cs) = {c \in Used \ {0} : task[c].p_pptr = s}
            /\ \A k \in DOMAIN cs : task[cs[k]].p_ysptr = IF k = 1 THEN Nil ELSE cs[k - 1]

\* No two tasks have one pid, though last_pid starts again (fork.c:150-155).
PidsUnique == \A r, s \in Used : task[r].pid = task[s].pid => r = s

\* The parent of every task can still wait for it: it is no zombie.
ParentLives == \A s \in Used : task[s].p_pptr \in Used /\ task[task[s].p_pptr].state # "zombie"

\* When a task bequeaths its children init has a child, so do_exit's access to
\* task[1]->p_cptr->p_ysptr (exit.c:210) is never one through a null pointer.
InitHasChild == \A s \in Slot : task[s].state = "exiting" => task[1].p_cptr # Nil

\* The task table holds together over every sequence of forks, exits and waits: links,
\* pids and parents.
FamilySound == TypeOK /\ LinksAgree /\ PidsUnique /\ ParentLives /\ InitHasChild

\* fork, exit and waitpid keep the promise of Family.
Tree == INSTANCE Family WITH kids <- [s \in Slot |-> Children(s)],
                             dead <- {s \in Slot : task[s].state = "zombie"}
TreeSpec == Tree!Spec

\* A waitpid of a program returns once a child that it asks for has exited (tasks 0
\* and 1 never wait).
WaitReturns ==
    \A t \in Slot \ {0, 1} : (task[t].call # None /\ \E c \in Asked(t) : task[c].state = "zombie")
                        ~> task[t].call = None
==============================================================================
