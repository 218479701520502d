---------------------------- MODULE SchedProofs ----------------------------
(***************************************************************************)
(* Theorems about kernel/sched.c.  Wait queues (WaitQueue), for every set  *)
(* of tasks: the sleepers form one chain that reaches all of them, the     *)
(* queue is never found empty by a sleeper, and the queue implements       *)
(* WaitSet.  The scheduler (Scheduler), for every number of slots, every   *)
(* priority and every delay: the allowances stay bounded, the task that    *)
(* runs is runnable, and no change of tasks leaves a signal unseen.  The   *)
(* two share the states of a task only; nothing is said of both at once.   *)
(***************************************************************************)
EXTENDS Scheduler, WaitQueue, TLAPS

\* The types of the variables hold in every reachable state (sched.c:93-137).
THEOREM WaitTyping == WaitSpec => []WaitTypeOK
<1>1. WaitInit => WaitTypeOK
  BY DEF WaitInit, WaitTypeOK, SleepState, Running
<1>2. WaitTypeOK /\ [WaitNext]_waitVars => WaitTypeOK'
  BY DEF WaitTypeOK, WaitNext, waitVars, SleepOn, ResumeBuried, ResumeHead, WakeUpHead,
         Interrupt, SleepState, Running, Interruptible, Uninterruptible
<1> QED
  BY <1>1, <1>2, PTL DEF WaitSpec

----------------------------------------------------------------------------
\* A step that changes only the states of tasks keeps the chain.
LEMMA StateOnly ==
    ASSUME WaitInv, WaitTypeOK', UNCHANGED <<p, tmp, inside>>
    PROVE  WaitInv'
BY DEF WaitInv, NoDangling, WholeChain, ClosedFromHead

\* Joining puts the sleeper in front of an intact chain.
LEMMA JoinKeepsChain ==
    ASSUME WaitInv, WaitTypeOK', NEW t \in Sleeper, NEW s \in SleepState, SleepOn(t, s)
    PROVE  WaitInv'
<1>1. /\ t \notin inside /\ p' = t /\ inside' = inside \cup {t}
      /\ tmp' = [tmp EXCEPT ![t] = p] /\ t # None
      /\ tmp \in [Sleeper -> Sleeper \cup {None}] /\ inside \in SUBSET Sleeper
  BY NoneAssumption DEF WaitInv, WaitTypeOK, SleepOn
<1>2. \A u \in inside : tmp'[u] = tmp[u] /\ tmp[u] # t
  BY <1>1 DEF WaitInv, NoDangling
<1>3. tmp'[t] = p
  BY <1>1
<1>4. NoDangling'
  BY <1>1, <1>2, <1>3 DEF WaitInv, NoDangling
<1>5. ASSUME NEW S \in SUBSET inside', ClosedFromHead(S)'
      PROVE  S = inside'
  <2>1. t \in S
    BY <1>5, <1>1 DEF ClosedFromHead
  <2>2. S \ {t} \in SUBSET inside
    BY <1>5, <1>1
  <2>3. p # None => p \in S \ {t}
    BY <2>1, <1>5, <1>1, <1>3 DEF ClosedFromHead, WaitInv, NoDangling
  <2>4. \A u \in S \ {t} : tmp[u] # None => tmp[u] \in S \ {t}
    BY <2>2, <1>5, <1>2 DEF ClosedFromHead
  <2>5. S \ {t} = inside
    BY <2>2, <2>3, <2>4 DEF WaitInv, WholeChain, ClosedFromHead
  <2> QED
    BY <2>1, <2>5, <1>1
<1>6. WholeChain'
  BY <1>5 DEF WholeChain
<1> QED
  BY <1>4, <1>6 DEF WaitInv

\* A non-empty queue has a head.
LEMMA HeadExists ==
    ASSUME WaitInv, inside # {}
    PROVE  p # None
<1>1. SUFFICES ASSUME p = None PROVE FALSE
  OBVIOUS
<1>2. ClosedFromHead({})
  BY <1>1 DEF ClosedFromHead
<1> QED
  BY <1>2 DEF WaitInv, WholeChain

\* The head leaves behind an intact chain.
LEMMA LeaveKeepsChain ==
    ASSUME WaitInv, WaitTypeOK', NEW t \in Sleeper, ResumeHead(t)
    PROVE  WaitInv'
<1>1. /\ t \in inside /\ p = t /\ p' = tmp[t] /\ inside' = inside \ {t}
      /\ tmp' = [tmp EXCEPT ![t] = None]
      /\ tmp \in [Sleeper -> Sleeper \cup {None}] /\ inside \in SUBSET Sleeper
  BY HeadExists DEF WaitInv, WaitTypeOK, ResumeHead
<1>2. \A u \in inside' : tmp'[u] = tmp[u]
  BY <1>1
<1>3. \A u \in inside : tmp[u] # t
  BY <1>1, NoneAssumption DEF WaitInv, NoDangling
<1>4. p' # None => p' \in inside'
  BY <1>1, <1>3 DEF WaitInv, NoDangling
<1>5. \A u \in inside' : tmp'[u] # None => tmp'[u] \in inside' /\ tmp'[u] # p'
  BY <1>1, <1>2, <1>3 DEF WaitInv, NoDangling
<1>6. NoDangling'
  BY <1>1, <1>2, <1>4, <1>5 DEF WaitInv, NoDangling
<1>7. ASSUME NEW S \in SUBSET inside', ClosedFromHead(S)'
      PROVE  S = inside'
  <2>1. S \cup {t} \in SUBSET inside
    BY <1>7, <1>1
  <2>2. \A u \in S \cup {t} : tmp[u] # None => tmp[u] \in S \cup {t}
    BY <1>7, <1>1, <1>2 DEF ClosedFromHead
  <2>3. S \cup {t} = inside
    BY <2>1, <2>2, <1>1 DEF WaitInv, WholeChain, ClosedFromHead
  <2> QED
    BY <2>3, <1>7, <1>1
<1>8. WholeChain'
  BY <1>7 DEF WholeChain
<1> QED
  BY <1>6, <1>8 DEF WaitInv

\* Every step keeps the invariant of the chain.
LEMMA InvStep ==
    ASSUME WaitInv, WaitTypeOK', [WaitNext]_waitVars
    PROVE  WaitInv'
<1>1. CASE WakeUpHead
  BY <1>1, StateOnly DEF WakeUpHead
<1>2. ASSUME NEW t \in Sleeper, NEW s \in {Interruptible, Uninterruptible}, SleepOn(t, s)
      PROVE  WaitInv'
  BY <1>2, JoinKeepsChain DEF SleepState
<1>3. ASSUME NEW t \in Sleeper, ResumeBuried(t)
      PROVE  WaitInv'
  BY <1>3, StateOnly DEF ResumeBuried
<1>4. ASSUME NEW t \in Sleeper, ResumeHead(t)
      PROVE  WaitInv'
  BY <1>4, LeaveKeepsChain
<1>5. ASSUME NEW t \in Sleeper, Interrupt(t)
      PROVE  WaitInv'
  BY <1>5, StateOnly DEF Interrupt
<1>6. CASE UNCHANGED waitVars
  BY <1>6, StateOnly DEF waitVars
<1> QED
  BY <1>1, <1>2, <1>3, <1>4, <1>5, <1>6 DEF WaitNext

\* Every sleeper is on the chain that starts at the head, and the chain leads
\* nowhere else, in every reachable state (sched.c:93-119).
THEOREM ChainInvariant == WaitSpec => []WaitInv
<1>1. WaitInit => WaitInv
  BY DEF WaitInit, WaitInv, WaitTypeOK, NoDangling, WholeChain, ClosedFromHead,
         SleepState, Running
<1>2. WaitInv /\ WaitTypeOK' /\ [WaitNext]_waitVars => WaitInv'
  BY InvStep
<1> QED
  BY <1>1, <1>2, WaitTyping, PTL DEF WaitSpec

\* No task that returns from schedule() inside __sleep_on finds *p null, so the
\* warning of sched.c:114-115 is never printed.
THEOREM HeadNeverNullTheorem == WaitSpec => []HeadNeverNull
<1>1. WaitInv => HeadNeverNull
  BY HeadExists DEF HeadNeverNull
<1> QED
  BY <1>1, ChainInvariant, PTL

\* Following the saved pointers from the head reaches every sleeper.
THEOREM WholeChainTheorem == WaitSpec => []WholeChain
<1>1. WaitInv => WholeChain
  BY DEF WaitInv
<1> QED
  BY <1>1, ChainInvariant, PTL

----------------------------------------------------------------------------
\* The queue as WaitSet sees it.
Seen == [waiting   |-> inside,
         signalled |-> \E t \in inside : t_state[t] = Running]

\* A runnable head that leaves makes the next one runnable.
LEMMA LeaveIsLeave ==
    ASSUME WaitInv, NEW t \in Sleeper, ResumeHead(t)
    PROVE  Abstract!Leave(t)
<1>1. /\ t \in inside /\ t_state[t] = Running /\ p = t
      /\ inside' = inside \ {t}
      /\ tmp \in [Sleeper -> Sleeper \cup {None}] /\ inside \in SUBSET Sleeper
      /\ t_state \in [Sleeper -> SleepState]
  BY HeadExists DEF WaitInv, WaitTypeOK, ResumeHead
<1>2. CASE tmp[t] = None
  <2>1. ClosedFromHead({t})
    BY <1>1, <1>2 DEF ClosedFromHead
  <2>2. inside = {t}
    BY <2>1, <1>1 DEF WaitInv, WholeChain
  <2>3. inside' = {}
    BY <2>2, <1>1
  <2> QED
    BY <2>3, <1>1 DEF Abstract!Leave, Abstract!MayLeave, Abstract!Left
<1>3. CASE tmp[t] # None
  <2>1. tmp[t] \in inside'
    BY <1>1, <1>3 DEF WaitInv, NoDangling
  <2>2. t_state'[tmp[t]] = Running
    BY <1>1, <1>3 DEF ResumeHead
  <2>3. (\E u \in inside' : t_state'[u] = Running) /\ inside' # {}
    BY <2>1, <2>2
  <2> QED
    BY <2>3, <1>1 DEF Abstract!Leave, Abstract!MayLeave, Abstract!Left
<1> QED
  BY <1>2, <1>3

\* Going to sleep wakes nobody.
LEMMA SleepIsJoin ==
    ASSUME WaitInv, NEW t \in Sleeper, NEW s \in {Interruptible, Uninterruptible},
           SleepOn(t, s)
    PROVE  Abstract!Join(t)
<1>1. /\ t \notin inside /\ inside' = inside \cup {t}
      /\ t_state \in [Sleeper -> SleepState] /\ inside \in SUBSET Sleeper
      /\ t_state' = [t_state EXCEPT ![t] = s] /\ s # Running
  BY DEF WaitInv, WaitTypeOK, SleepOn, Running, Interruptible, Uninterruptible
<1>2. (\E u \in inside' : t_state'[u] = Running) <=> (\E u \in inside : t_state[u] = Running)
  BY <1>1
<1> QED
  BY <1>1, <1>2, Zenon DEF Abstract!Join, Abstract!Joined

\* A step that makes a sleeper runnable is a wake-up of the whole queue; if the
\* queue was signalled already, nothing changes.
LEMMA RunnableIsWake ==
    ASSUME WaitInv, UNCHANGED inside,
           \E u \in inside' : t_state'[u] = Running
    PROVE  Abstract!WakeAll
BY DEF Abstract!WakeAll, Abstract!Woken

\* Every step of the chain is a step on the set of waiting tasks, or none.
LEMMA StepSimulation ==
    ASSUME WaitInv, [WaitNext]_waitVars
    PROVE  [Abstract!Next]_Seen
<1> USE DEF Abstract!Next, Seen
<1>1. CASE WakeUpHead
  <2>1. p \in inside /\ inside' = inside /\ t_state'[p] = Running
    BY <1>1 DEF WakeUpHead, WaitInv, WaitTypeOK, NoDangling
  <2> QED
    BY <2>1, RunnableIsWake
<1>2. ASSUME NEW t \in Sleeper, NEW s \in {Interruptible, Uninterruptible}, SleepOn(t, s)
      PROVE  [Abstract!Next]_Seen
  BY <1>2, SleepIsJoin
<1>3. ASSUME NEW t \in Sleeper, ResumeBuried(t)
      PROVE  [Abstract!Next]_Seen
  <2>1. /\ p \in inside /\ inside' = inside /\ t_state'[p] = Running
    BY <1>3 DEF ResumeBuried, WaitInv, WaitTypeOK, NoDangling
  <2> QED
    BY <2>1, RunnableIsWake
<1>4. ASSUME NEW t \in Sleeper, ResumeHead(t)
      PROVE  [Abstract!Next]_Seen
  BY <1>4, LeaveIsLeave
<1>5. ASSUME NEW t \in Sleeper, Interrupt(t)
      PROVE  [Abstract!Next]_Seen
  <2>1. CASE t \in inside
    <3>1. inside' = inside /\ t_state'[t] = Running
      BY <1>5 DEF Interrupt, WaitInv, WaitTypeOK
    <3> QED
      BY <2>1, <3>1, RunnableIsWake
  <2>2. CASE t \notin inside
    <3>1. inside' = inside /\ \A u \in inside : t_state'[u] = t_state[u]
      BY <1>5, <2>2 DEF Interrupt, WaitInv, WaitTypeOK
    <3> QED
      BY <3>1
  <2> QED
    BY <2>1, <2>2
<1>6. CASE UNCHANGED waitVars
  BY <1>6 DEF waitVars
<1> QED
  BY <1>1, <1>2, <1>3, <1>4, <1>5, <1>6 DEF WaitNext

\* The chain of saved pointers implements the set of waiting tasks: every step
\* of sched.c:93-137 is a step of WaitSet or leaves the queue as it was.
THEOREM Implements == WaitSpec => Abstract!Spec
<1>1. WaitInit => Abstract!Init
  BY DEF WaitInit, Abstract!Init, Abstract!EmptyQueue
<1>2. WaitInv /\ [WaitNext]_waitVars => [Abstract!Next]_Seen
  BY StepSimulation
<1> QED
  BY <1>1, <1>2, ChainInvariant, PTL DEF WaitSpec, Abstract!Spec, Seen

----------------------------------------------------------------------------
\* The scheduler: its types, with the bound of the allowances in them.
States   == [Task -> State]
Counters == [Task \cup {Idle} -> 0 .. 2 * Priority - 1]
Alarms   == [Task -> {NoAlarm, Overdue} \cup 0 .. MaxDelay]
Signals  == [Task -> SUBSET ({SIGALRM} \cup Posted)]

\* The invariant that makes the others inductive.
Inv == /\ current \in Task \cup {Idle}
       /\ state \in States /\ counter \in Counters /\ alarm \in Alarms /\ signal \in Signals
       /\ CurrentRuns

\* A sleeper that no signal and no alarm is to wake.
Quiet == \A t \in Task : state[t] = Interruptible => signal[t] = {} /\ ~Due(alarm, t)

----------------------------------------------------------------------------
\* Half of an allowance below two priorities, and one more, is below two again.
LEMMA AllowanceBounded ==
    ASSUME NEW st \in States, NEW cnt \in Counters
    PROVE  Allowance(st, cnt) \in Counters
<1>1. ASSUME NEW c \in 0 .. 2 * Priority - 1
      PROVE  (c \div 2) + Priority \in 0 .. 2 * Priority - 1
  BY <1>1, PriorityAssumption
<1>2. Recharged(st, cnt) \in Counters
  <2>1. \A t \in Task \cup {Idle} :
            (IF t # Idle /\ st[t] # Empty THEN (cnt[t] \div 2) + Priority ELSE cnt[t])
               \in 0 .. 2 * Priority - 1
    BY <1>1 DEF Counters
  <2> QED
    BY <2>1 DEF Recharged, Counters
<1> QED
  BY <1>2 DEF Allowance

\* A call of schedule() leaves a runnable task on the processor and no signal
\* unseen.
LEMMA ScheduleStep ==
    ASSUME NEW st \in States, NEW cnt \in Counters, NEW al \in Alarms, NEW sg \in Signals,
           Schedule(st, cnt, al, sg)
    PROVE  Inv' /\ Quiet'
<1>1. signal' \in Signals
  BY DEF Schedule, Alarmed, Signals
<1>2. alarm' \in Alarms
  BY DEF Schedule, Cleared, Alarms
<1>3. state' \in States /\ state' = Signalled(st, al, sg)
  BY DEF Schedule, Signalled, States, State
<1>4. counter' \in Counters
  BY <1>3, AllowanceBounded DEF Schedule
<1>5. current' = Idle \/ current' \in Ready(state')
  BY <1>3 DEF Schedule, Goes, Best
<1>6. current' \in Task \cup {Idle} /\ CurrentRuns'
  BY <1>5 DEF Ready, CurrentRuns
<1>7. ASSUME NEW t \in Task, state'[t] = Interruptible
      PROVE  signal'[t] = {} /\ ~Due(alarm', t)
  <2>1. st[t] = Interruptible /\ Alarmed(al, sg)[t] = {}
    BY <1>3, <1>7 DEF Signalled, Running, Interruptible
  <2>2. signal'[t] = {}
    BY <2>1 DEF Schedule
  <2>3. ~Due(alarm', t)
    BY <1>7 DEF Schedule, Cleared, Due, NoAlarm, Overdue
  <2> QED
    BY <2>2, <2>3
<1>8. Quiet'
  BY <1>7 DEF Quiet, Due
<1> QED
  BY <1>1, <1>2, <1>3, <1>4, <1>6, <1>8 DEF Inv

\* Time that passes keeps the alarms in their range.
LEMMA TickedType == alarm \in Alarms => Ticked \in Alarms
BY DelayAssumption DEF Alarms, Ticked, NoAlarm, Overdue

\* Each step keeps the invariant; it changes the task that runs by a call of
\* schedule() only.
LEMMA StepKeepsInv ==
    ASSUME Inv, [Next]_vars
    PROVE  Inv' /\ (current' # current => Quiet')
<1>0. /\ current \in Task \cup {Idle} /\ CurrentRuns
      /\ state \in States /\ counter \in Counters /\ alarm \in Alarms /\ signal \in Signals
  BY DEF Inv
<1>1. ASSUME NEW user \in BOOLEAN, Tick(user) PROVE Inv' /\ (current' # current => Quiet')
  <2> DEFINE cnt == [counter EXCEPT ![current] = IF @ > 1 THEN @ - 1 ELSE 0]
  <2>1. cnt \in Counters
    BY <1>0, PriorityAssumption DEF Counters
  <2>2. CASE cnt[current] > 0 \/ ~user
    <3>1. /\ counter' = cnt /\ alarm' = Ticked
          /\ UNCHANGED <<current, state, signal>>
      BY <1>1, <2>2 DEF Tick
    <3> QED
      BY <3>1, <2>1, <1>0, TickedType DEF Inv, CurrentRuns
  <2>3. CASE ~(cnt[current] > 0 \/ ~user)
    BY <1>1, <2>3, <2>1, <1>0, TickedType, ScheduleStep DEF Tick
  <2> QED
    BY <2>2, <2>3
<1>2. ASSUME NEW s \in {Interruptible, Uninterruptible}, Sleep(s)
      PROVE  Inv' /\ (current' # current => Quiet')
  <2>1. [state EXCEPT ![current] = s] \in States
    BY <1>0 DEF States, State
  <2> QED
    BY <1>2, <1>0, <2>1, ScheduleStep DEF Sleep
<1>3. CASE GiveUp
  <2>1. [counter EXCEPT ![current] = 0] \in Counters
    BY <1>0, PriorityAssumption DEF Counters
  <2> QED
    BY <1>3, <1>0, <2>1, ScheduleStep DEF GiveUp
<1>4. ASSUME NEW q \in Task \cup {Idle}, Exit(q)
      PROVE  Inv' /\ (current' # current => Quiet')
  <2>1. [state EXCEPT ![current] = Zombie] \in States
    BY <1>0 DEF States, State
  <2>2. [t \in Task |-> IF t = q THEN signal[t] \cup Posted ELSE signal[t]] \in Signals
    BY <1>0 DEF Signals
  <2> QED
    BY <1>4, <1>0, <2>1, <2>2, ScheduleStep DEF Exit
<1>5. ASSUME NEW t \in Task, Release(t)
      PROVE  Inv' /\ (current' # current => Quiet')
  <2>1. [state EXCEPT ![t] = Empty] \in States
    BY <1>0 DEF States, State
  <2>2. [counter EXCEPT ![t] = 0] \in Counters
    BY <1>0, PriorityAssumption DEF Counters
  <2>3. [alarm EXCEPT ![t] = NoAlarm] \in Alarms
    BY <1>0 DEF Alarms
  <2>4. [signal EXCEPT ![t] = {}] \in Signals
    BY <1>0 DEF Signals
  <2> QED
    BY <1>5, <2>1, <2>2, <2>3, <2>4, ScheduleStep DEF Release
<1>6. ASSUME NEW t \in Task, WakeUp(t)
      PROVE  Inv' /\ (current' # current => Quiet')
  BY <1>6, <1>0 DEF WakeUp, Inv, CurrentRuns, States, State
<1>7. ASSUME NEW t \in Task, Fork(t)
      PROVE  Inv' /\ (current' # current => Quiet')
  <2>1. current \in Task
    BY <1>7, <1>0 DEF Fork
  <2>2. counter' \in Counters
    BY <1>7, <1>0 DEF Fork, Counters
  <2>3. signal' \in Signals /\ alarm' \in Alarms
    BY <1>7, <1>0, <2>1 DEF Fork, Signals, Alarms
  <2>4. state' \in States /\ CurrentRuns'
    BY <1>7, <1>0 DEF Fork, States, State, CurrentRuns
  <2> QED
    BY <1>7, <1>0, <2>2, <2>3, <2>4 DEF Fork, Inv
<1>8. ASSUME NEW t \in Task, NEW s \in Posted, Post(t, s)
      PROVE  Inv' /\ (current' # current => Quiet')
  <2>1. signal' \in Signals
    BY <1>8, <1>0 DEF Post, Signals
  <2> QED
    BY <1>8, <1>0, <2>1 DEF Post, Inv, CurrentRuns
<1>9. ASSUME NEW d \in {NoAlarm} \cup 0 .. MaxDelay, SysAlarm(d)
      PROVE  Inv' /\ (current' # current => Quiet')
  <2>1. alarm' \in Alarms
    BY <1>9, <1>0 DEF SysAlarm, Alarms
  <2> QED
    BY <1>9, <1>0, <2>1 DEF SysAlarm, Inv, CurrentRuns
<1>10. CASE UNCHANGED vars
  BY <1>10, <1>0 DEF vars, Inv, CurrentRuns
<1> QED
  BY <1>1, <1>2, <1>3, <1>4, <1>5, <1>6, <1>7, <1>8, <1>9, <1>10 DEF Next

\* sched_init's table fits the invariant.
LEMMA InitInv == Init => Inv
<1>1. Init => counter \in Counters
  BY PriorityAssumption DEF Init, Counters
<1> QED
  BY <1>1 DEF Init, Inv, CurrentRuns, States, State, Alarms, Signals, Running, Empty

\* The inductive invariant: types, bounds of the counters, and a runnable task
\* on the processor (schedule, sched.c:47-91).
THEOREM Invariant == Spec => []Inv
<1>1. Inv /\ [Next]_vars => Inv'
  BY StepKeepsInv
<1> QED
  BY InitInv, <1>1, PTL DEF Spec

\* Every variable keeps its type.
THEOREM Typing == Spec => []TypeOK
<1>1. Inv => TypeOK
  <2>1. Inv => counter \in [Task \cup {Idle} -> Nat]
    BY PriorityAssumption DEF Inv, Counters
  <2> QED
    BY <2>1 DEF Inv, TypeOK, States, Alarms, Signals
<1> QED
  BY Invariant, <1>1, PTL

\* No task saves up two full allowances (sched.c:87).
THEOREM CounterBoundedTheorem == Spec => []CounterBounded
<1>1. Inv => CounterBounded
  BY PriorityAssumption DEF Inv, Counters, CounterBounded
<1> QED
  BY Invariant, <1>1, PTL

\* The task that runs is runnable, or it is task 0.
THEOREM CurrentRunsTheorem == Spec => []CurrentRuns
<1>1. Inv => CurrentRuns
  BY DEF Inv
<1> QED
  BY Invariant, <1>1, PTL

\* The task table is sound, for every number of slots, priority and delay
\* (schedule, sched.c:47-91).
THEOREM TableSoundTheorem == Spec => []TableSound
<1>1. TypeOK /\ CounterBounded /\ CurrentRuns => TableSound
  BY DEF TableSound
<1> QED
  BY Typing, CounterBoundedTheorem, CurrentRunsTheorem, <1>1, PTL

\* When the processor goes to another task, no interruptible sleeper has a signal
\* or an alarm that is over (sched.c:51-66).
THEOREM SignalsSeenTheorem == Spec => SignalsSeen
<1>1. Inv /\ [Next]_vars =>
        [current' # current =>
            \A t \in Task : state'[t] = Interruptible => signal'[t] = {} /\ ~Due(alarm', t)]_vars
  BY StepKeepsInv DEF Quiet, Due
<1> QED
  BY Invariant, <1>1, PTL DEF Spec, SignalsSeen
============================================================================
