------------------------- MODULE MCSchedAndRequests -------------------------
(***************************************************************************)
(* The two tables of the kernel that are ordered while they are used, the  *)
(* task table (Scheduler) and the request table (RequestQueue), and the    *)
(* time of day when it starts (Calendar).  They share no state, so it is   *)
(* enough to let one of them move while the others rest: a queue without   *)
(* requests, a clock before it is read, and a scheduler whose only task    *)
(* has the processor, so that nothing is due there.  Nothing is said of    *)
(* the ticks while the others move; the fairness of each is its own.       *)
(***************************************************************************)
EXTENDS Scheduler, RequestQueue

ChildSignals == {SIGCHLD}

\* Two devices, with four blocks and with one; the table has five slots, three of
\* which writes may take.
TwoMajors == {2, 3}
FiveBlocks == 1 .. 5
BlockPlaces == [blk \in FiveBlocks |-> IF blk = 1 THEN 2 ELSE 3]

\* Starts at the end of each month, in years of each kind from 1970 on; the last one
\* ends before the year 2000.
VARIABLES clock, tm, reads, first, ticks
theClock == <<clock, tm, reads, first, ticks>>
C == INSTANCE Calendar WITH Years <- 1970 .. 1976 \cup {1996, 1998}, MaxTicks <- 3
Stopped == C!Init /\ clock.year = 1970 /\ clock.mon = 1

\* Task 1 has just got the processor, and is alone.
Resting == /\ current = 1
           /\ state = [t \in Task |-> IF t = 1 THEN Running ELSE Empty]
           /\ counter = [t \in Task \cup {Idle} |-> IF t = 1 THEN Priority ELSE 0]
           /\ alarm = [t \in Task |-> NoAlarm]
           /\ signal = [t \in Task |-> {}]

AllInit == QueueInit /\ ((Init /\ Stopped) \/ (Resting /\ C!Init))
AllNext == \/ QueueInit /\ Stopped /\ Next /\ UNCHANGED <<queueVars, theClock>>
           \/ Resting /\ Stopped /\ QueueNext /\ UNCHANGED <<vars, theClock>>
           \/ Resting /\ QueueInit /\ C!Next /\ UNCHANGED <<vars, queueVars>>
AllSpec == /\ AllInit /\ [][AllNext]_<<vars, queueVars, theClock>>
           /\ WF_vars(QueueInit /\ Stopped /\ Tick(TRUE))
           /\ \A m \in Major : WF_queueVars(EndRequest(m))

StartsInTime == C!StartsInTime
=============================================================================
