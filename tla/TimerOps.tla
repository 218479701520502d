------------------------------ MODULE TimerOps ------------------------------
(***************************************************************************)
(* The list of kernel timers of kernel/sched.c.  Each entry holds the      *)
(* ticks that are left when the entry before it has expired; next_timer is *)
(* the first.                                                              *)
(***************************************************************************)
EXTENDS Integers, SequencesExt, FiniteSetsExt

\* The ticks until the i-th timer of the list expires.
TicksUntil(l, i) == FoldLeft(+, 0, [k \in 1 .. i |-> l[k].jiffies])

\* add_timer's while loop: the entries that a timer of j ticks passes.
Passed(l, j) ==
    Min({k \in 0 .. Len(l) : k < Len(l) => l[k + 1].jiffies >= j - TicksUntil(l, k)})

\* add_timer with a free slot: a new head takes its ticks from the entry behind
\* it; in the list the timer gives up the ticks of the entries it passes, and
\* the entry behind it keeps its own.
WithTimer(l, t) ==
    IF l # <<>> /\ t.jiffies < l[1].jiffies
    THEN <<t>> \o [l EXCEPT ![1].jiffies = @ - t.jiffies]
    ELSE LET k == Passed(l, t.jiffies)
         IN  InsertAt(l, k + 1, [t EXCEPT !.jiffies = @ - TicksUntil(l, k)])

\* do_timer's decrement, of the first timer only.
Ticked(l) == IF l = <<>> THEN l ELSE [l EXCEPT ![1].jiffies = @ - 1]

\* A timer that do_timer calls in this tick.
Expired(l) == l # <<>> /\ l[1].jiffies <= 0
============================================================================
