------------------------------ MODULE Calendar ------------------------------
(***************************************************************************)
(* The time of day at boot: time_init of kernel/main.c reads the clock of  *)
(* the CMOS field by field while it runs on, and kernel_mktime             *)
(* (kernel/mktime.c) makes seconds since 1970 of what was read.            *)
(***************************************************************************)
EXTENDS Naturals, Integers, Sequences, SequencesExt, FiniteSetsExt

CONSTANTS Years,    \* the years in which the kernel is started
          MaxTicks  \* the seconds that may pass while the clock is read

VARIABLES clock,    \* the clock of the CMOS
          tm,       \* the fields that time_init has read
          reads,    \* how many it has read in this pass
          first,    \* history: the clock at the start of the pass
          ticks     \* history: the seconds since the start of the kernel

calVars == <<clock, tm, reads, first, ticks>>

----------------------------------------------------------------------------
\* The calendar.
Leap(y) == y % 4 = 0 /\ (y % 100 # 0 \/ y % 400 = 0)
Days(y, m) == CASE m = 2 -> IF Leap(y) THEN 29 ELSE 28
                [] m \in {4, 6, 9, 11} -> 30
                [] OTHER -> 31

\* The clock one second later.
Next_second(c) ==
    IF c.sec < 59 THEN [c EXCEPT !.sec = @ + 1]
    ELSE IF c.min < 59 THEN [c EXCEPT !.sec = 0, !.min = @ + 1]
    ELSE IF c.hour < 23 THEN [c EXCEPT !.sec = 0, !.min = 0, !.hour = @ + 1]
    ELSE LET d == [c EXCEPT !.sec = 0, !.min = 0, !.hour = 0]
         IN  IF c.mday < Days(c.year, c.mon) THEN [d EXCEPT !.mday = @ + 1]
             ELSE IF c.mon < 12 THEN [d EXCEPT !.mday = 1, !.mon = @ + 1]
             ELSE [d EXCEPT !.mday = 1, !.mon = 1, !.year = @ + 1]

\* The seconds since the start of 1970, counted.
Elapsed(c) ==
    LET years  == Cardinality({y \in 1970 .. c.year - 1 : Leap(y)}) + 365 * (c.year - 1970)
        months == FoldFunctionOnSet(+, 0, [m \in 1 .. 12 |-> Days(c.year, m)], 1 .. c.mon - 1)
    IN  ((years + months + c.mday - 1) * 24 + c.hour) * 3600 + c.min * 60 + c.sec

----------------------------------------------------------------------------
\* kernel_mktime.
MINUTE == 60
HOUR   == 60 * MINUTE
DAY    == 24 * HOUR
YEAR   == 365 * DAY

\* The start of each month of a leap year.
month == LET d == <<0, 31, 60, 91, 121, 152, 182, 213, 244, 274, 305, 335>>
         IN  [m \in 0 .. 11 |-> DAY * d[m + 1]]

\* Division and remainder of C, which go towards zero.
Div(a, b) == IF a < 0 THEN -((-a) \div b) ELSE a \div b
Mod(a, b) == a - b * Div(a, b)

\* A leap year in every fourth year from 1973.
ShortYearOff(tm_mon, year) == tm_mon > 1 /\ Mod(year + 1, 4) # 0

\* The 29th of February that month counts and the year has not.
ShortYear(tm_mon, year) == tm_mon > 1 /\ Mod(year + 2, 4) # 0

kernel_mktime(t) ==
    LET year == t.year - 70
    IN  YEAR * year + DAY * Div(year + 1, 4) + month[t.mon]
        - (IF ShortYear(t.mon, year) THEN DAY ELSE 0)
        + DAY * (t.mday - 1) + HOUR * t.hour + MINUTE * t.min + t.sec

----------------------------------------------------------------------------
\* time_init.
Unread == [sec |-> 0, min |-> 0, hour |-> 0, mday |-> 1, mon |-> 0, year |-> 70]
Fields == <<"sec", "min", "hour", "mday", "mon", "year">>

\* The CMOS has two digits of the year; months are counted from zero then.
CMOS_READ(f) == CASE f = "year" -> clock.year % 100
                  [] f = "mon"  -> clock.mon - 1
                  [] OTHER      -> clock[f]

Init == /\ \E y \in Years, m \in 1 .. 12 :
             clock = [year |-> y, mon |-> m, mday |-> Days(y, m), hour |-> 23, min |-> 59, sec |-> 58]
        /\ tm = Unread /\ reads = 0 /\ first = clock /\ ticks = 0

Tick == /\ ticks < MaxTicks /\ reads # 7
        /\ clock' = Next_second(clock) /\ ticks' = ticks + 1
        /\ first' = IF reads = 0 THEN clock' ELSE first
        /\ UNCHANGED <<tm, reads>>

ReadField == /\ reads < 6
             /\ tm' = [tm EXCEPT ![Fields[reads + 1]] = CMOS_READ(Fields[reads + 1])]
             /\ reads' = reads + 1
             /\ UNCHANGED <<clock, first, ticks>>

\* The seconds are read again, and all of it when they have changed.
ReadAgain == /\ reads = 6
             /\ IF tm.sec = CMOS_READ("sec") THEN reads' = 7 /\ UNCHANGED <<tm, first>>
                ELSE reads' = 0 /\ tm' = Unread /\ first' = clock
             /\ UNCHANGED <<clock, ticks>>

\* The kernel goes on with the time it has.
Started == reads = 7 /\ UNCHANGED calVars

Next == Tick \/ ReadField \/ ReadAgain \/ Started
Spec == Init /\ [][Next]_calVars

----------------------------------------------------------------------------
\* Properties.
TypeOK == reads \in 0 .. 7 /\ ticks \in 0 .. MaxTicks /\ tm.mon \in 0 .. 11 /\ tm.mday \in 1 .. 31

\* What becomes startup_time is a time that the clock showed in the last pass, counted as
\* the calendar counts it, although the fields are read one by one while seconds,
\* months and years end (main.c:49-65, mktime.c:28-37).
StartsInTime == /\ TypeOK
                /\ reads = 7 => kernel_mktime(tm) \in Elapsed(first) .. Elapsed(clock)
=============================================================================
