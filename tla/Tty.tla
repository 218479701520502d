-------------------------------- MODULE Tty --------------------------------
(***************************************************************************)
(* The terminal (kernel/chr_drv/tty_io.c, tty.h): the rings read_q,        *)
(* secondary and write_q, the keyboard interrupt that ends in              *)
(* copy_to_cooked, one process that reads and one that writes, and the     *)
(* ioctls that change the mode and flush read_q.                           *)
(*                                                                         *)
(* The interrupt comes through a trap gate, and neither tty_read nor       *)
(* tty_write turns interrupts off, so a key may come between any two of    *)
(* their steps; Windows says in which of the two short ones it does.  An   *)
(* interrupt itself is one step: a key that comes while the one before is  *)
(* still being served is left out.                                         *)
(***************************************************************************)
EXTENDS Naturals, Sequences, SequencesExt, FiniteSetsExt

CONSTANTS TTY_BUF_SIZE, \* the size of a ring (1024)
          Typed,        \* what keys send
          Raw,          \* what they send while lines are not edited, or none fits
          Texts,        \* what the writer writes
          Counts,       \* what the reader asks for
          ReadEcho, WriteEcho, \* what ECHO is while somebody reads and while somebody writes
          Ahead,        \* keys typed ahead of the reader
          MaxHeld,      \* keys down at a time
          Windows       \* keys come: "take", between the test of a ring and the read
                        \* from it; "print", while con_write empties write_q; "sleep",
                        \* two events between the test of tty_read and its sleep;
                        \* "full", when write_q has no room for the echo

VARIABLES read_q, secondary, write_q,
          data,      \* secondary.data
          canon, echo, \* ICANON and ECHO in c_lflag
          reader,    \* tty_read: its step, what is still to read, the last it got
          writer,    \* tty_write: its step, what is still to write, cr_flag, con_write's nr
          held,      \* the keys that are down
          owed       \* history: what was put into write_q and is not printed

ttyVars == <<read_q, secondary, write_q, data, canon, echo, reader, writer, held, owed>>

Old == "old"    \* what is left in a cell of a ring
Ends == {"nl", "eof"}

Place == 0 .. TTY_BUF_SIZE - 1
Ring  == [buf |-> [i \in Place |-> Old], head |-> 0, tail |-> 0]
NoRead  == [at |-> "user", nr |-> 0, got |-> Old]
NoWrite == [at |-> "user", text |-> <<>>, cr |-> FALSE, nr |-> 0]

Init == /\ read_q = Ring /\ secondary = Ring /\ write_q = Ring
        /\ data = 0 /\ canon = TRUE /\ echo \in BOOLEAN
        /\ reader = NoRead /\ writer = NoWrite
        /\ held = 0 /\ owed = <<>>

----------------------------------------------------------------------------
\* Rings.
After(i) == (i + 1) % TTY_BUF_SIZE
Before(i) == (i + TTY_BUF_SIZE - 1) % TTY_BUF_SIZE
CHARS(q) == (q.head + TTY_BUF_SIZE - q.tail) % TTY_BUF_SIZE
EMPTY(q) == q.tail = q.head
FULL(q)  == After(q.head) = q.tail
LAST(q)  == q.buf[Before(q.head)]

\* Nothing stops it at a full ring, which it leaves empty.
PUTCH(c, q) == [q EXCEPT !.buf[q.head] = c, !.head = After(@)]

First(q) == q.buf[q.tail]
GETCH(q) == [q EXCEPT !.buf[q.tail] = Old, !.tail = After(@)]
DEC(q)   == [q EXCEPT !.buf[Before(q.head)] = Old, !.head = Before(@)]

Content(q) == [i \in 1 .. CHARS(q) |-> q.buf[(q.tail + i - 1) % TTY_BUF_SIZE]]

----------------------------------------------------------------------------
\* The keyboard's interrupt.

\* What is echoed: the end of a line as two characters, control characters with a ^.
Echo(c) == IF ~echo THEN <<>>
           ELSE IF c = "nl" THEN <<"lf", "cr">>
           ELSE IF c \in {"eof", "kill"} THEN <<"^", c>> ELSE <<c>>

\* PUTCH of the echo, and con_write, which prints all that write_q has.
Printed(s, cs) ==
    IF cs = <<>> THEN s ELSE
    LET q == FoldLeft(LAMBDA r, c : PUTCH(c, r), s.write_q, cs)
    IN  [s EXCEPT !.write_q = FoldLeft(LAMBDA r, c : GETCH(r), q, Content(q)),
                  !.owed = SubSeq(s.owed \o cs, CHARS(q) + 1, Len(s.owed \o cs))]

\* An erase that takes whatever stands last.
RubsAll(s) == ~EMPTY(s.secondary)

\* Whether there is a character that may be erased.
Rubs(s) == ~EMPTY(s.secondary) /\ LAST(s.secondary) \notin Ends

Rub(s) == IF Rubs(s) THEN Printed([s EXCEPT !.secondary = DEC(@)], IF echo THEN <<"rub">> ELSE <<>>) ELSE s

\* What ends a line is counted.
Counted(s, c) == IF c \in Ends THEN s.data + 1 ELSE s.data

\* One character through copy_to_cooked: kill_pg does nothing, for no terminal has a
\* process group, and stopped has no reader.
Cook(s) ==
    LET c == First(s.read_q)
        r == [s EXCEPT !.read_q = GETCH(@)]
    IN  IF canon /\ c = "kill" THEN FoldLeft(LAMBDA u, i : Rub(u), r, Content(r.secondary))
        ELSE IF canon /\ c = "erase" THEN Rub(r)
        ELSE IF c = "intr" \/ (canon /\ c = "stop") THEN r
        ELSE Printed([r EXCEPT !.data = Counted(r, c), !.secondary = PUTCH(c, @)], Echo(c))

CopyToCooked(s) ==
    FoldLeft(LAMBDA r, i : IF EMPTY(r.read_q) \/ FULL(r.secondary) THEN r ELSE Cook(r),
             s, Content(s.read_q))

\* wake_up(&secondary.proc_list) finds nobody while the reader is only about to sleep.
Woken == reader' = [reader EXCEPT !.at = CASE @ = "asleep" -> "test"
                                           [] @ = "sleep"  -> "late"
                                           [] OTHER        -> @]

Interrupt(cs) ==
    /\ reader.at = "take" => "take" \in Windows
    /\ writer.at = "con" => "print" \in Windows
    /\ reader.at = "late" => "sleep" \in Windows
    /\ echo /\ CHARS(write_q) + 2 >= TTY_BUF_SIZE => "full" \in Windows
    /\ LET s == CopyToCooked([read_q |-> FoldLeft(LAMBDA q, c : PUTCH(c, q), read_q, cs),
                              secondary |-> secondary, write_q |-> write_q, data |-> data,
                              owed |-> owed])
       IN  /\ read_q' = s.read_q /\ secondary' = s.secondary /\ write_q' = s.write_q
           /\ data' = s.data /\ owed' = s.owed
    /\ Woken
    /\ UNCHANGED <<canon, echo, writer>>

Press == /\ held < MaxHeld /\ CHARS(read_q) + CHARS(secondary) < Ahead
         /\ \E c \in IF canon /\ ~FULL(secondary) THEN Typed ELSE Raw : Interrupt(<<c>>)
         /\ held' = held + 1

\* A handler that is left where a scan code has no function.
Ignored == UNCHANGED <<read_q, secondary, write_q, data, canon, echo, reader, writer, owed>>

\* The scan code of a release sends nothing, but do_tty_interrupt is called.
ReleaseCode == Interrupt(<<>>)

Release == held > 0 /\ held' = held - 1 /\ ReleaseCode

----------------------------------------------------------------------------
\* tty_read.
\* A task in the kernel that does not sleep is not preempted.
WriterRuns == writer # NoWrite
ReaderRuns == reader.at \in {"sleep", "late", "take", "more"}

Reads(r) == ~WriterRuns /\ reader' = r /\ UNCHANGED <<read_q, write_q, canon, echo, writer, held, owed>>

Read == /\ reader = NoRead /\ echo \in ReadEcho
        /\ \E nr \in Counts : Reads([NoRead EXCEPT !.at = "test", !.nr = nr])
        /\ UNCHANGED <<secondary, data>>

MustWait == EMPTY(secondary) \/ (canon /\ ~FULL(read_q) /\ data = 0)

Test == /\ reader.at = "test"
        /\ Reads([reader EXCEPT !.at = IF MustWait THEN "sleep" ELSE "take"])
        /\ UNCHANGED <<secondary, data>>

\* interruptible_sleep_on: what came since the test does not count.
Sleep == /\ reader.at \in {"sleep", "late"}
         /\ Reads([reader EXCEPT !.at = "asleep"])
         /\ UNCHANGED <<secondary, data>>

\* A signal ends the sleep, and the loop goes on.
Signal == /\ reader.at = "asleep"
          /\ Reads([reader EXCEPT !.at = "test"])
          /\ UNCHANGED <<secondary, data>>

\* A count of lines that a read leaves alone.
Uncounted(c) == data

\* What ended a line is gone (data is unsigned long).
Discounted(c) == IF c \in Ends THEN (data + TTY_BUF_SIZE) % (TTY_BUF_SIZE + 1) ELSE data

Take ==
    /\ reader.at = "take"
    /\ LET c == First(secondary)
       IN  /\ secondary' = GETCH(secondary) /\ data' = Discounted(c)
           /\ Reads(IF c = "eof" /\ canon THEN NoRead
                    ELSE [at |-> "more", nr |-> reader.nr - 1, got |-> c])

\* The ends of the two loops.
More ==
    /\ reader.at = "more"
    /\ Reads(IF reader.nr > 0 /\ ~EMPTY(secondary) THEN [reader EXCEPT !.at = "take"]
             ELSE IF reader.nr = 0 \/ canon THEN NoRead
             ELSE [reader EXCEPT !.at = "test"])
    /\ UNCHANGED <<secondary, data>>

----------------------------------------------------------------------------
\* tty_write.
Writes(w) == ~ReaderRuns /\ writer' = w /\ UNCHANGED <<read_q, secondary, data, canon, echo, reader, held>>

Write == /\ writer = NoWrite /\ echo \in WriteEcho
         /\ \E text \in Texts : Writes([NoWrite EXCEPT !.at = "put", !.text = text])
         /\ UNCHANGED <<write_q, owed>>

\* One PUTCH: a carriage return goes ahead of the end of a line.
Put ==
    /\ writer.at = "put" /\ writer.text # <<>>
    /\ LET c  == Head(writer.text)
           cr == c = "nl" /\ ~writer.cr
           d  == IF cr THEN "cr" ELSE c
       IN  /\ write_q' = PUTCH(d, write_q) /\ owed' = Append(owed, d)
           /\ Writes(IF cr THEN [writer EXCEPT !.cr = TRUE]
                     ELSE [writer EXCEPT !.cr = FALSE, !.text = Tail(@)])

\* con_write counts first, and prints as many then.
ConWrite == /\ writer.at = "put" /\ writer.text = <<>>
            /\ Writes([writer EXCEPT !.at = "con", !.nr = CHARS(write_q)])
            /\ UNCHANGED <<write_q, owed>>

ConPut == /\ writer.at = "con"
          /\ IF writer.nr = 0 THEN Writes(NoWrite) /\ UNCHANGED <<write_q, owed>>
             ELSE /\ write_q' = GETCH(write_q)
                  /\ owed' = IF owed = <<>> THEN owed ELSE Tail(owed)
                  /\ Writes([writer EXCEPT !.nr = @ - 1])

----------------------------------------------------------------------------
\* tty_ioctl: TCSETS with another mode, and TCFLSH of what is typed.
SetMode == /\ ~ReaderRuns /\ ~WriterRuns
           /\ canon' = ~canon
           /\ UNCHANGED <<read_q, secondary, write_q, data, echo, reader, writer, held, owed>>

Flush == /\ ~ReaderRuns /\ ~WriterRuns
         /\ read_q' = [Ring EXCEPT !.head = read_q.tail, !.tail = read_q.tail]
         /\ UNCHANGED <<secondary, write_q, data, canon, echo, reader, writer, held, owed>>

Reader == Test \/ Sleep \/ Take \/ More
Next == Press \/ Release \/ Read \/ Reader \/ Signal \/ Write \/ Put \/ ConWrite \/ ConPut
        \/ SetMode \/ Flush

Spec == Init /\ [][Next]_ttyVars

\* A task that may run runs, although the other is in the kernel now and then, and a key
\* that is down comes up.
Fairness == SF_ttyVars(Reader) /\ WF_ttyVars(Put \/ ConWrite \/ ConPut) /\ SF_ttyVars(Release)
FairSpec == Spec /\ Fairness

----------------------------------------------------------------------------
\* Properties.
RingOK(q) == /\ q.head \in Place /\ q.tail \in Place
             /\ Cardinality({i \in Place : q.buf[i] # Old}) = CHARS(q)
             /\ Old \notin Range(Content(q))

TypeOK == /\ \A q \in {read_q, secondary, write_q} : RingOK(q)
          /\ data \in Place /\ {canon, echo} \subseteq BOOLEAN /\ held \in 0 .. MaxHeld
          /\ reader.at \in {"user", "test", "sleep", "late", "asleep", "take", "more"}
          /\ writer.at \in {"user", "put", "con"}

\* No ring is overrun: what is in a ring was put there, in order, and stands once.
\* secondary.data counts the ends of lines in secondary, whatever is typed, erased and
\* read meanwhile, and what a process writes is printed between two echoes, none of it
\* lost (tty_io.c:53-62, 127, 223).
RingsSound == /\ TypeOK
              /\ data = Len(SelectSeq(Content(secondary), LAMBDA c : c \in Ends))
              /\ Content(write_q) = owed
              /\ reader.at = "more" => reader.got # Old

\* The rings, the count and the sleeps implement an edited line: nothing that was
\* complete is edited, nothing is read before its line is complete, and nothing is read
\* twice or out of order.
Editor == INSTANCE LineEdit WITH Char <- Typed, None <- Old,
                                 line <- Content(secondary), read <- reader.got
LineSpec == Editor!Spec

\* A reader gets its line, although the key that ends it may come between the test and
\* the sleep (tty_io.c:119-121): the release of the same key wakes the reader then.  A
\* line that a release completes, because its end had waited in read_q, is left out:
\* then only the next key wakes the reader.
Complete == \E i \in DOMAIN Content(secondary) : Content(secondary)[i] \in Ends
LineArrives ==
    (canon /\ Complete /\ (reader.at = "test" \/ (reader # NoRead /\ held > 0)))
        ~> (reader = NoRead \/ ~canon)
==============================================================================
