------------------------------ MODULE LineEdit ------------------------------
(***************************************************************************)
(* What the terminal promises to its reader, without rings and counters:   *)
(* what is typed is one sequence; the line behind the last end of a line   *)
(* may still be edited; a read starts when a line is complete, and takes   *)
(* characters in the order in which they stand.  Tty implements it.        *)
(***************************************************************************)
EXTENDS Naturals, Sequences, SequencesExt, FiniteSetsExt

CONSTANTS Char, Ends,   \* the characters, and those that end a line
          None

VARIABLES line,    \* what was typed and is not read yet
          read,    \* the last character that the call of the reader has read
          canon    \* whether lines are edited at all

vars == <<line, read, canon>>

Init == line = <<>> /\ read = None /\ canon = TRUE

Complete == \E i \in DOMAIN line : line[i] \in Ends

\* What no key can change: what ends with the last end of a line, or everything.
Fixed == IF canon THEN SubSeq(line, 1, Max({0} \cup {i \in DOMAIN line : line[i] \in Ends}))
         ELSE line

\* The keys of one interrupt.
Type == /\ line' \in Seq(Char) /\ IsPrefix(Fixed, line')
        /\ UNCHANGED <<read, canon>>

Take == /\ line # <<>> /\ (canon /\ read = None => Complete)
        /\ line' = Tail(line) /\ read' = Head(line)
        /\ UNCHANGED canon

\* The end of file is read without being given to the reader.
Swallow == /\ line # <<>> /\ canon /\ Head(line) \in Ends
           /\ line' = Tail(line) /\ read' = None
           /\ UNCHANGED canon

Return == read' = None /\ UNCHANGED <<line, canon>>

SetMode == canon' \in BOOLEAN /\ UNCHANGED <<line, read>>

Next == Type \/ Take \/ Swallow \/ Return \/ SetMode

Spec == Init /\ [][Next]_vars
==============================================================================
