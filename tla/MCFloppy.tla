------------------------------ MODULE MCFloppy ------------------------------
(* Floppy for TLC: two drives.  Drive 0 holds a disk of eight sectors, two   *)
(* heads of two sectors each and two cylinders; drive 1 one of six sectors   *)
(* that uses every second cylinder.                                          *)
EXTENDS Floppy

Types == 1 .. 2
Shapes == [t \in Types |-> IF t = 1 THEN [size |-> 8, sect |-> 2, head |-> 2, stretch |-> 0, spec1 |-> 1]
                           ELSE [size |-> 6, sect |-> 1, head |-> 2, stretch |-> 1, spec1 |-> 2]]
A == [drive |-> 0, type |-> 1]
B == [drive |-> 1, type |-> 2]
Devices == {A, B}
SomeWork == {[cmd |-> READ, dev |-> A, sector |-> 0], [cmd |-> WRITE, dev |-> A, sector |-> 6],
             [cmd |-> READ, dev |-> B, sector |-> 4], [cmd |-> WRITE, dev |-> B, sector |-> 4],
             [cmd |-> READ, dev |-> B, sector |-> 6]}
============================================================================
