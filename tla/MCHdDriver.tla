----------------------------- MODULE MCHdDriver -----------------------------
(* HdDriver for TLC: two partitions of four and three sectors behind a boot  *)
(* sector.  b1 and b2 hold the first partition's blocks, the second one its  *)
(* last; b3 holds a block that reaches past the second partition, b4 the one *)
(* block that lies in it.                                                    *)
EXTENDS HdDriver

CONSTANTS b1, b2, b3, b4

Parts == {1, 2}
PartTable == [d \in Parts |-> IF d = 1 THEN [start |-> 1, nr |-> 4] ELSE [start |-> 5, nr |-> 3]]
Places == [b \in Buffer |-> CASE b = b1 -> [dev |-> 1, block |-> 0]
                              [] b = b2 -> [dev |-> 1, block |-> 1]
                              [] b = b3 -> [dev |-> 2, block |-> 1]
                              [] b = b4 -> [dev |-> 2, block |-> 0]]
============================================================================
