--------------------------- MODULE MCBufferCache ---------------------------
(* BufferCache for TLC: the blocks are on one disk.                         *)
EXTENDS BufferCache

CONSTANTS t1, t2, t3

OneMajor    == {3}
BufferHeads == 1 .. NR_BUFFERS
ThreeBlocks == 1 .. 3
FourBlocks  == 1 .. 4
OnDisk4     == [blk \in FourBlocks |-> 3]
OnDisk3     == [blk \in ThreeBlocks |-> 3]
TwoTasks    == {t1, t2}
ThreeTasks  == {t1, t2, t3}
Interchangeable == Permutations(Task)
============================================================================
