---------------------------- MODULE MCFileBlocks ----------------------------
(***************************************************************************)
(* An instance of FileBlocks: one direct zone and two entries in an        *)
(* indirect block, with a block of a file at each depth.                   *)
(***************************************************************************)
EXTENDS FileBlocks, TLC

\* The direct block, the first of the indirect ones and the first two of the double
\* indirect ones.
PosValue == {0, 1, 3}

Perms == Permutations(Task) \cup Permutations(Inode)
=============================================================================
