-------------------------------- MODULE Files --------------------------------
(***************************************************************************)
(* What the calls on regular files promise, without zones and bitmaps: a   *)
(* file is a block of data at each position.  A write puts its own data at *)
(* its own position, a truncate empties every position, and nothing else   *)
(* changes a file.  FileBlocks implements it.                              *)
(***************************************************************************)
EXTENDS Integers

CONSTANTS Task, Inode, Pos, None, Zero

VARIABLES file,   \* file[i][p], what a read of block p of file i finds
          call    \* the call of each task

vars == <<file, call>>

Idle == [op |-> "none", inode |-> None, pos |-> None]

Init == /\ file = [i \in Inode |-> [p \in Pos |-> Zero]]
        /\ call = [t \in Task |-> Idle]

Becomes(t, c) == call' = [call EXCEPT ![t] = c]

Begin(t) ==
    /\ call[t] = Idle /\ UNCHANGED file
    /\ \/ \E i \in Inode, p \in Pos, op \in {"read", "write"} :
            Becomes(t, [op |-> op, inode |-> i, pos |-> p])
       \/ \E i \in Inode : Becomes(t, [Idle EXCEPT !.op = "truncate", !.inode = i])

\* A write puts its data, which are named by their place; a write that finds no room,
\* and a call with a read error, has no effect.
Put(t) == /\ call[t].op = "write" /\ Becomes(t, Idle)
          /\ file' = [file EXCEPT ![call[t].inode][call[t].pos] = <<call[t].inode, call[t].pos>>]

GiveUp(t) == call[t].op \in {"read", "write"} /\ Becomes(t, Idle) /\ UNCHANGED file

\* A truncate empties positions, some at a time, and ends when the file is empty.
Wipe(t) == /\ call[t].op = "truncate" /\ UNCHANGED call
           /\ \E gone \in SUBSET Pos :
                file' = [file EXCEPT ![call[t].inode] =
                           [p \in Pos |-> IF p \in gone THEN Zero ELSE @[p]]]

Done(t) == /\ call[t].op = "truncate" /\ Becomes(t, Idle) /\ UNCHANGED file
           /\ \A p \in Pos : file[call[t].inode][p] = Zero

Next == \E t \in Task : Begin(t) \/ Put(t) \/ GiveUp(t) \/ Wipe(t) \/ Done(t)

Spec == Init /\ [][Next]_vars
==============================================================================
