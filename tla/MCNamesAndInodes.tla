-------------------------- MODULE MCNamesAndInodes --------------------------
(***************************************************************************)
(* The names (Directory) and the inodes they lead to (InodeCache).  The    *)
(* first calls iget, iput and new_inode as single steps, which the second  *)
(* shows them to be as far as counts and links go; here each is explored   *)
(* while the other is in its initial state.                                *)
(***************************************************************************)
EXTENDS InodeCache, TLC

Tasks == Permutations(Task)

\* Two tasks, two inodes to make, and blocks of three entries.  The names they make are
\* disjoint.  In the first work p makes and removes a directory and a name in it, while q
\* works and opens files there, up to its own subdirectory; in the second q leads paths
\* through a symbolic link to the directory, which may dangle.
Call(op, path) == [op |-> op, path |-> path, to |-> <<>>]
To(op, path, to) == [op |-> op, path |-> path, to |-> to]

Work == <<
    [p |-> {Call("mkdir", <<"/", "d">>), Call("rmdir", <<"/", "d">>),
            To("link", <<"f">>, <<"/", "d", "g">>), Call("unlink", <<"/", "d", "g">>)},
     q |-> {Call("chdir", <<"/", "d">>), Call("chdir", <<"..">>), Call("mkdir", <<"e">>),
            Call("rmdir", <<"e">>), Call("open", <<"d">>)}],
    [p |-> {Call("mkdir", <<"/", "d">>), Call("rmdir", <<"/", "d">>)},
     q |-> {To("symlink", <<"l">>, "d"), Call("unlink", <<"/", "l">>), Call("open", <<"/", "l">>),
            To("link", <<"f">>, <<"/", "l", "g">>), Call("unlink", <<"/", "d", "g">>)}] >>

VARIABLES work, tree, call, pwd, opened, leaked, wild
theNames == <<work, tree, call, pwd, opened, leaked, wild>>

D1 == INSTANCE Directory WITH
         inode <- tree, Task <- {"p", "q"}, Num <- 1 .. 4, PER_BLOCK <- 3, Calls <- Work[1],
         NoSpace <- {"link", "symlink"}, MaxLeaks <- 1, Windows <- {}
D2 == INSTANCE Directory WITH
         inode <- tree, Task <- {"p", "q"}, Num <- 1 .. 4, PER_BLOCK <- 3, Calls <- Work[2],
         NoSpace <- {"link", "symlink"}, MaxLeaks <- 1, Windows <- {}

AllInit == Init /\ D1!Init /\ work \in DOMAIN Work
AllNext == \/ work = 1 /\ D1!Init /\ Next /\ UNCHANGED theNames
           \/ Init /\ work = 1 /\ D1!Next /\ UNCHANGED <<vars, work>>
           \/ Init /\ work = 2 /\ D2!Next /\ UNCHANGED <<vars, work>>
AllSpec == AllInit /\ [][AllNext]_<<vars, theNames>>

TreeSound      == D1!TreeSound
ReferencesKept == D1!ReferencesKept
=============================================================================
