----------------------------- MODULE Directory -----------------------------
(***************************************************************************)
(* The tree of names (fs/namei.c, and the references that sys_chdir,       *)
(* sys_open and sys_close of fs/open.c keep): tasks walk along paths,      *)
(* follow symbolic links, and make and remove names, and sleep wherever a  *)
(* block is read or allocated and wherever iget may sleep.                 *)
(*                                                                         *)
(* iget, iput and new_inode are one step each here: what they do in detail *)
(* is InodeCache's.  All tasks are the superuser, so that permission only  *)
(* refuses a directory that has no link left.  A path is a sequence of     *)
(* names, behind "/" when it is absolute; none is empty or ends in a       *)
(* slash.  A symbolic link holds one name, of its own directory.           *)
(***************************************************************************)
EXTENDS Naturals, Sequences, SequencesExt, FiniteSetsExt

CONSTANTS Task,
          Num,              \* the inode numbers
          PER_BLOCK,        \* DIR_ENTRIES_PER_BLOCK
          Calls,            \* Calls[t]: what t may ask for: op, path, and to, the new path
                            \* of a link or what a symbolic link holds
          NoSpace,          \* the calls that may find no block
          MaxLeaks,         \* the references that open_namei may lose
          Windows           \* others run in between: "iget", when iget sleeps between the
                            \* entry that is read and the inode; "empty", when empty_dir
                            \* waits for its block

VARIABLES inode,   \* the inodes: kind, i_nlinks, i_count, and the entries or the name they hold
          call,    \* the call of each task, and what it holds
          pwd,     \* current->pwd; current->root is the root
          opened,  \* the inode of the file that a task has open
          leaked,  \* history: references that nobody will give back
          wild     \* history: _namei has used a null pointer

dirVars == <<inode, call, pwd, opened, leaked, wild>>

Root == 1
NoNum == 0

Free  == [kind |-> "free", nlinks |-> 0, count |-> 0, data |-> <<>>]
Entry(name, n) == [name |-> name, inode |-> n]
Gap   == Entry("", NoNum)      \* what is left of a removed entry
Dots(n, parent) == <<Entry(".", n), Entry("..", parent)>>

NoCall == [at |-> "user", op |-> "none", rest |-> <<>>, to |-> <<>>,
           dir |-> NoNum, inode |-> NoNum, old |-> NoNum,   \* inodes that the call holds
           blk |-> 0, nr |-> 0, de |-> 0, inr |-> NoNum,    \* find_entry's and what it found
           via |-> FALSE, name |-> "", top |-> NoNum]       \* follow_link's

\* The root with a file.  Each task holds the root twice.
Init == /\ inode = [n \in Num |->
              CASE n = Root -> [kind |-> "dir", nlinks |-> 2, count |-> 2 * Cardinality(Task),
                                data |-> Append(Dots(Root, Root), Entry("f", 2))]
                [] n = 2    -> [kind |-> "file", nlinks |-> 1, count |-> 0, data |-> <<>>]
                [] OTHER    -> Free]
        /\ call = [t \in Task |-> NoCall]
        /\ pwd = [t \in Task |-> Root] /\ opened = [t \in Task |-> NoNum]
        /\ leaked = [n \in Num |-> 0] /\ wild = FALSE

----------------------------------------------------------------------------
\* Inodes.
Get(ino, n) == [ino EXCEPT ![n].count = @ + 1]

\* The last reference to an inode without a name frees it.
Put(ino, n) == IF ino[n].count = 1 /\ ino[n].nlinks = 0 THEN [ino EXCEPT ![n] = Free]
               ELSE [ino EXCEPT ![n].count = @ - 1]

PutAll(ino, ns) == FoldLeft(Put, ino, SelectSeq(ns, LAMBDA n : n # NoNum))

\* One link less.
Less(ino, n) == [ino EXCEPT ![n].nlinks = @ - 1]
More(ino, n) == [ino EXCEPT ![n].nlinks = @ + 1]

\* S_ISDIR, and permission for the superuser.
Permitted(n) == inode[n].kind = "dir" /\ inode[n].nlinks > 0

Steps(t, ino, c) ==
    inode' = ino /\ call' = [call EXCEPT ![t] = c] /\ UNCHANGED <<pwd, opened, leaked, wild>>

\* What is to be found at the end of the path, or of the link that is followed there.
AtEnd(c)   == Len(c.rest) = 1
Follows(c) == c.op \in {"chdir", "open"} \/ (c.op = "link" /\ c.old = NoNum)
Makes(c)   == AtEnd(c) /\ ~Follows(c) /\ c.op \in {"mkdir", "symlink", "link"}
Name(c)    == IF c.via THEN c.name ELSE Head(c.rest)

\* A call fails and gives back what it holds.  _namei does not ask whether follow_link
\* has found anything.
Fails(t, ino, c) ==
    /\ inode' = PutAll(ino, <<c.dir, c.inode, c.old>>)
    /\ call' = [call EXCEPT ![t] = NoCall]
    /\ wild' = (wild \/ (c.via /\ AtEnd(c) /\ c.op # "open"))
    /\ UNCHANGED <<pwd, opened, leaked>>

----------------------------------------------------------------------------
\* find_entry.
Search(t, c) ==
    Steps(t, inode, [c EXCEPT !.at = "find", !.blk = 1, !.nr = Len(inode[c.dir].data)])

Slots(blk) == (blk - 1) * PER_BLOCK + 1 .. blk * PER_BLOCK

Matches(c) == {s \in Slots(c.blk) \cap 1 .. c.nr :
                 LET e == inode[c.dir].data[s] IN e.inode # NoNum /\ e.name = Name(c)}

\* The name is there: too bad for a call that makes it, else its inode is next.
Found(t, c, s) ==
    LET n == inode[c.dir].data[s].inode
    IN  IF Makes(c)
        THEN Fails(t, IF c.inode = NoNum THEN inode ELSE Less(inode, c.inode), c)
        ELSE Steps(t, inode, [c EXCEPT !.at = "iget", !.inr = n, !.de = s,
                                       !.top = IF c.via THEN @ ELSE n])

\* open_namei keeps the directory where it has not found its file.
Missing(t, c) ==
    IF Makes(c)
    THEN Steps(t, inode, IF c.op = "mkdir" THEN [c EXCEPT !.at = "new"]
                         ELSE [c EXCEPT !.at = "add", !.blk = 1])
    ELSE IF c.op = "open" /\ AtEnd(c) /\ ~c.via
    THEN /\ leaked' = [leaked EXCEPT ![c.dir] = @ + 1]
         /\ call' = [call EXCEPT ![t] = NoCall]
         /\ UNCHANGED <<inode, pwd, opened, wild>>
    ELSE Fails(t, inode, c)

\* One block, after waiting for it.
Find(t) ==
    LET c == call[t]
    IN  /\ c.at = "find"
        /\ IF Matches(c) # {} THEN Found(t, c, Min(Matches(c)))
           ELSE IF c.blk * PER_BLOCK < c.nr THEN Steps(t, inode, [c EXCEPT !.blk = @ + 1])
           ELSE Missing(t, c)

----------------------------------------------------------------------------
\* get_dir, dir_namei and follow_link.
Start(t, path) == IF Head(path) = "/" THEN Root ELSE pwd[t]
Names(path)    == IF Head(path) = "/" THEN Tail(path) ELSE path

Begin(t) ==
    /\ call[t] = NoCall
    /\ \E k \in Calls[t] :
         /\ k.op = "open" => /\ opened[t] = NoNum
                             /\ FoldFunction(+, 0, leaked) < MaxLeaks
         /\ Steps(t, Get(inode, Start(t, k.path)),
                  [NoCall EXCEPT !.at = "walk", !.op = k.op, !.rest = Names(k.path), !.to = k.to,
                                 !.dir = Start(t, k.path)])

Walk(t) ==
    LET c == call[t]
    IN  /\ c.at = "walk"
        /\ IF ~Permitted(c.dir) THEN Fails(t, inode, c)
           ELSE IF c.op = "symlink" /\ AtEnd(c) THEN Steps(t, inode, [c EXCEPT !.at = "new"])
           ELSE Search(t, c)

\* A chdir that does not put the directory it leaves.
ChdirKeeps(t, ino, n) ==
    /\ inode' = (IF ino[n].kind = "dir" THEN ino ELSE Put(ino, n))
    /\ pwd' = (IF ino[n].kind = "dir" THEN [pwd EXCEPT ![t] = n] ELSE pwd)
    /\ call' = [call EXCEPT ![t] = NoCall]
    /\ UNCHANGED <<opened, leaked, wild>>

\* The inode of a path that is followed to its end is held, its directory no more.
Chdir(t, ino, n) ==
    /\ IF ino[n].kind = "dir"
       THEN inode' = Put(ino, pwd[t]) /\ pwd' = [pwd EXCEPT ![t] = n]
       ELSE inode' = Put(ino, n) /\ pwd' = pwd
    /\ call' = [call EXCEPT ![t] = NoCall]
    /\ UNCHANGED <<opened, leaked, wild>>

\* sys_link has its old inode and turns to the new name.
LinkTo(t, ino, n) ==
    LET c == call[t]
    IN  IF ino[n].kind = "dir" THEN Steps(t, Put(ino, n), NoCall)
        ELSE Steps(t, Get(ino, Start(t, c.to)),
                   [NoCall EXCEPT !.at = "walk", !.op = "link", !.old = n, !.rest = Names(c.to),
                                  !.dir = Start(t, c.to)])

\* open_namei has its inode and calls iget for it once more: this reference is lost.
OpenAgain(t, ino, n) ==
    IF ino[n].nlinks = 0 THEN Steps(t, Put(ino, n), NoCall)
    ELSE /\ inode' = ino /\ leaked' = [leaked EXCEPT ![n] = @ + 1]
         /\ call' = [call EXCEPT ![t] = [NoCall EXCEPT !.at = "open", !.op = "open",
                                                        !.top = call[t].top]]
         /\ UNCHANGED <<pwd, opened, wild>>

Arrives(t, ino, n) ==
    LET c == call[t]
    IN  IF ~AtEnd(c)
        THEN Steps(t, ino, [c EXCEPT !.at = "walk", !.rest = Tail(@), !.dir = n, !.via = FALSE])
        ELSE CASE c.op = "chdir" -> Chdir(t, ino, n)
               [] c.op = "link"  -> LinkTo(t, ino, n)
               [] c.op = "open"  -> OpenAgain(t, ino, n)

\* The link's name is read, the link put, and the name looked up in its directory.
FollowLink(t) ==
    LET c == call[t]
    IN  /\ c.at = "link"
        /\ Steps(t, Put(inode, c.inode),
                 [c EXCEPT !.at = "walk", !.via = TRUE, !.name = inode[c.inode].data,
                           !.inode = NoNum])

Open(t) == /\ call[t].at = "open"
           /\ inode' = Get(inode, call[t].top) /\ opened' = [opened EXCEPT ![t] = call[t].top]
           /\ call' = [call EXCEPT ![t] = NoCall]
           /\ UNCHANGED <<pwd, leaked, wild>>

Close(t) == /\ call[t] = NoCall /\ opened[t] # NoNum
            /\ inode' = Put(inode, opened[t]) /\ opened' = [opened EXCEPT ![t] = NoNum]
            /\ UNCHANGED <<call, pwd, leaked, wild>>

----------------------------------------------------------------------------
\* unlink and rmdir.
Cleared(ino, c) == [ino EXCEPT ![c.dir].data[c.de] = Gap]

\* The link count of a file that has none is mended first.
Unlink(t, ino, c) ==
    IF ino[c.inode].kind = "dir" THEN Fails(t, ino, c)
    ELSE Steps(t, PutAll([Cleared(ino, c) EXCEPT ![c.inode].nlinks = Max({@, 1}) - 1],
                         <<c.inode, c.dir>>), NoCall)

\* Nobody else may hold the directory, not as the one that is left out either.
Rmdir(t, ino, c) ==
    IF ino[c.inode].count > 1 \/ ino[c.inode].kind # "dir" THEN Fails(t, ino, c)
    ELSE Steps(t, ino, [c EXCEPT !.at = "empty"])

\* A search that does not look behind the first block.
IsEmptyFirst(n) == \A s \in 3 .. Len(inode[n].data) : s > PER_BLOCK \/ inode[n].data[s].inode = NoNum

\* empty_dir.
IsEmpty(n) == \A s \in 3 .. Len(inode[n].data) : inode[n].data[s].inode = NoNum

EmptyDir(t) ==
    LET c == call[t]
    IN  /\ c.at = "empty"
        /\ IF ~IsEmpty(c.inode) THEN Fails(t, inode, c)
           ELSE Steps(t, PutAll(Less([Cleared(inode, c) EXCEPT ![c.inode].nlinks = 0], c.dir),
                                <<c.dir, c.inode>>), NoCall)

\* iget has slept: what the entry says may have changed since.
Iget(t) ==
    LET c   == call[t]
        n   == c.inr
        ino == Get(inode, n)
        h   == [c EXCEPT !.inode = n]
    IN  /\ c.at = "iget"
        /\ IF AtEnd(c) /\ c.op = "unlink" THEN Unlink(t, ino, h)
           ELSE IF AtEnd(c) /\ c.op = "rmdir" THEN Rmdir(t, ino, h)
           ELSE IF ino[n].kind = "link" /\ ~c.via THEN Steps(t, ino, [h EXCEPT !.at = "link"])
           ELSE Arrives(t, Put(ino, c.dir), n)

----------------------------------------------------------------------------
\* mkdir, symlink and link.
NewInode(t) ==
    LET c    == call[t]
        free == {n \in Num : inode[n].kind = "free"}
    IN  /\ c.at = "new"
        /\ IF free = {} THEN Fails(t, inode, c)
           ELSE Steps(t, [inode EXCEPT ![Min(free)] = [kind |-> "new", nlinks |-> 1, count |-> 1,
                                                       data |-> <<>>]],
                      [c EXCEPT !.at = "block", !.inode = Min(free)])

\* new_block and bread, for the entries "." and ".." or for the name.
NewBlock(t) ==
    LET c == call[t]
    IN  /\ c.at = "block"
        /\ \/ IF c.op = "mkdir"
              THEN Steps(t, [inode EXCEPT ![c.inode] = [@ EXCEPT !.kind = "dir", !.nlinks = 2,
                                                                 !.data = Dots(c.inode, c.dir)]],
                         [c EXCEPT !.at = "add", !.blk = 1])
              ELSE LET made == [inode EXCEPT ![c.inode] = [@ EXCEPT !.kind = "link", !.data = c.to]]
                   IN  Steps(t, made, [c EXCEPT !.at = "find", !.blk = 1,
                                                !.nr = Len(inode[c.dir].data)])
           \/ c.op \in NoSpace /\ Fails(t, Less(inode, c.inode), c)

\* The entry is set where add_entry has found room.
Added(t, c, s) ==
    LET d   == inode[c.dir].data
        e   == Entry(Head(c.rest), IF c.op = "link" THEN c.old ELSE c.inode)
        ino == [inode EXCEPT ![c.dir].data = IF s > Len(d) THEN Append(d, e) ELSE [d EXCEPT ![s] = e]]
    IN  CASE c.op = "mkdir"   -> Steps(t, PutAll(More(ino, c.dir), <<c.dir, c.inode>>), NoCall)
          [] c.op = "symlink" -> Steps(t, PutAll(ino, <<c.dir, c.inode>>), NoCall)
          [] c.op = "link"    -> Steps(t, Put(ino, c.dir), [c EXCEPT !.at = "count", !.dir = NoNum])

\* One block of add_entry, after waiting for it; behind the last one create_block may
\* find none, and then mkdir takes one link back of two.
AddEntry(t) ==
    LET c    == call[t]
        d    == inode[c.dir].data
        room == {s \in Slots(c.blk) : s > Len(d) \/ d[s].inode = NoNum}
    IN  /\ c.at = "add"
        /\ IF room # {} THEN Added(t, c, Min(room))
           ELSE \/ Steps(t, inode, [c EXCEPT !.blk = @ + 1])
                \/ /\ c.op \in NoSpace /\ c.blk * PER_BLOCK >= Len(d)
                   /\ Fails(t, IF c.op = "link" THEN inode ELSE Less(inode, c.inode), c)

\* sys_link counts the link when the directory has been put, which may sleep.
CountLink(t) == /\ call[t].at = "count"
                /\ Steps(t, Put(More(inode, call[t].old), call[t].old), NoCall)

----------------------------------------------------------------------------
Waits(t) == Begin(t) \/ Close(t) \/ Walk(t) \/ Find(t) \/ Iget(t) \/ FollowLink(t) \/ Open(t)
            \/ NewInode(t) \/ NewBlock(t) \/ AddEntry(t) \/ CountLink(t) \/ EmptyDir(t)

Next == \E t \in Task :
          /\ \A u \in Task \ {t} : call[u].at \notin {"iget", "empty"} \ Windows
          /\ Waits(t)
Spec == Init /\ [][Next]_dirVars

----------------------------------------------------------------------------
\* Properties.
Entries(d) == IF inode[d].kind = "dir" THEN {s \in DOMAIN inode[d].data : inode[d].data[s].inode # NoNum}
              ELSE {}
Child(d, s) == inode[d].data[s].inode

\* The inodes that a path from the root leads to.
Reach[k \in 0 .. Cardinality(Num)] ==
    IF k = 0 THEN {Root}
    ELSE Reach[k - 1] \cup UNION {{Child(d, s) : s \in Entries(d)} : d \in Reach[k - 1]}
Linked == Reach[Cardinality(Num)]

\* Inodes whose name is still to be made, and links that are still to be counted.
Nameless     == {call[t].inode : t \in {u \in Task : call[u].op \in {"mkdir", "symlink"}}}
Uncounted(n) == Cardinality({t \in Task : call[t].at = "count" /\ call[t].old = n})
NamesOf(n, dirs) == UNION {{<<d, s>> : s \in {r \in Entries(d) : Child(d, r) = n}} : d \in dirs}

TypeOK == /\ \A n \in Num : /\ inode[n].kind \in {"free", "new", "file", "dir", "link"}
                            /\ inode[n].count \in Nat /\ inode[n].nlinks \in Nat
          /\ pwd \in [Task -> Num] /\ opened \in [Task -> Num \cup {NoNum}] /\ ~wild

\* The names form one tree, whoever walks in it and whoever changes it meanwhile: no
\* directory has a name twice, every name leads to an inode that is in use, a directory
\* has one name and ".." for its parent, and i_nlinks counts the names of what the root
\* leads to, of a removed directory none.  So no name is made in a directory that has
\* been removed, and none removed that has names in it (namei.c:400-411, 525-533).
TreeSound ==
    /\ TypeOK
    /\ LET linked == Linked IN
       /\ \A d \in linked : \A s \in Entries(d) :
            /\ \A r \in Entries(d) : inode[d].data[r].name = inode[d].data[s].name => r = s
            /\ inode[Child(d, s)].kind \notin {"free", "new"}
            /\ s > 2 /\ inode[Child(d, s)].kind = "dir" =>
                 SubSeq(inode[Child(d, s)].data, 1, 2) = Dots(Child(d, s), d)
       /\ \A n \in Num : inode[n].kind # "free" /\ n \notin Nameless =>
            inode[n].nlinks + Uncounted(n) = Cardinality(NamesOf(n, linked))

\* References to an inode: as a root, a current directory, an open file, and in a call.
Holders(n) ==
    (IF n = Root THEN Cardinality(Task) ELSE 0)
    + Cardinality({t \in Task : pwd[t] = n}) + Cardinality({t \in Task : opened[t] = n})
    + Cardinality({t \in Task : call[t].dir = n}) + Cardinality({t \in Task : call[t].inode = n})
    + Cardinality({t \in Task : call[t].old = n})

\* On no path through the calls is an inode put twice or kept, but for the directory
\* that open_namei keeps when it finds nothing and for the reference it takes twice
\* (namei.c:270, 288), which leaked counts; and an inode that has neither a name nor a
\* user is free again.
ReferencesKept ==
    \A n \in Num : /\ inode[n].count = Holders(n) + leaked[n]
                   /\ inode[n].kind # "free" => inode[n].count > 0 \/ inode[n].nlinks > 0
=============================================================================
