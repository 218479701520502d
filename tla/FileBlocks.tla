----------------------------- MODULE FileBlocks -----------------------------
(***************************************************************************)
(* The blocks of regular files: the bitmap of zones (new_block and         *)
(* free_block of fs/bitmap.c), the map from a file's blocks to zones with  *)
(* its indirect blocks (_bmap of fs/inode.c), truncate (fs/truncate.c),    *)
(* and file_read and file_write of fs/file_dev.c, one block each.          *)
(*                                                                         *)
(* An entry is named by its path: <<z>> is i_zone[z], <<z, k>> entry k of  *)
(* the block in i_zone[z], <<z, k, l>> entry l of the block in that entry. *)
(* What a block contains is what the buffer cache says (BufferCache); of   *)
(* the cache there is only who counts in b_count.                          *)
(***************************************************************************)
EXTENDS Integers, SequencesExt, FiniteSetsExt

CONSTANTS Task, Inode, None, Zero,
          Junk,          \* what an earlier file left in a zone, whatever it was
          NDIRECT,       \* zones of data in an inode (7)
          NENTRIES,      \* entries of an indirect block (512)
          NZONES,        \* zones of data on the device
          Pos,           \* the blocks of a file that the tasks use
          MaxErrors,     \* read errors of indirect blocks
          Uncached,      \* the calls whose bread may wait until it has a buffer at all
          OneWriter      \* no two tasks write to or truncate one file at the same time

ASSUME ShapeAssumption == NDIRECT \in Nat \ {0} /\ NENTRIES \in Nat \ {0} /\ NZONES \in Nat
ASSUME PosAssumption == Pos \subseteq 0 .. NDIRECT + NENTRIES + NENTRIES * NENTRIES - 1

Zone == 1 .. NZONES
Entry == 0 .. NENTRIES - 1

VARIABLES i_zone,   \* the zones of each inode, 0 for none
          ent,      \* the entries of each block that is used as an indirect block
          data,     \* what is in each block that is used for data
          zmap,     \* the zones whose bit is set
          call,     \* the system call of each task and how far it is
          cpu,      \* the task that is in the kernel and does not sleep, or None
          errors, halt,
          lost      \* history: zones that nothing leads to any more

disk == <<i_zone, ent, data, zmap>>
vars == <<disk, call, cpu, errors, halt, lost>>

\* at: "walk", in _bmap with the slot number d of path to look at; "alloc", in
\* new_block with zone nr; "get", in getblk before the buffer for nr is counted;
\* "data", with the buffer of the data; "trunc", before item n of truncate;
\* "freeing", in free_block for nr.  hold are the blocks the task counts in, open
\* the indirect blocks that free_ind and free_dind go through, busy the entries
\* that could not be freed.
Idle == [op |-> "none", inode |-> None, pos |-> None, at |-> "user", then |-> "user", d |-> 0,
         nr |-> 0, hold |-> {}, n |-> 0, open |-> <<>>, busy |-> {}]

Init == /\ i_zone = [i \in Inode |-> [z \in 0 .. NDIRECT + 1 |-> 0]]
        /\ ent = [b \in Zone |-> [k \in Entry |-> 0]]
        /\ data = [b \in Zone |-> Junk]
        /\ zmap = {}
        /\ call = [t \in Task |-> Idle] /\ cpu = None
        /\ errors = 0 /\ halt = "no" /\ lost = {}

----------------------------------------------------------------------------
\* Paths.

\* _bmap: where block pos of a file is entered.
Path(pos) ==
    LET ind  == pos - NDIRECT
        dind == ind - NENTRIES
    IN  IF ind < 0 THEN <<pos>>
        ELSE IF dind < 0 THEN <<NDIRECT, ind>>
        ELSE <<NDIRECT + 1, dind \div NENTRIES, dind % NENTRIES>>

\* What an entry contains, 0 if nothing leads there.
At(i, path) ==
    LET first  == i_zone[i][path[1]]
        second == IF first = 0 THEN 0 ELSE ent[first][path[2]]
    IN  IF Len(path) = 1 THEN first
        ELSE IF Len(path) = 2 THEN second
        ELSE IF second = 0 THEN 0 ELSE ent[second][path[3]]

\* The order in which truncate, free_ind and free_dind come to the entries: an
\* indirect block is opened before its entries and freed behind them.
Free(path) == <<[do |-> "free", path |-> path]>>
Through(path, inner) == <<[do |-> "open", path |-> path]>> \o inner \o Free(path)
Each(f(_)) == FlattenSeq([k \in 1 .. NENTRIES |-> f(k - 1)])

Order == LET dind == NDIRECT + 1
         IN  FlattenSeq([z \in 1 .. NDIRECT |-> Free(<<z - 1>>)])
             \o Through(<<NDIRECT>>, Each(LAMBDA k : Free(<<NDIRECT, k>>)))
             \o Through(<<dind>>, Each(LAMBDA k :
                    Through(<<dind, k>>, Each(LAMBDA l : Free(<<dind, k, l>>)))))

\* The item of Order that frees an entry.
Turn(path) == CHOOSE n \in DOMAIN Order : Order[n] = [do |-> "free", path |-> path]

Paths == {Order[n].path : n \in DOMAIN Order}
Above(path, q) == Len(path) < Len(q) /\ IsPrefix(path, q)

----------------------------------------------------------------------------
\* Steps.  A task that comes to a place where the code may sleep leaves the
\* processor, and may be the next to go on.

Count(b) == Cardinality({t \in Task : b \in call[t].hold})

Goes(t, c) == call' = [call EXCEPT ![t] = c] /\ cpu' = t
Sleeps(t, c) == call' = [call EXCEPT ![t] = c] /\ cpu' = None
Returns(t) == Sleeps(t, Idle)
Panics(why) == halt' = why /\ UNCHANGED <<disk, call, cpu, errors, lost>>

Runs(t, at) == halt = "no" /\ cpu \in {t, None} /\ call[t].at = at

\* bread(nr): getblk counts the buffer and the task may sleep until it is read.
\* Without a buffer it may sleep before that.
Bread(t, c, nr, then) ==
    Sleeps(t, IF c.op \notin Uncached THEN [c EXCEPT !.nr = nr, !.hold = @ \cup {nr}, !.at = then]
              ELSE [c EXCEPT !.nr = nr, !.at = "get", !.then = then])

Getblk(t) ==
    /\ Runs(t, "get")
    /\ LET c == call[t]
       IN  Sleeps(t, [c EXCEPT !.hold = @ \cup {c.nr}, !.at = c.then])
    /\ UNCHANGED <<disk, errors, halt, lost>>

----------------------------------------------------------------------------
\* read and write of one block.

\* _bmap with the number b from the slot it looked at: brelse of the block above,
\* and bread of b for its entries or, back in file_read or file_write, for its data.
Follow(t, from, b) ==
    LET c == [from EXCEPT !.hold = {}]
    IN  IF c.d = Len(Path(c.pos)) THEN Bread(t, c, b, "data")
        ELSE Bread(t, [c EXCEPT !.d = @ + 1], b, "walk")

\* The slot that _bmap looks at: of the inode, or of the block it holds.
Slot(c) == IF c.d = 1 THEN i_zone[c.inode][Path(c.pos)[1]]
           ELSE ent[CHOOSE b \in c.hold : TRUE][Path(c.pos)[c.d]]

\* An empty slot ends the call, except that a write gets a zone for it: the search
\* and set_bit of new_block, which then waits for a buffer.
WalkFrom(t, c) ==
    /\ LET unset == Zone \ zmap
       IN  IF Slot(c) # 0 THEN Follow(t, c, Slot(c)) /\ UNCHANGED zmap
           ELSE IF c.op = "write" /\ unset # {}
           THEN /\ zmap' = zmap \cup {Min(unset)}
                /\ Sleeps(t, [c EXCEPT !.nr = Min(unset), !.at = "alloc"])
           ELSE Returns(t) /\ UNCHANGED zmap
    /\ UNCHANGED <<i_zone, ent, data, errors, halt, lost>>

Walk(t) == Runs(t, "walk") /\ WalkFrom(t, call[t])

\* Nothing in the code keeps two tasks from changing one file at the same time.
Alone(i) == OneWriter => \A t \in Task : call[t].inode = i => call[t].op = "read"

Starts(t) == halt = "no" /\ cpu = None /\ call[t] = Idle

\* file_read and file_write up to their first sleep.  i_size, where sys_read clips, is
\* left out: a read may start at any block.
ReadOrWrite(t) ==
    Starts(t) /\ \E i \in Inode, p \in Pos, op \in {"read", "write"} :
        /\ op = "write" => Alone(i)
        /\ WalkFrom(t, [Idle EXCEPT !.op = op, !.inode = i, !.pos = p, !.at = "walk", !.d = 1])

\* A zone with what an earlier file left in it.
Uncleared(b) == UNCHANGED data

\* clear_block.
Cleared(b) == data' = [data EXCEPT ![b] = Zero]

\* What is lost when the entry at path of inode i is overwritten.
Below(i, path) == {At(i, q) : q \in {r \in Paths : r = path \/ Above(path, r)}} \ {0}

\* The rest of new_block and the assignment to the slot in _bmap, whatever came
\* into the slot meanwhile.
NewBlock(t) ==
    /\ Runs(t, "alloc")
    /\ LET c    == call[t]
           path == Path(c.pos)
           none == [k \in Entry |-> 0]
       IN  IF Count(c.nr) # 0 THEN Panics("new block: count is != 1")
           ELSE /\ Cleared(c.nr)
                /\ IF c.d = 1
                   THEN /\ i_zone' = [i_zone EXCEPT ![c.inode][path[1]] = c.nr]
                        /\ ent' = [ent EXCEPT ![c.nr] = none]
                   ELSE /\ ent' = [ent EXCEPT ![c.nr] = none,
                                              ![CHOOSE b \in c.hold : TRUE][path[c.d]] = c.nr]
                        /\ UNCHANGED i_zone
                /\ lost' = lost \cup Below(c.inode, SubSeq(path, 1, c.d))
                /\ Follow(t, c, c.nr)
                /\ UNCHANGED <<zmap, errors, halt>>

\* The copy of file_read or file_write, and brelse; a write's data are named by its place.
Copy(t) ==
    /\ Runs(t, "data")
    /\ LET c == call[t]
       IN  data' = IF c.op = "read" THEN data ELSE [data EXCEPT ![c.nr] = <<c.inode, c.pos>>]
    /\ Returns(t)
    /\ UNCHANGED <<i_zone, ent, zmap, errors, halt, lost>>

\* bread returns no buffer for an indirect block or for the data: the call ends.
WalkFails(t) ==
    /\ Runs(t, "data") \/ (Runs(t, "walk") /\ call[t].d > 1)
    /\ errors < MaxErrors
    /\ errors' = errors + 1 /\ Returns(t)
    /\ UNCHANGED <<disk, halt, lost>>

----------------------------------------------------------------------------
\* truncate.

\* The number that an entry of truncate's walk contains: in the inode, or in the
\* block that is open above it.
Number(c, path) == IF Len(path) = 1 THEN i_zone[c.inode][path[1]]
                   ELSE ent[c.open[Len(path) - 1]][Last(path)]

\* block_busy of free_ind and free_dind.
BusyBelow(c, path) == \E q \in c.busy : Above(path, q)

\* free_block as far as get_hash_table.
FreeBlock(t, c, b) == Sleeps(t, [c EXCEPT !.nr = b, !.hold = @ \cup {b}, !.at = "freeing"])

\* The first item from n on that has something to free: the end of an indirect block
\* that is open, or an entry that is not 0; without one, the item behind the last.
NextItem(c, n) ==
    LET Due(m) == LET path == Order[m].path
                  IN  \/ Len(c.open) >= Len(path)
                      \/ Len(c.open) = Len(path) - 1 /\ Number(c, path) # 0
    IN  Min({m \in n .. Len(Order) : Due(m)} \cup {Len(Order) + 1})

\* The next entry.  An indirect block is read and held while the entries in it are
\* freed, then given back, and freed itself if none of them is busy.  Behind the last
\* entry, again from the start if something was busy, after a schedule().
VisitFrom(t, c) ==
    /\ LET n      == NextItem(c, c.n)
           path   == Order[n].path
           opened == Len(c.open) = Len(path)
           b      == IF opened THEN Last(c.open) ELSE Number(c, path)
           closed == [c EXCEPT !.n = n, !.open = IF opened THEN Front(@) ELSE @,
                               !.hold = IF opened THEN @ \ {b} ELSE @]
       IN  IF n \notin DOMAIN Order
           THEN IF c.busy # {} THEN Sleeps(t, [c EXCEPT !.n = 1, !.busy = {}]) ELSE Returns(t)
           ELSE IF Order[n].do = "open"
           THEN Bread(t, [c EXCEPT !.n = n + 1, !.open = Append(@, b)], b, "trunc")
           ELSE IF BusyBelow(c, path)
           THEN Goes(t, [closed EXCEPT !.busy = @ \cup {path}, !.n = n + 1])
           ELSE FreeBlock(t, closed, b)
    /\ UNCHANGED <<disk, errors, halt, lost>>

Visit(t) == Runs(t, "trunc") /\ VisitFrom(t, call[t])

Truncate(t) ==
    Starts(t) /\ \E i \in Inode :
        /\ Alone(i)
        /\ VisitFrom(t, [Idle EXCEPT !.op = "truncate", !.inode = i, !.at = "trunc", !.n = 1])

\* A free_block that does not look at b_count.
InUseIgnored(b) == FALSE

\* b_count > 1 in free_block, the caller's own count included.
InUse(b) == Count(b) > 1

\* The entry becomes 0 where free_block returned 1.
Emptied(c, path) ==
    IF Len(path) = 1 THEN i_zone' = [i_zone EXCEPT ![c.inode][path[1]] = 0] /\ UNCHANGED ent
    ELSE ent' = [ent EXCEPT ![c.open[Len(path) - 1]][Last(path)] = 0] /\ UNCHANGED i_zone

\* The rest of free_block.
Freed(t) ==
    /\ Runs(t, "freeing")
    /\ LET c    == call[t]
           path == Order[c.n].path
           next == [c EXCEPT !.at = "trunc", !.n = @ + 1, !.hold = @ \ {c.nr}, !.nr = 0]
           b    == c.nr
       IN  IF InUse(b)
           THEN Goes(t, [next EXCEPT !.busy = @ \cup {path}]) /\ UNCHANGED <<disk, errors, halt, lost>>
           ELSE IF b \notin zmap THEN Panics("free_block: bit already cleared")
           ELSE /\ zmap' = zmap \ {b}
                /\ Emptied(c, path)
                /\ lost' = lost \cup (Below(c.inode, path) \ {b})
                /\ Goes(t, next)
                /\ data' = [data EXCEPT ![b] = Junk]
                /\ UNCHANGED <<errors, halt>>

\* bread fails for an indirect block: its entries are passed over, and then it is
\* freed itself (truncate.c:15-33).
OpenFails(t) ==
    /\ Runs(t, "trunc") /\ errors < MaxErrors
    /\ call[t].n > 1 /\ call[t].n \in DOMAIN Order /\ Order[call[t].n - 1].do = "open"
    /\ LET c    == call[t]
           path == Order[c.n - 1].path
           b    == Last(c.open)
       IN  /\ c.open # <<>> /\ Len(c.open) = Len(path)
           /\ FreeBlock(t, [c EXCEPT !.open = Front(@), !.n = Turn(path)], b)
    /\ errors' = errors + 1
    /\ UNCHANGED <<disk, halt, lost>>

----------------------------------------------------------------------------
Next == \E t \in Task : \/ ReadOrWrite(t) \/ Truncate(t) \/ Getblk(t) \/ Walk(t) \/ NewBlock(t)
                        \/ Copy(t) \/ WalkFails(t) \/ Visit(t) \/ Freed(t) \/ OpenFails(t)

Spec == Init /\ [][Next]_vars

----------------------------------------------------------------------------
\* Properties.

Step == {"user", "walk", "alloc", "get", "data", "trunc", "freeing"}

\* Types: zones and entries within the device, and calls within their files.
TypeOK == /\ i_zone \in [Inode -> [0 .. NDIRECT + 1 -> 0 .. NZONES]]
          /\ ent \in [Zone -> [Entry -> 0 .. NZONES]]
          /\ data \in [Zone -> (Inode \X Pos) \cup {Zero, Junk}]
          /\ zmap \subseteq Zone /\ lost \subseteq Zone
          /\ errors \in 0 .. MaxErrors
          /\ cpu \in Task \cup {None}
          /\ \A t \in Task : /\ call[t].at \in Step /\ call[t].hold \subseteq Zone
                            /\ call[t].busy \subseteq Paths

Entries == {e \in Inode \X Paths : At(e[1], e[2]) # 0}
Taken == {call[t].nr : t \in {u \in Task : call[u].at = "alloc"}}

\* A zone whose bit is set is entered in exactly one place, or a new_block that sleeps
\* is about to enter it: no zone in two files, and none that is in use and free at
\* once.  None is lost but those below an indirect block that free_ind could not read
\* (truncate.c:15); free_block never finds its bit cleared, new_block's buffer is its
\* own (the panics of bitmap.c:71 and 103), and a reader or writer that has its buffer
\* has the block that the file leads to, or a lost one.
BlocksSound ==
    /\ TypeOK
    /\ \A e, f \in Entries : e # f => At(e[1], e[2]) # At(f[1], f[2])
    /\ zmap = {At(e[1], e[2]) : e \in Entries} \cup Taken \cup lost
    /\ lost # {} => errors > 0
    /\ halt = "no"
    /\ \A t \in Task : call[t].at = "data" /\ call[t].nr \notin lost
                        => At(call[t].inode, Path(call[t].pos)) = call[t].nr

\* The calls as the caller sees them: a read or write of the file's own block or
\* nothing, and a truncate that ends with an empty file.
FileOf(i) == [p \in Pos |-> LET b == At(i, Path(p)) IN IF b = 0 THEN Zero ELSE data[b]]

AbstractFiles == INSTANCE Files WITH
    file <- [i \in Inode |-> FileOf(i)],
    call <- [t \in Task |-> [op |-> call[t].op, inode |-> call[t].inode, pos |-> call[t].pos]]

\* The blocks implement Files: what is written to one block of a file changes no other
\* block of any file, a zone that comes from another file is empty (clear_block of
\* bitmap.c:72), and a truncate leaves nothing behind.
FilesSpec == AbstractFiles!Spec
==============================================================================
