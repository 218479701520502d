----------------------------- MODULE InodeCache -----------------------------
(***************************************************************************)
(* The table of in-core inodes of fs/inode.c (iget, iput, get_empty_inode, *)
(* read_inode, write_inode, sync_inodes), with new_inode and free_inode of *)
(* fs/bitmap.c.  The inodes have no hash chains: iget searches the table,  *)
(* and get_empty_inode takes unused slots in turn.                         *)
(*                                                                         *)
(* An inode's wait queue i_wait is part of the slot that memset clears, so *)
(* it is kept here as the chain of kernel/sched.c (see WaitQueue), not as  *)
(* the set WaitOps makes of it.  A task keeps the processor (cpu) until it *)
(* sleeps: on i_wait, or in bread for the block of the inode, or in        *)
(* truncate.  Of an inode's fields the model keeps i_nlinks, and of the    *)
(* name space the number of entries that name each inode.  A task holds    *)
(* one inode at a time.                                                    *)
(***************************************************************************)
EXTENDS Integers, FiniteSetsExt

CONSTANTS Task, None,
          NR_INODE,      \* the slots of inode_table
          Num,           \* the inode numbers of the device
          Named,         \* the ones that files have at the start
          MaxLinks,      \* bound: the entries that name one inode
          Changes,       \* what tasks do with inodes: of "link", "unlink", "new", "sync"
          StaleNames,    \* an inode's names may go while another task is on its way to it
          ReuseAwaited   \* a slot may be taken while a task woken from its queue
                         \* has not run yet

ASSUME NoneAssumption  == None \notin Task
ASSUME NumAssumption   == Num \subseteq Nat \ {0} /\ Named \subseteq Num
ASSUME SlotsAssumption == NR_INODE \in Nat \ {0}

Slot == 1 .. NR_INODE

VARIABLES inode,       \* inode_table
          i_wait,      \* the head of each inode's queue
          last_inode,  \* the slot get_empty_inode took last
          s_imap,      \* the numbers marked in the inode bitmap
          d_inode,     \* i_nlinks of each inode in its block
          named,       \* the directory entries for each number
          task,        \* where each task is
          tmp,         \* __sleep_on's tmp
          queued,      \* the tasks inside __sleep_on
          asleep,      \* those of them that are not runnable
          cpu          \* the task in the kernel that runs, if one does

chains == <<i_wait, tmp, queued, asleep>>
vars == <<inode, chains, last_inode, s_imap, d_inode, named, task, cpu>>

Empty == [num |-> 0, count |-> 0, nlinks |-> 0, dirt |-> FALSE, lock |-> FALSE]

\* The places where a task can be.
\*   user     outside the module, with the inode in hold or with none
\*   scan     in iget's loop          found   in iget, in wait_on_inode
\*   empty    in get_empty_inode      read    in read_inode, in bread
\*   put      in iput, in wait_on_inode
\*   lock     in write_inode, in lock_inode
\*   write    in write_inode, in bread
\*   truncate in iput, in truncate
\*   sync     in sync_inodes, in wait_on_inode
\*   panic    in panic()
AtInode == {"found", "put", "lock", "sync"}
Place == AtInode \cup {"user", "scan", "empty", "read", "write", "truncate", "panic"}
Idle == [at |-> "user", call |-> "none", num |-> 0, slot |-> 0, hold |-> 0]

Init == /\ inode = [s \in Slot |-> Empty]
        /\ i_wait = [s \in Slot |-> None]
        /\ last_inode = NR_INODE
        /\ s_imap = Named
        /\ d_inode = [n \in Num |-> IF n \in Named THEN 1 ELSE 0]
        /\ named = d_inode
        /\ task = [t \in Task |-> Idle]
        /\ tmp = [t \in Task |-> None]
        /\ queued = {} /\ asleep = {}
        /\ cpu = None

----------------------------------------------------------------------------
At(t, at) == cpu = t /\ task[t].at = at

\* t is past wait_on_inode or lock_inode for its slot.
AtUnlocked(t, at) == At(t, at) /\ ~inode[task[t].slot].lock

Goes(t, l)   == task' = [task EXCEPT ![t] = l] /\ cpu' = t
Sleeps(t, l) == task' = [task EXCEPT ![t] = l] /\ cpu' = None
Returns(t, h, n) == /\ task' = [task EXCEPT ![t] = [Idle EXCEPT !.hold = h, !.num = n]]
                    /\ cpu' = None

\* wake_up(&inode->i_wait).
WakeUp(s) == /\ asleep' = asleep \ {i_wait[s]}
             /\ UNCHANGED <<i_wait, tmp, queued>>

\* A sleep_on that loses the queue it found.
SleepOnAlone(t) ==
    LET s == task[t].slot
    IN  /\ cpu = t /\ task[t].at \in AtInode /\ inode[s].lock
        /\ i_wait' = [i_wait EXCEPT ![s] = t]
        /\ queued' = queued \cup {t} /\ asleep' = asleep \cup {t}
        /\ cpu' = None
        /\ UNCHANGED <<tmp, inode, last_inode, s_imap, d_inode, named, task>>

\* sleep_on(&inode->i_wait), while the inode is locked.
SleepOn(t) ==
    LET s == task[t].slot
    IN  /\ cpu = t /\ task[t].at \in AtInode /\ inode[s].lock
        /\ tmp' = [tmp EXCEPT ![t] = i_wait[s]]
        /\ i_wait' = [i_wait EXCEPT ![s] = t]
        /\ queued' = queued \cup {t} /\ asleep' = asleep \cup {t}
        /\ cpu' = None
        /\ UNCHANGED <<inode, last_inode, s_imap, d_inode, named, task>>

\* __sleep_on after schedule(): another task is the head.
ResumeBuried(t) ==
    LET s == task[t].slot
    IN  /\ cpu = None /\ t \in queued \ asleep
        /\ i_wait[s] # None /\ i_wait[s] # t
        /\ asleep' = (asleep \ {i_wait[s]}) \cup {t}
        /\ UNCHANGED <<inode, i_wait, tmp, queued, last_inode, s_imap, d_inode, named, task, cpu>>

\* __sleep_on after schedule(): the head goes, and wakes the next.
ResumeHead(t) ==
    LET s == task[t].slot
    IN  /\ cpu = None /\ t \in queued \ asleep
        /\ i_wait[s] = None \/ i_wait[s] = t
        /\ i_wait' = [i_wait EXCEPT ![s] = tmp[t]]
        /\ asleep' = asleep \ {tmp[t]}
        /\ tmp' = [tmp EXCEPT ![t] = None]
        /\ queued' = queued \ {t}
        /\ cpu' = t
        /\ UNCHANGED <<inode, last_inode, s_imap, d_inode, named, task>>

----------------------------------------------------------------------------
\* iget and get_empty_inode.

\* A task that looked up a name asks for its inode.
Iget(t, n) ==
    /\ cpu = None /\ task[t] = Idle /\ named[n] > 0
    /\ Goes(t, [Idle EXCEPT !.at = "scan", !.call = "iget", !.num = n])
    /\ UNCHANGED <<inode, chains, last_inode, s_imap, d_inode, named>>

\* The loop over the table, from behind the slot looked at last.
Scan(t) ==
    /\ At(t, "scan")
    /\ LET same == {s \in Slot : s > task[t].slot /\ inode[s].num = task[t].num}
       IN  IF same = {} THEN Goes(t, [task[t] EXCEPT !.at = "empty"])
           ELSE Goes(t, [task[t] EXCEPT !.at = "found", !.slot = Min(same)])
    /\ UNCHANGED <<inode, chains, last_inode, s_imap, d_inode, named>>

\* After the wait: the slot may hold another inode by now.
Found(t) ==
    LET s == task[t].slot
    IN  /\ AtUnlocked(t, "found")
        /\ IF inode[s].num = task[t].num
           THEN inode' = [inode EXCEPT ![s].count = @ + 1] /\ Returns(t, s, task[t].num)
           ELSE Goes(t, [task[t] EXCEPT !.at = "scan"]) /\ UNCHANGED inode
        /\ UNCHANGED <<chains, last_inode, s_imap, d_inode, named>>

\* A task that was woken from the slot's queue has not run yet, or one is in a
\* transfer of the inode.
Awaited(s) == \E t \in Task : t \in queued /\ task[t].slot = s

\* The slots that get_empty_inode may take (those with i_count 0 are clean and
\* not locked, IdleClean, so it never sleeps).
Available == {s \in Slot : inode[s].count = 0 /\ (ReuseAwaited \/ ~Awaited(s))}

\* The next of them, in turn.
Next_inode == LET after == {s \in Available : s > last_inode}
              IN  IF after = {} THEN Min(Available) ELSE Min(after)

\* get_empty_inode: memset clears the slot, its queue included.
Takes(s, content) ==
    /\ inode' = [inode EXCEPT ![s] = content]
    /\ i_wait' = [i_wait EXCEPT ![s] = None]
    /\ last_inode' = s
    /\ UNCHANGED <<tmp, queued, asleep>>

\* iget takes an unused slot, and read_inode locks it and sleeps in bread.
EmptySlot(t) ==
    /\ At(t, "empty") /\ Available # {}
    /\ Takes(Next_inode, [Empty EXCEPT !.num = task[t].num, !.count = 1, !.lock = TRUE])
    /\ Sleeps(t, [task[t] EXCEPT !.at = "read", !.slot = Next_inode])
    /\ UNCHANGED <<s_imap, d_inode, named>>

ReadInode(t) ==
    LET s == task[t].slot
    IN  /\ cpu = None /\ task[t].at = "read"
        /\ inode' = [inode EXCEPT ![s].nlinks = d_inode[inode[s].num], ![s].lock = FALSE]
        /\ WakeUp(s)
        /\ Returns(t, s, task[t].num)
        /\ UNCHANGED <<last_inode, s_imap, d_inode, named>>

----------------------------------------------------------------------------
\* write_inode, iput and sync_inodes.

\* What follows a write_inode: iput looks at the inode again, sync_inodes goes on.
NextSlot(t) == IF task[t].slot = NR_INODE THEN Returns(t, task[t].hold, task[t].num)
               ELSE Goes(t, [task[t] EXCEPT !.at = "sync", !.slot = @ + 1])
AfterWrite(t) == IF task[t].call = "iput" THEN Goes(t, [task[t] EXCEPT !.at = "put"])
                 ELSE NextSlot(t)

\* write_inode locks the inode and sleeps in bread, or finds nothing to write (which
\* only a lock that had to be waited for can bring about) and unlocks it again.
WriteLocks(t) ==
    LET s == task[t].slot
    IN  /\ AtUnlocked(t, "lock")
        /\ IF inode[s].dirt
           THEN /\ inode' = [inode EXCEPT ![s].lock = TRUE]
                /\ Sleeps(t, [task[t] EXCEPT !.at = "write"])
                /\ UNCHANGED chains
           ELSE WakeUp(s) /\ AfterWrite(t) /\ UNCHANGED inode
        /\ UNCHANGED <<last_inode, s_imap, d_inode, named>>

\* The inode is copied to its block.  (A slot that was freed meanwhile has no
\* block, and the copy goes astray.)
WriteInode(t) ==
    LET s == task[t].slot
    IN  /\ cpu = None /\ task[t].at = "write"
        /\ d_inode' = IF inode[s].num = 0 THEN d_inode
                      ELSE [d_inode EXCEPT ![inode[s].num] = inode[s].nlinks]
        /\ inode' = [inode EXCEPT ![s].dirt = FALSE, ![s].lock = FALSE]
        /\ WakeUp(s)
        /\ AfterWrite(t)
        /\ UNCHANGED <<last_inode, s_imap, named>>

Iput(t) ==
    /\ cpu = None /\ task[t].at = "user" /\ task[t].hold # 0
    /\ Goes(t, [task[t] EXCEPT !.at = "put", !.call = "iput", !.slot = task[t].hold])
    /\ UNCHANGED <<inode, chains, last_inode, s_imap, d_inode, named>>

\* iput after wait_on_inode, and again after each write.
Put(t) ==
    LET s == task[t].slot
        i == inode[s]
    IN  /\ AtUnlocked(t, "put")
        /\ \/ /\ i.count > 1 \/ (i.nlinks > 0 /\ ~i.dirt)
              /\ inode' = [inode EXCEPT ![s].count = @ - 1]
              /\ Returns(t, 0, 0)
           \/ /\ i.count <= 1 /\ i.nlinks = 0
              /\ inode' = [inode EXCEPT ![s].dirt = TRUE]
              /\ Sleeps(t, [task[t] EXCEPT !.at = "truncate"])
           \/ /\ i.count <= 1 /\ i.nlinks > 0 /\ i.dirt
              /\ Goes(t, [task[t] EXCEPT !.at = "lock"])
              /\ UNCHANGED inode
        /\ UNCHANGED <<chains, last_inode, s_imap, d_inode, named>>

\* truncate is done, and free_inode clears the slot, its queue included; or it
\* finds the inode in use or its number free, and panics.
FreeInode(t) ==
    LET s == task[t].slot
    IN  /\ cpu = None /\ task[t].at = "truncate"
        /\ IF inode[s].count > 1 \/ inode[s].nlinks > 0 \/ inode[s].num \notin s_imap
           THEN Goes(t, [task[t] EXCEPT !.at = "panic"]) /\ UNCHANGED <<inode, i_wait, s_imap>>
           ELSE /\ s_imap' = s_imap \ {inode[s].num}
                /\ inode' = [inode EXCEPT ![s] = Empty]
                /\ i_wait' = [i_wait EXCEPT ![s] = None]
                /\ Returns(t, 0, 0)
        /\ UNCHANGED <<tmp, queued, asleep, last_inode, d_inode, named>>

\* No inode in the table has lost its last name.
NoneNameless == \A s \in Slot : inode[s].num # 0 => named[inode[s].num] > 0

\* sync_inodes, which comes to every inode.
SyncInodes(t) ==
    /\ "sync" \in Changes /\ (StaleNames \/ NoneNameless)
    /\ cpu = None /\ task[t].at = "user"
    /\ Goes(t, [task[t] EXCEPT !.at = "sync", !.call = "sync", !.slot = 1])
    /\ UNCHANGED <<inode, chains, last_inode, s_imap, d_inode, named>>

SyncSlot(t) ==
    /\ AtUnlocked(t, "sync")
    /\ IF inode[task[t].slot].dirt THEN Goes(t, [task[t] EXCEPT !.at = "lock"]) ELSE NextSlot(t)
    /\ UNCHANGED <<inode, chains, last_inode, s_imap, d_inode, named>>

----------------------------------------------------------------------------
\* The callers: a new name, a name less, a new inode.  The entry and i_nlinks
\* change in one step here; that sys_link may sleep between them (in iput of the
\* directory) is not a matter of this table.

\* The task may come to inode n: it has looked a name up and is in iget, or it is
\* in sync_inodes.
OnItsWay(t, n) == (task[t].call = "iget" /\ task[t].num = n) \/ task[t].call = "sync"

\* sys_unlink finds a name of the inode.
NameGoes(n) == named[n] > 0 /\ (StaleNames \/ ~\E t \in Task : OnItsWay(t, n))

SetLinks(t, d) ==
    LET s == task[t].hold
    IN  /\ cpu = None /\ task[t].at = "user" /\ s # 0
        /\ inode[s].nlinks > 0
        /\ inode' = [inode EXCEPT ![s].nlinks = @ + d, ![s].dirt = TRUE]
        /\ named' = [named EXCEPT ![inode[s].num] = @ + d]
        /\ UNCHANGED <<chains, last_inode, s_imap, d_inode, task, cpu>>

Link(t)   == "link" \in Changes /\ task[t].hold # 0
             /\ inode[task[t].hold].nlinks < MaxLinks /\ SetLinks(t, 1)
Unlink(t) == "unlink" \in Changes /\ task[t].hold # 0
             /\ NameGoes(inode[task[t].hold].num) /\ SetLinks(t, -1)

\* new_inode, and the entry its caller makes for it.
NewInode(t, n) ==
    /\ "new" \in Changes
    /\ cpu = None /\ task[t] = Idle /\ n \notin s_imap /\ Available # {}
    /\ Takes(Next_inode, [Empty EXCEPT !.num = n, !.count = 1, !.nlinks = 1, !.dirt = TRUE])
    /\ s_imap' = s_imap \cup {n}
    /\ named' = [named EXCEPT ![n] = 1]
    /\ Returns(t, Next_inode, n)
    /\ UNCHANGED d_inode

----------------------------------------------------------------------------
Runs(t) == \/ SleepOn(t) \/ Scan(t) \/ Found(t) \/ EmptySlot(t)
           \/ WriteLocks(t) \/ Put(t) \/ SyncSlot(t)
Resume(t) == \/ ResumeBuried(t) \/ ResumeHead(t)
             \/ ReadInode(t) \/ WriteInode(t) \/ FreeInode(t)

Next == \E t \in Task : \/ Runs(t) \/ Resume(t)
                        \/ Iput(t) \/ SyncInodes(t) \/ Link(t) \/ Unlink(t)
                        \/ \E n \in Num : Iget(t, n) \/ NewInode(t, n)

Spec == Init /\ [][Next]_vars

----------------------------------------------------------------------------
\* Type invariant.
TypeOK ==
    /\ inode \in [Slot -> [num : Num \cup {0}, count : 0 .. Cardinality(Task),
                           nlinks : 0 .. MaxLinks, dirt : BOOLEAN, lock : BOOLEAN]]
    /\ i_wait \in [Slot -> Task \cup {None}]
    /\ last_inode \in Slot
    /\ s_imap \subseteq Num
    /\ d_inode \in [Num -> 0 .. MaxLinks] /\ named \in [Num -> 0 .. MaxLinks]
    /\ task \in [Task -> [at : Place, call : {"none", "iget", "iput", "sync"},
                          num : Num \cup {0}, slot : Slot \cup {0}, hold : Slot \cup {0}]]
    /\ tmp \in [Task -> Task \cup {None}]
    /\ queued \subseteq Task /\ asleep \subseteq queued
    /\ cpu \in Task \cup {None}

\* i_count is the number of tasks that hold the inode or read it in.
CountIsHolders ==
    \A s \in Slot : inode[s].count =
        Cardinality({t \in Task : task[t].hold = s \/ (task[t].at = "read" /\ task[t].slot = s)})

\* A task holds the inode it asked for, however long it slept in iget
\* (inode.c:227-232).
HoldsNamed == \A t \in Task : task[t].hold # 0 => inode[task[t].hold].num = task[t].num

\* No inode is in the table twice: iget, which sleeps between its search and the
\* end of read_inode, never reads in a second copy (inode.c:220-249).
OneInCore ==
    \A r, s \in Slot : inode[r].num = inode[s].num /\ inode[r].num # 0 => r = s

\* The link count that the next reader of an inode sees is the number of names:
\* in core if the inode is there, else in its block (iput, write_inode).
LinksKept ==
    \A n \in s_imap :
        IF \E s \in Slot : inode[s].num = n /\ ~(\E t \in Task : task[t].at = "read" /\ task[t].slot = s)
        THEN \A s \in Slot : inode[s].num = n =>
                inode[s].nlinks = named[n] /\ (~inode[s].dirt => d_inode[n] = named[n])
        ELSE d_inode[n] = named[n]

\* A number is marked in the bitmap exactly as long as a name or a task keeps the
\* inode: an inode whose last name went is freed by its last iput, and no earlier.
ImapRight ==
    \A n \in Num : n \in s_imap <=>
        named[n] > 0 \/ \E s \in Slot : inode[s].num = n /\ inode[s].count > 0

\* An inode that nobody holds is clean and not locked, so get_empty_inode can
\* take it without a wait (inode.c:193-198).
IdleClean == \A s \in Slot : inode[s].count = 0 => ~inode[s].dirt /\ ~inode[s].lock

\* A task that returns from schedule() in __sleep_on finds the queue not empty:
\* "Warning: *P = NULL" (sched.c:114-115) is never printed.
HeadNeverNull == \A t \in queued : i_wait[task[t].slot] # None

\* free_inode finds the inode unused and its number taken: none of its panics
\* (bitmap.c:157-168) is reached.
FreeInodeNeverPanics == \A t \in Task : task[t].at # "panic"

\* The table holds together while tasks sleep in the middle of every call: counts and
\* holders agree, nobody's inode becomes another, none is there twice, what nobody
\* holds can be taken at once, and no waiting task loses its queue.
TableSound ==
    TypeOK /\ CountIsHolders /\ HoldsNamed /\ OneInCore /\ IdleClean /\ HeadNeverNull

\* Table, inode blocks and bitmap agree with the name space, so an inode lives
\* exactly as long as a name or a task keeps it, with the link count it should have.
NamesKept == LinksKept /\ ImapRight /\ FreeInodeNeverPanics

\* No order of locking, sleeping, waking and clearing loses a sleeper of i_wait: a
\* locked inode is in a transfer that will unlock it, the head of an unlocked one's
\* queue is awake, and each sleeper is the head or on record with one that woke or
\* will wake (inode.c:16-36, sched.c:103-119).
NoSleeperLost ==
    /\ \A s \in Slot : inode[s].lock =>
          \E t \in Task : task[t].slot = s /\ task[t].at \in {"read", "write"}
    /\ \A t \in asleep :
          LET s == task[t].slot
          IN  /\ i_wait[s] = t \/ \E u \in queued : task[u].slot = s /\ tmp[u] = t
              /\ inode[s].lock \/ i_wait[s] \in queued \ asleep

\* The inode cache keeps its promises over every order of sleeps, wake-ups and calls: one
\* copy of an inode with the right count and links for its users, no sleeper lost.
InodesSound == TableSound /\ NamesKept /\ NoSleeperLost
============================================================================
