---------------------------- MODULE BufferCache ----------------------------
(***************************************************************************)
(* The buffer cache of fs/buffer.c on top of the request layer of          *)
(* kernel/blk_drv/ll_rw_blk.c, with the tasks that use it and the device   *)
(* that completes requests from its interrupt.                             *)
(*                                                                         *)
(* A task in the kernel keeps the processor (cpu) until it sleeps, so the  *)
(* steps of two tasks alternate only at wait_on_buffer, lock_buffer and    *)
(* the sleeps on buffer_wait and wait_for_request; the device's interrupt  *)
(* comes between any two steps.  Wait queues are values of WaitSet, which  *)
(* the chains of kernel/sched.c implement (WaitQueue).                     *)
(*                                                                         *)
(* A block that was written holds the number of the writes it has seen;    *)
(* content is that number with the block it belongs to, so that data in    *)
(* the wrong place shows.                                                  *)
(***************************************************************************)
EXTENDS SequencesExt, WaitOps, RequestQueue

CONSTANTS Task,         \* the tasks that use the cache
          NR_BUFFERS,   \* the buffer heads made by buffer_init
          NR_HASH,      \* the hash chains
          None,         \* a null pointer
          Writable,     \* the blocks that are written
          MaxWrites,    \* bound: how often each block is written
          Failures      \* the commands that may end in an I/O error

NoBlock == 0            \* b_dev = 0: the buffer holds no block
Hash    == 0 .. NR_HASH - 1

\* The requests' buffer heads are those of the cache, in the order of start_buffer.
ASSUME BufferAssumption == Buffer = 1 .. NR_BUFFERS

ASSUME CacheAssumption ==
    /\ NR_BUFFERS \in Nat \ {0} /\ NR_HASH \in Nat \ {0}
    /\ NoBlock \notin Block /\ MaxWrites \in Nat
    /\ Writable \subseteq Block /\ Failures \subseteq {0, 1}
    /\ None \notin Task /\ None \notin Buffer

VARIABLES
    bh,               \* bh[b]: blk (b_dev, b_blocknr), count, dirt, uptodate, lock
    data,             \* data[b]: what b_data holds
    sent,             \* sent[b]: its writes when the last request for b was made
    free_list,        \* the circular list from free_list on
    hash_table,       \* the hash chains
    b_wait,           \* b_wait[b]: the queue of buffer b
    buffer_wait,      \* the queue for a buffer nobody uses
    wait_for_request, \* the queue for a request slot
    disk,             \* disk[blk]: what the disk holds
    cpu,              \* the task in the kernel, or None
    task              \* task[t]: where t is, and its local variables

vars == <<bh, data, sent, free_list, hash_table, b_wait, buffer_wait, wait_for_request,
          request, chain, disk, cpu, task>>

cache == <<bh, data, sent, free_list, hash_table>>
queues == <<b_wait, buffer_wait, wait_for_request>>
device == <<request, chain, disk>>

\* b_count is one byte; a task counts in at most one buffer at a time, and there
\* are NR_TASKS of them (64).
ASSUME TaskAssumption == IsFiniteSet(Task) /\ Cardinality(Task) <= 255

Content == [blk : Block \cup {NoBlock}, writes : 0 .. MaxWrites]

\* The places where a task can be.
\*   user     outside the cache, with the buffer in hold or with none
\*   find     at the head of get_hash_table (also asleep on buffer_wait)
\*   found    in get_hash_table, in wait_on_buffer
\*   scan     in getblk, about to go through the free list
\*   victim   in getblk, in wait_on_buffer for the buffer it chose
\*   lock     in make_request, in lock_buffer
\*   slot     in make_request, about to look for a free slot
\*   read     in bread, in wait_on_buffer
\*   release  in brelse, in wait_on_buffer
\*   sync     in sys_sync, in wait_on_buffer
\*   panic    in panic()
AtBuffer == {"found", "victim", "lock", "read", "release", "sync"}
Place == AtBuffer \cup {"user", "find", "scan", "slot", "panic"}

\* at: the place; blk: the block asked for; b: the buffer at hand; tmp: getblk's
\* tmp; rw: the command for ll_rw_block; hold: the buffer bread returned.
Local == [at : Place, blk : Block \cup {NoBlock}, b : Buffer \cup {None},
          tmp : Buffer \cup {None}, rw : {READ, WRITE}, hold : Buffer \cup {None}]

Idle == [at |-> "user", blk |-> NoBlock, b |-> None, tmp |-> None,
         rw |-> READ, hold |-> None]

\* buffer_init, blk_dev_init.
Init ==
    /\ bh = [b \in Buffer |-> [blk |-> NoBlock, count |-> 0, dirt |-> FALSE,
                               uptodate |-> FALSE, lock |-> FALSE]]
    /\ data = [b \in Buffer |-> [blk |-> NoBlock, writes |-> 0]]
    /\ sent = [b \in Buffer |-> 0]
    /\ free_list = [b \in Buffer |-> b]
    /\ hash_table = [h \in Hash |-> <<>>]
    /\ b_wait = [b \in Buffer |-> EmptyQueue]
    /\ buffer_wait = EmptyQueue
    /\ wait_for_request = EmptyQueue
    /\ QueueInit
    /\ disk = [blk \in Block |-> [blk |-> blk, writes |-> 0]]
    /\ cpu = None
    /\ task = [t \in Task |-> Idle]

----------------------------------------------------------------------------
\* Finding and choosing buffers.

HashOf(blk) == blk % NR_HASH

\* A search that looks at the first buffer of the chain only.
FindBufferFirst(blk) ==
    LET c == hash_table[HashOf(blk)]
    IN  IF c # <<>> /\ bh[Head(c)].blk = blk THEN Head(c) ELSE None

\* find_buffer: the first buffer of the hash chain that holds blk, or None.
FindBuffer(blk) ==
    LET c == hash_table[HashOf(blk)]
        i == SelectInSeq(c, LAMBDA b : bh[b].blk = blk)
    IN  IF i = 0 THEN None ELSE c[i]

Badness(b) == (IF bh[b].dirt THEN 2 ELSE 0) + (IF bh[b].lock THEN 1 ELSE 0)

Unused == {b \in Buffer : bh[b].count = 0}

\* The buffer the loop over the free list chooses: the first of those with the
\* least badness.
Chosen == LET best == {b \in Unused : \A c \in Unused : Badness(b) <= Badness(c)}
          IN  free_list[SelectInSeq(free_list, LAMBDA b : b \in best)]

\* A scan that never breaks off.
ScanEndHead == Head(free_list)

\* getblk's tmp after the loop: where it broke off, or back at the list's head.
ScanEnd == IF Badness(Chosen) = 0 THEN Chosen ELSE Head(free_list)

InFront(b, rest) == <<b>> \o rest

\* A claim that leaves the buffer up to date.
ClaimedUptodate(b, blk) == [bh EXCEPT ![b] = [@ EXCEPT !.blk = blk, !.count = 1, !.dirt = FALSE]]

\* getblk's claim of buffer b for block blk.
Claimed(b, blk) ==
    [bh EXCEPT ![b] = [blk |-> blk, count |-> 1, dirt |-> FALSE, uptodate |-> FALSE, lock |-> @.lock]]

\* remove_from_queues, a new identity, and insert_into_queues, for buffer b.
Rename(b, blk) ==
    LET old  == bh[b].blk
        Out(c) == RemoveFirst(c, b)
    IN  /\ free_list' = Append(Out(free_list), b)
        /\ hash_table' = [h \in Hash |->
                LET rest == IF old # NoBlock /\ h = HashOf(old) THEN Out(hash_table[h])
                            ELSE hash_table[h]
                IN  IF h = HashOf(blk) THEN InFront(b, rest) ELSE rest]
        /\ bh' = Claimed(b, blk)
        /\ UNCHANGED <<data, sent>>

----------------------------------------------------------------------------
\* Steps of a task in the kernel.  b_count is one byte.

Counted(b)   == [bh EXCEPT ![b].count = (@ + 1) % 256]
Uncounted(b) == [bh EXCEPT ![b].count = (@ + 255) % 256]

Goes(t, l) == task' = [task EXCEPT ![t] = l] /\ cpu' = t
Returns(t, l) == task' = [task EXCEPT ![t] = l] /\ cpu' = None

At(t, place) == cpu = t /\ task[t].at = place
\* At a place behind wait_on_buffer, with the buffer unlocked.
AtUnlocked(t, place) == At(t, place) /\ ~bh[task[t].b].lock

\* An unlock that wakes nobody.
WakeNobody(b) == UNCHANGED b_wait

\* wake_up(&bh->b_wait).
Wake(b) == b_wait' = [b_wait EXCEPT ![b] = Woken(@)]

\* wait_on_buffer and lock_buffer: sleep while the buffer is locked.
SleepOnLock(t) ==
    LET b == task[t].b
    IN  /\ cpu = t /\ task[t].at \in AtBuffer /\ bh[b].lock
        /\ b_wait' = [b_wait EXCEPT ![b] = Joined(@, t)]
        /\ cpu' = None
        /\ UNCHANGED <<cache, buffer_wait, wait_for_request, device, task>>

\* A woken task gets the processor and looks again.  Nothing in the kernel wakes
\* wait_for_request, so there is no return from that queue.
Resume(t) ==
    /\ cpu = None
    /\ \/ \E b \in Buffer : /\ MayLeave(b_wait[b], t)
                            /\ b_wait' = [b_wait EXCEPT ![b] = Left(@, t)]
                            /\ UNCHANGED buffer_wait
       \/ /\ MayLeave(buffer_wait, t)
          /\ buffer_wait' = Left(buffer_wait, t)
          /\ UNCHANGED b_wait
    /\ cpu' = t
    /\ UNCHANGED <<cache, wait_for_request, device, task>>

\* bread(blk), entering getblk.
CallBread(t, blk) ==
    /\ cpu = None /\ task[t].at = "user" /\ task[t].hold = None
    /\ Goes(t, [task[t] EXCEPT !.at = "find", !.blk = blk])
    /\ UNCHANGED <<cache, queues, device>>

\* getblk returns buffer b to bread, which is done if it is up to date, for the
\* new value up of b_uptodate.
GetblkReturns(t, b, up) ==
    IF up THEN Returns(t, [Idle EXCEPT !.blk = task[t].blk, !.hold = b])
    ELSE Goes(t, [Idle EXCEPT !.at = "lock", !.blk = task[t].blk, !.b = b])

\* get_hash_table finds nothing.
FindMiss(t) ==
    /\ At(t, "find") /\ FindBuffer(task[t].blk) = None
    /\ Goes(t, [task[t] EXCEPT !.at = "scan"])
    /\ UNCHANGED <<cache, queues, device>>

\* get_hash_table finds a buffer and counts itself in before it waits.
FindHit(t) ==
    LET b == FindBuffer(task[t].blk)
    IN  /\ At(t, "find") /\ b # None
        /\ bh' = Counted(b)
        /\ Goes(t, [task[t] EXCEPT !.at = "found", !.b = b])
        /\ UNCHANGED <<data, sent, free_list, hash_table, queues, device>>

\* get_hash_table after the wait: the buffer may hold another block by now.
Found(t) ==
    LET b == task[t].b
    IN  /\ AtUnlocked(t, "found")
        /\ IF bh[b].blk = task[t].blk
           THEN GetblkReturns(t, b, bh[b].uptodate) /\ UNCHANGED bh
           ELSE /\ bh' = Uncounted(b)
                /\ Goes(t, [task[t] EXCEPT !.at = "find"])
        /\ UNCHANGED <<data, sent, free_list, hash_table, queues, device>>

\* getblk finds every buffer in use.
ScanNone(t) ==
    /\ At(t, "scan") /\ Unused = {}
    /\ buffer_wait' = Joined(buffer_wait, t)
    /\ Returns(t, [task[t] EXCEPT !.at = "find"])
    /\ UNCHANGED <<cache, b_wait, wait_for_request, device>>

\* getblk chooses a buffer.
Scan(t) ==
    /\ At(t, "scan") /\ Unused # {}
    /\ Goes(t, [task[t] EXCEPT !.at = "victim", !.b = Chosen, !.tmp = ScanEnd])
    /\ UNCHANGED <<cache, queues, device>>

\* getblk must start over: the chosen buffer is in use again, or the block has
\* come into the cache.
VictimTaken(t) == bh[task[t].b].count > 0 \/ FindBuffer(task[t].blk) # None

\* getblk after the wait for the chosen buffer: start over, or take the
\* buffer tmp.
Victim(t) ==
    /\ AtUnlocked(t, "victim")
    /\ IF VictimTaken(t)
       THEN Goes(t, [task[t] EXCEPT !.at = "find"]) /\ UNCHANGED cache
       ELSE /\ Rename(task[t].tmp, task[t].blk)
            /\ GetblkReturns(t, task[t].tmp, FALSE)
    /\ UNCHANGED <<queues, device>>

\* sys_sync turns to the next buffer, or is done.
NextBuffer(t) == IF task[t].b = NR_BUFFERS THEN Returns(t, Idle)
                 ELSE Goes(t, [task[t] EXCEPT !.at = "sync", !.b = @ + 1])

\* The caller of ll_rw_block goes on: bread waits for the read, sys_sync goes on
\* with its loop.
AfterIO(t) == IF task[t].rw = READ THEN Goes(t, [task[t] EXCEPT !.at = "read"])
              ELSE NextBuffer(t)

\* There is nothing to write, or the block has been read meanwhile.
Skips(t) == IF task[t].rw = WRITE THEN ~bh[task[t].b].dirt ELSE bh[task[t].b].uptodate

\* make_request locks the buffer; if there is nothing to do after all, it unlocks it
\* and returns (which only a lock that had to be waited for can bring about).
Lock(t) ==
    LET b == task[t].b
    IN  /\ AtUnlocked(t, "lock")
        /\ IF Skips(t)
           THEN AfterIO(t) /\ Wake(b) /\ UNCHANGED bh
           ELSE /\ bh' = [bh EXCEPT ![b].lock = TRUE]
                /\ Goes(t, [task[t] EXCEPT !.at = "slot"])
                /\ UNCHANGED b_wait
        /\ UNCHANGED <<data, sent, free_list, hash_table, buffer_wait, wait_for_request, device>>

\* make_request finds no slot: it sleeps with the buffer locked.
SlotNone(t) ==
    /\ At(t, "slot") /\ FreeSlots(task[t].rw) = {}
    /\ wait_for_request' = Joined(wait_for_request, t)
    /\ cpu' = None
    /\ UNCHANGED <<cache, b_wait, buffer_wait, device, task>>

\* make_request fills a slot and add_request links it.
TakeSlot(t) ==
    LET b == task[t].b
    IN  /\ At(t, "slot")
        /\ AddRequest(task[t].rw, bh[b].blk, b)
        /\ bh' = [bh EXCEPT ![b].dirt = FALSE]
        /\ sent' = [sent EXCEPT ![b] = data[b].writes]
        /\ AfterIO(t)
        /\ UNCHANGED <<data, free_list, hash_table, queues, disk>>

\* bread after the read: it returns the buffer, or gives it back on an error.
Read(t) ==
    LET b == task[t].b
    IN  /\ AtUnlocked(t, "read")
        /\ IF bh[b].uptodate
           THEN Returns(t, [Idle EXCEPT !.blk = task[t].blk, !.hold = b])
           ELSE Goes(t, [task[t] EXCEPT !.at = "release"])
        /\ UNCHANGED <<cache, queues, device>>

\* brelse(hold).
CallBrelse(t) ==
    /\ cpu = None /\ task[t].at = "user" /\ task[t].hold # None
    /\ Goes(t, [Idle EXCEPT !.at = "release", !.b = task[t].hold])
    /\ UNCHANGED <<cache, queues, device>>

PoolWoken  == Woken(buffer_wait)

\* brelse after the wait: it gives up the buffer and wakes those who need one; for
\* a buffer nobody uses it is panic("Trying to free free buffer").
Release(t) ==
    LET b == task[t].b
    IN  /\ AtUnlocked(t, "release")
        /\ IF bh[b].count > 0
           THEN bh' = Uncounted(b) /\ buffer_wait' = PoolWoken /\ Returns(t, Idle)
           ELSE Goes(t, [task[t] EXCEPT !.at = "panic"]) /\ UNCHANGED <<bh, buffer_wait>>
        /\ UNCHANGED <<data, sent, free_list, hash_table, b_wait, wait_for_request, device>>

Dirtied(b) == [bh EXCEPT ![b].dirt = TRUE]

\* The holder changes the block in its buffer, as file_write and the directory
\* and bitmap code do: the data and the dirty mark in one go.
Modify(t) ==
    LET b == task[t].hold
    IN  /\ cpu = None /\ task[t].at = "user" /\ b # None
        /\ task[t].blk \in Writable /\ data[b].writes < MaxWrites
        /\ data' = [data EXCEPT ![b].writes = @ + 1]
        /\ bh' = Dirtied(b)
        /\ UNCHANGED <<sent, free_list, hash_table, queues, device, cpu, task>>

\* sys_sync, the loop over the buffers.
CallSync(t) ==
    /\ cpu = None /\ Writable # {} /\ task[t].at = "user" /\ task[t].hold = None
    /\ Goes(t, [Idle EXCEPT !.at = "sync", !.b = 1, !.rw = WRITE])
    /\ UNCHANGED <<cache, queues, device>>

Sync(t) ==
    /\ AtUnlocked(t, "sync")
    /\ IF bh[task[t].b].dirt THEN Goes(t, [task[t] EXCEPT !.at = "lock"]) ELSE NextBuffer(t)
    /\ UNCHANGED <<cache, queues, device>>

\* end_request: the buffer is up to date if the device says so, and unlocked.
Answered(b, ok) == [bh EXCEPT ![b].uptodate = ok, ![b].lock = FALSE]

\* The interrupt that completes the current request of device m: end_request.  A
\* holder may have changed the buffer while it was on its way to the disk; v says
\* which of the versions since the request arrived there.
Complete(m, ok, v) ==
    LET r == Current(m)
    IN  /\ chain[m] # <<>>
        /\ ok \/ r.cmd \in Failures
        /\ v \in sent[r.bh] .. data[r.bh].writes
        /\ data' = IF ok /\ r.cmd = READ THEN [data EXCEPT ![r.bh] = disk[r.block]] ELSE data
        /\ disk' = IF ok /\ r.cmd = WRITE 
                    THEN [disk EXCEPT ![r.block] = [data[r.bh] EXCEPT !.writes = v]]
                    ELSE disk
        /\ bh' = Answered(r.bh, ok)
        /\ Wake(r.bh)
        /\ EndRequest(m)
        /\ UNCHANGED <<sent, free_list, hash_table, buffer_wait, wait_for_request, cpu, task>>

\* What a task does by itself once it has the processor.
KernelStep(t) == \/ SleepOnLock(t) \/ FindMiss(t) \/ FindHit(t) \/ Found(t)
                 \/ ScanNone(t) \/ Scan(t) \/ Victim(t) \/ Lock(t)
                 \/ SlotNone(t) \/ TakeSlot(t) \/ Read(t) \/ Release(t)
                 \/ Sync(t)

Next == \/ \E t \in Task : \/ \E blk \in Block : CallBread(t, blk)
                           \/ CallBrelse(t) \/ Modify(t) \/ CallSync(t)
                           \/ Resume(t) \/ KernelStep(t)
        \/ \E m \in Major, ok \in BOOLEAN, v \in 0 .. MaxWrites : Complete(m, ok, v)

Spec == Init /\ [][Next]_vars

\* A task in the kernel runs on; schedule() comes to every runnable task in the
\* end, and a holder gives its buffer back; the device answers every command.
FairSpec ==
    /\ Spec
    /\ \A t \in Task : WF_vars(KernelStep(t)) /\ SF_vars(Resume(t) \/ CallBrelse(t))
    /\ \A m \in Major : WF_vars(\E ok \in BOOLEAN, v \in 0 .. MaxWrites : Complete(m, ok, v))

----------------------------------------------------------------------------
\* Type invariant.
TypeOK ==
    /\ bh \in [Buffer -> [blk : Block \cup {NoBlock}, count : 0 .. 255,
                          dirt : BOOLEAN, uptodate : BOOLEAN, lock : BOOLEAN]]
    /\ data \in [Buffer -> Content]
    /\ sent \in [Buffer -> 0 .. MaxWrites]
    /\ free_list \in Seq(Buffer)
    /\ hash_table \in [Hash -> Seq(Buffer)]
    /\ b_wait \in [Buffer -> QueueOf(Task)]
    /\ buffer_wait \in QueueOf(Task)
    /\ wait_for_request \in QueueOf(Task)
    /\ QueueTypeOK
    /\ disk \in [Block -> Content]
    /\ cpu \in Task \cup {None}
    /\ task \in [Task -> Local]

\* The task uses buffer b, by its count in b_count.
Uses(t, b) == \/ task[t].hold = b
              \/ task[t].b = b /\ task[t].at \in {"found", "read", "release"}
              \/ task[t].b = b /\ task[t].at \in {"lock", "slot"} /\ task[t].rw = READ

\* The task relies on buffer b to be the one of the block it asked for.
ReliesOn(t, b) == Uses(t, b) /\ task[t].at \in {"user", "lock", "slot", "read"}

\* The count of a buffer is the number of its users, at every point of every
\* interleaving; so brelse never finds it zero (getblk, bread, brelse).
CountIsUsers ==
    \A b \in Buffer : bh[b].count = Cardinality({t \in Task : Uses(t, b)})

\* A buffer does not change its identity under a task that got it from getblk.
HeldIdentity ==
    \A t \in Task, b \in Buffer : ReliesOn(t, b) => bh[b].blk = task[t].blk

\* What bread returned holds the data of the block it was asked for.
HeldData ==
    \A t \in Task : task[t].hold # None =>
        /\ bh[task[t].hold].uptodate
        /\ data[task[t].hold].blk = task[t].blk

\* No block is ever in two buffers, though getblk sleeps between its search of
\* the cache and the claim of a buffer (buffer.c:130-163).
OneBufferPerBlock ==
    \A b, c \in Buffer : bh[b].blk = bh[c].blk /\ bh[b].blk # NoBlock => b = c

\* The lists stay whole: the free list has every buffer once, and a hash chain
\* has once each of the buffers whose block belongs there.
ListsIntact ==
    /\ Len(free_list) = NR_BUFFERS /\ ToSet(free_list) = Buffer
    /\ \A h \in Hash :
        /\ ToSet(hash_table[h]) =
               {b \in Buffer : bh[b].blk # NoBlock /\ HashOf(bh[b].blk) = h}
        /\ Len(hash_table[h]) = Cardinality(ToSet(hash_table[h]))

\* A buffer is locked exactly while a task is about to make its request or the
\* device has it, and the device has at most one request for a buffer.
PendingFor(b) == {s \in Pending : request[s].bh = b}
Preparing(b)  == {t \in Task : task[t].at = "slot" /\ task[t].b = b}
LockHasOwner ==
    \A b \in Buffer :
        Cardinality(PendingFor(b)) + Cardinality(Preparing(b)) = (IF bh[b].lock THEN 1 ELSE 0)

\* The device works for the block the buffer still stands for.
RequestFitsBuffer ==
    \A s \in Pending : request[s].block = bh[request[s].bh].blk

\* The bookkeeping of the cache holds together at every point of every interleaving:
\* counts, lists and hash chains, locks and requests.  In particular brelse never
\* finds a count of zero, which is its panic (buffer.c:181-182), no block is ever in
\* two buffers, though getblk sleeps between its search and its claim, and the device
\* never works on a buffer that has become another block's.
Consistent ==
    TypeOK /\ CountIsUsers /\ ListsIntact /\ OneBufferPerBlock /\ LockHasOwner
    /\ RequestFitsBuffer

\* A task that holds a buffer across its sleeps still has the block it asked for in
\* it, and once bread has returned the buffer, that block's data (buffer.c:186-200).
HeldBuffers == HeldIdentity /\ HeldData

\* A buffer that is up to date, clean and not in the device's hands has what the
\* disk has.
CleanMatchesDisk ==
    \A b \in Buffer : bh[b].uptodate /\ ~bh[b].dirt /\ ~bh[b].lock =>
        data[b] = disk[bh[b].blk]

\* The newest version of a block, on disk or in a valid buffer.
Newest(blk) == Max({disk[blk].writes} \cup
                   {data[b].writes : b \in {c \in Buffer : bh[c].uptodate /\ data[c].blk = blk}})

\* No write is forgotten: the newest version never disappears before a newer one.
\* (Where every unused buffer is dirty or locked this does not hold: getblk's loop
\* that would write a dirty one back is commented out, buffer.c:154-159, and tmp
\* may then be any buffer; see the README.)
NoWriteForgotten == [][\A blk \in Block : Newest(blk) <= Newest(blk)']_vars

\* The request layer sees no second request for a block that has one pending,
\* and every step on it is one of its own.
RequestLayer == QueueSpec

\* Every sleeper runs again: no order of locking, sleeping and completing loses a
\* wake-up, though the sleeper may find its buffer locked anew or its pool empty.
\* Nothing wakes wait_for_request (ll_rw_blk.c:92): a task that sleeps there, and
\* those who need the buffer it has locked, sleep on.
Asleep(t) == \/ t \in buffer_wait.waiting
             \/ \E b \in Buffer : t \in b_wait[b].waiting
NoSleeperForgotten ==
    <>(wait_for_request.waiting # {}) \/ \A t \in Task : Asleep(t) ~> ~Asleep(t)

\* A task that waits for a free buffer runs again once one is released: it never
\* sleeps while a buffer is unused and no wake-up is on its way.
NoLostBuffer == buffer_wait.waiting # {} /\ Unused # {} => buffer_wait.signalled

\* The cache holds together while tasks sleep in the middle of its calls: its lists, counts
\* and locks agree with their users, nobody's buffer becomes another block's, and nobody
\* waits for a buffer while there is one (buffer.c:91-170, 174-189).
CacheSound == Consistent /\ HeldBuffers /\ NoLostBuffer
============================================================================
