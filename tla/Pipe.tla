-------------------------------- MODULE Pipe --------------------------------
(***************************************************************************)
(* One pipe: read_pipe and write_pipe (fs/pipe.c), the inode sys_pipe and  *)
(* get_pipe_inode make, and what fork, close and exit do to its two open   *)
(* files (kernel/fork.c, fs/open.c, fs/inode.c iput).                      *)
(*                                                                         *)
(* A task that is in the kernel keeps the processor (cpu) until it sleeps. *)
(* It sleeps on one of the inode's queues, or in the page fault that       *)
(* get_fs_byte or put_fs_byte causes if the page of the caller's buffer    *)
(* must first be read from the disk; head or tail have moved by then.      *)
(***************************************************************************)
EXTENDS Integers, Sequences, FiniteSetsExt, WaitOps

CONSTANTS Task,       \* the processes
          Creator,    \* the one that calls sys_pipe
          None,       \* no process
          PAGE_SIZE,  \* the size of the ring
          Counts,     \* the counts that callers ask for
          MaxBytes,   \* bound: the bytes written in all
          MaxFaults   \* bound: the copies that fault and sleep

ASSUME CreatorAssumption == Creator \in Task /\ None \notin Task
ASSUME PageAssumption    == PAGE_SIZE \in Nat \ {0, 1}
ASSUME CountsAssumption  == Counts \subseteq Nat \ {0} /\ MaxFaults \in Nat

End == {"read", "write"}

VARIABLES head, tail,   \* PIPE_HEAD, PIPE_TAIL
          page,         \* the bytes of the ring, each by its number in the stream
          i_count,      \* the inode's count
          read_wait,    \* i_wait
          write_wait,   \* i_wait2
          holds,        \* holds[t]: the ends that t has open
          born,         \* the processes that exist or existed
          signal,       \* the processes with a signal pending
          task,         \* where each process is
          cpu,          \* the process in the kernel that runs, if one does
          sent,         \* the bytes written so far
          got,          \* the bytes read so far
          faults        \* the copies that have slept so far

ring  == <<head, tail, page, sent, got>>
ends  == <<i_count, holds, born>>
queues == <<read_wait, write_wait>>
vars  == <<ring, ends, queues, signal, task, cpu, faults>>

Place == {"user", "read", "read_sleep", "read_copy", "write", "write_sleep", "write_copy"}

\* count: still to move; done: moved; chars, from: the chunk in a copy.
Idle == [at |-> "user", count |-> 0, done |-> 0, chars |-> 0, from |-> 0]

\* sys_pipe: both ends are the creator's.
Init == /\ head = 0 /\ tail = 0
        /\ page = [i \in 0 .. PAGE_SIZE - 1 |-> 0]
        /\ i_count = 2
        /\ read_wait = EmptyQueue /\ write_wait = EmptyQueue
        /\ holds = [t \in Task |-> IF t = Creator THEN End ELSE {}]
        /\ born = {Creator}
        /\ signal = {}
        /\ task = [t \in Task |-> Idle]
        /\ cpu = None
        /\ sent = 0 /\ got = <<>> /\ faults = 0

----------------------------------------------------------------------------
\* PIPE_SIZE.
Size == (PAGE_SIZE + head - tail) % PAGE_SIZE

Least(a, b) == IF a <= b THEN a ELSE b

\* The room that write_pipe sees.
Room == (PAGE_SIZE - 1) - Size

\* The bytes from place i on.
Bytes(i, n) == [k \in 1 .. n |-> page[i + k - 1]]

\* The ring with n bytes from number s on, put from place i on.
Filled(i, n, s) == [k \in DOMAIN page |-> IF k \in i .. i + n - 1 THEN s + (k - i) ELSE page[k]]

\* The processes at a place, and the sum of a number of theirs.
In(at) == {t \in Task : task[t].at = at}
SumOver(Of(_), S) == MapThenSumSet(Of, S)

Running(t, at) == cpu = t /\ task[t].at = at

\* t goes on in the kernel; t returns to its caller.
Goes(t, l)  == task' = [task EXCEPT ![t] = l] /\ cpu' = t
Returns(t)  == task' = [task EXCEPT ![t] = Idle] /\ cpu' = None
Sleeps(t, at) == task' = [task EXCEPT ![t].at = at] /\ cpu' = None

----------------------------------------------------------------------------
\* Processes, their ends of the pipe, and signals.

\* copy_process: the child has its parent's open files and pending signals.
Fork(t, u) ==
    /\ cpu = None /\ t \in born /\ u \notin born /\ task[t].at = "user"
    /\ born' = born \cup {u}
    /\ holds' = [holds EXCEPT ![u] = holds[t]]
    /\ signal' = IF t \in signal THEN signal \cup {u} ELSE signal
    /\ UNCHANGED <<ring, i_count, queues, task, cpu, faults>>

\* A close that counts the inode down for every process.
CloseCountsEach(t, e) ==
    /\ cpu = None /\ task[t].at = "user" /\ e \in holds[t]
    /\ holds' = [holds EXCEPT ![t] = @ \ {e}]
    /\ i_count' = i_count - 1
    /\ UNCHANGED <<ring, born, queues, signal, task, cpu, faults>>

\* sys_close, also by do_exit: the last close of the file gives up the inode;
\* iput only counts, because a pipe has no device.
Close(t, e) ==
    /\ cpu = None /\ task[t].at = "user" /\ e \in holds[t]
    /\ holds' = [holds EXCEPT ![t] = @ \ {e}]
    /\ i_count' = IF \E u \in Task \ {t} : e \in holds[u] THEN i_count ELSE i_count - 1
    /\ UNCHANGED <<ring, born, queues, signal, task, cpu, faults>>

\* A signal that is not blocked; schedule() wakes an interruptible sleeper.
\* Nothing in the kernel takes the signal away again.
Signal(t) ==
    /\ cpu = None /\ t \in born \ signal
    /\ signal' = signal \cup {t}
    /\ read_wait' = IF t \in read_wait.waiting THEN Woken(read_wait) ELSE read_wait
    /\ UNCHANGED <<ring, ends, write_wait, task, cpu, faults>>

----------------------------------------------------------------------------
\* read_pipe.

Read(t, n) ==
    /\ cpu = None /\ task[t].at = "user" /\ "read" \in holds[t]
    /\ Goes(t, [Idle EXCEPT !.at = "read", !.count = n])
    /\ UNCHANGED <<ring, ends, queues, signal, faults>>

\* The pipe is empty: return if there is no writer or a signal is pending, else
\* sleep.
ReadEmpty(t) ==
    /\ Running(t, "read") /\ task[t].count > 0 /\ Size = 0
    /\ write_wait' = Woken(write_wait)
    /\ IF i_count # 2 \/ t \in signal
       THEN Returns(t) /\ UNCHANGED read_wait
       ELSE Sleeps(t, "read_sleep") /\ read_wait' = Joined(read_wait, t)
    /\ UNCHANGED <<ring, ends, signal, faults>>

ReadWakes(t) ==
    /\ cpu = None /\ task[t].at = "read_sleep" /\ MayLeave(read_wait, t)
    /\ read_wait' = Left(read_wait, t)
    /\ Goes(t, [task[t] EXCEPT !.at = "read"])
    /\ UNCHANGED <<ring, ends, write_wait, signal, faults>>

\* The chunk: not past the end of the page, the count or what is there.
ReadChars(t) == Least(PAGE_SIZE - tail, Least(task[t].count, Size))

\* The loop after a chunk of n bytes.
AfterChunk(l, n) == [l EXCEPT !.count = @ - n, !.done = @ + n]

\* A chunk is copied to a buffer that is present.
ReadChunk(t) ==
    /\ Running(t, "read") /\ task[t].count > 0 /\ Size # 0
    /\ got' = got \o Bytes(tail, ReadChars(t))
    /\ tail' = (tail + ReadChars(t)) % PAGE_SIZE
    /\ Goes(t, AfterChunk(task[t], ReadChars(t)))
    /\ UNCHANGED <<head, page, sent, ends, queues, signal, faults>>

\* The tail moves, and put_fs_byte faults and sleeps.
ReadChunkFaults(t) ==
    /\ faults < MaxFaults /\ faults' = faults + 1
    /\ Running(t, "read") /\ task[t].count > 0 /\ Size # 0
    /\ tail' = (tail + ReadChars(t)) % PAGE_SIZE
    /\ task' = [task EXCEPT ![t] = [AfterChunk(@, ReadChars(t)) EXCEPT
                                      !.at = "read_copy", !.chars = ReadChars(t), !.from = tail]]
    /\ cpu' = None
    /\ UNCHANGED <<head, page, sent, got, ends, queues, signal>>

\* The page is there: the bytes that are in the ring by now are copied.
ReadCopies(t) ==
    /\ cpu = None /\ task[t].at = "read_copy"
    /\ got' = got \o Bytes(task[t].from, task[t].chars)
    /\ Goes(t, [task[t] EXCEPT !.at = "read", !.chars = 0, !.from = 0])
    /\ UNCHANGED <<head, tail, page, sent, ends, queues, signal, faults>>

ReadDone(t) ==
    /\ Running(t, "read") /\ task[t].count = 0
    /\ write_wait' = Woken(write_wait)
    /\ Returns(t)
    /\ UNCHANGED <<ring, ends, read_wait, signal, faults>>

----------------------------------------------------------------------------
\* write_pipe.

Write(t, n) ==
    /\ cpu = None /\ task[t].at = "user" /\ "write" \in holds[t]
    /\ sent + n + SumOver(LAMBDA u : task[u].count, In("write_sleep") \cup In("write_copy")) <= MaxBytes
    /\ Goes(t, [Idle EXCEPT !.at = "write", !.count = n])
    /\ UNCHANGED <<ring, ends, queues, signal, faults>>

\* The pipe is full: fail with SIGPIPE if there is no reader, else sleep.
WriteFull(t) ==
    /\ Running(t, "write") /\ task[t].count > 0 /\ Room = 0
    /\ read_wait' = Woken(read_wait)
    /\ IF i_count # 2
       THEN Returns(t) /\ signal' = signal \cup {t} /\ UNCHANGED write_wait
       ELSE Sleeps(t, "write_sleep") /\ write_wait' = Joined(write_wait, t) /\ UNCHANGED signal
    /\ UNCHANGED <<ring, ends, faults>>

WriteWakes(t) ==
    /\ cpu = None /\ task[t].at = "write_sleep" /\ MayLeave(write_wait, t)
    /\ write_wait' = Left(write_wait, t)
    /\ Goes(t, [task[t] EXCEPT !.at = "write"])
    /\ UNCHANGED <<ring, ends, read_wait, signal, faults>>

WriteChars(t) == Least(PAGE_SIZE - head, Least(task[t].count, Room))

\* A chunk is copied from a buffer that is present.
WriteChunk(t) ==
    /\ Running(t, "write") /\ task[t].count > 0 /\ Room # 0
    /\ page' = Filled(head, WriteChars(t), sent + 1)
    /\ head' = (head + WriteChars(t)) % PAGE_SIZE
    /\ sent' = sent + WriteChars(t)
    /\ Goes(t, AfterChunk(task[t], WriteChars(t)))
    /\ UNCHANGED <<tail, got, ends, queues, signal, faults>>

\* The head moves, and get_fs_byte faults and sleeps.  (done keeps the number
\* of the chunk's first byte.)
WriteChunkFaults(t) ==
    /\ faults < MaxFaults /\ faults' = faults + 1
    /\ Running(t, "write") /\ task[t].count > 0 /\ Room # 0
    /\ head' = (head + WriteChars(t)) % PAGE_SIZE
    /\ sent' = sent + WriteChars(t)
    /\ task' = [task EXCEPT ![t] = [task[t] EXCEPT !.at = "write_copy", !.count = @ - WriteChars(t),
                                             !.done = sent + 1,
                                             !.chars = WriteChars(t), !.from = head]]
    /\ cpu' = None
    /\ UNCHANGED <<tail, page, got, ends, queues, signal>>

WriteCopies(t) ==
    /\ cpu = None /\ task[t].at = "write_copy"
    /\ page' = Filled(task[t].from, task[t].chars, task[t].done)
    /\ Goes(t, [task[t] EXCEPT !.at = "write", !.chars = 0, !.from = 0])
    /\ UNCHANGED <<head, tail, sent, got, ends, queues, signal, faults>>

\* A writer that tells nobody.
WriteDoneSilent(t) ==
    /\ Running(t, "write") /\ task[t].count = 0
    /\ Returns(t)
    /\ UNCHANGED <<ring, ends, queues, signal, faults>>

WriteDone(t) ==
    /\ Running(t, "write") /\ task[t].count = 0
    /\ read_wait' = Woken(read_wait)
    /\ Returns(t)
    /\ UNCHANGED <<ring, ends, write_wait, signal, faults>>

----------------------------------------------------------------------------
KernelStep(t) == \/ ReadEmpty(t) \/ ReadWakes(t) \/ ReadChunk(t) \/ ReadChunkFaults(t)
                 \/ ReadCopies(t) \/ ReadDone(t)
                 \/ WriteFull(t) \/ WriteWakes(t) \/ WriteChunk(t) \/ WriteChunkFaults(t)
                 \/ WriteCopies(t) \/ WriteDone(t)

Next == \E t \in Task :
          \/ \E u \in Task : Fork(t, u)
          \/ \E e \in End : Close(t, e)
          \/ Signal(t)
          \/ \E n \in Counts : Read(t, n) \/ Write(t, n)
          \/ KernelStep(t)

Spec == Init /\ [][Next]_vars

----------------------------------------------------------------------------
\* Type invariant.
TypeOK ==
    /\ head \in 0 .. PAGE_SIZE - 1 /\ tail \in 0 .. PAGE_SIZE - 1
    /\ page \in [0 .. PAGE_SIZE - 1 -> Nat]
    /\ i_count \in 0 .. 2
    /\ read_wait \in QueueOf(Task) /\ write_wait \in QueueOf(Task)
    /\ holds \in [Task -> SUBSET End]
    /\ born \subseteq Task /\ signal \subseteq Task
    /\ task \in [Task -> [at : Place, count : Nat, done : Nat,
                          chars : 0 .. PAGE_SIZE - 1, from : 0 .. PAGE_SIZE - 1]]
    /\ cpu \in Task \cup {None}
    /\ sent \in Nat /\ got \in Seq(Nat)
    /\ faults \in 0 .. MaxFaults

\* The bytes that readers have taken from the ring and not copied yet, each by its
\* reader and its place in the chunk.
InFlight == {c \in Task \X (1 .. PAGE_SIZE) : task[c[1]].at = "read_copy" /\ c[2] <= task[c[1]].chars}

\* No byte is lost or counted twice: every byte written is read, in the ring, or
\* on its way to a reader's buffer (pipe.c:22-33, 51-62).  And the bytes come out
\* in the order they went in, whatever the chunks of the writers and the readers
\* are, as long as no copy has slept: what one test of the repository prints as
\* received is what it wrote (tools/tcc/test/pipe.c:17, 34).  Once a copy has
\* slept the order is lost, see the README.
BytesConserved == sent = Len(got) + Size + Cardinality(InFlight)
InOrder        == got = [k \in 1 .. Len(got) |-> k]
Stream         == TypeOK /\ BytesConserved /\ (faults = 0 => InOrder)

\* Nobody sleeps through what he waits for: a reader sleeps, with no wake-up on
\* the way, only while the pipe is empty, and a writer only while it is full,
\* or a task that has moved bytes is still in its call and will wake the
\* sleepers when it is done (pipe.c:15, 35, 44, 64).
NobodySleepsOn ==
    cpu = None =>
        /\ read_wait.waiting # {} /\ ~read_wait.signalled =>
              Size = 0 \/ \E t \in Task : task[t].at = "write_copy"
        /\ write_wait.waiting # {} /\ ~write_wait.signalled =>
              Room = 0 \/ \E t \in Task : task[t].at = "read_copy"

\* The pipe delivers: no byte is lost or overtaken, and nobody sleeps while there is
\* something for him to do (pipe.c:11-68).
PipeSound == Stream /\ NobodySleepsOn

\* The task returns with less than it was asked for.
Short(t) == cpu = t /\ cpu' = None /\ task'[t].at = "user" /\ task[t].count > 0

\* Though each call looks at the inode's count only, over every order of forks
\* and closes a read falls short only if nobody is left to write or a signal is
\* pending ("are there any writers?", pipe.c:16), and a write only if nobody is
\* left to read ("no readers", pipe.c:45).
ShortCallsRight ==
    [][\A t \in Task : Short(t) =>
          \/ task[t].at = "read" /\ (t \in signal \/ \A u \in Task : "write" \notin holds[u])
          \/ task[t].at = "write" /\ \A u \in Task : "read" \notin holds[u]]_vars
============================================================================
