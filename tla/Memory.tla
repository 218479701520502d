------------------------------- MODULE Memory -------------------------------
(***************************************************************************)
(* Paging: mm/memory.c and mm/swap.c, with what fork, exec and exit do to  *)
(* page tables and frames.                                                 *)
(*                                                                         *)
(* A task has two page tables here: one at the bottom of its 64 MB, for    *)
(* the pages of its program file, and one at the top, for the pages of its *)
(* stack.  The frames are those above LOW_MEM that mem_init frees; task 0  *)
(* and its kernel pages, which mem_map does not count, and the library are *)
(* left out.  A task runs until it sleeps, in bread_page (do_no_page) or   *)
(* in iput and sys_close (do_execve), so all else is one step.             *)
(*                                                                         *)
(* view and lost are history variables: what each task must find in its    *)
(* pages, and the entries of a page table that put_page overwrote.         *)
(***************************************************************************)
EXTENDS Integers, FiniteSetsExt

CONSTANTS NR_TASKS,     \* the slots of task[]
          Exe, None,    \* program files
          Text, Stack,  \* pages of a task: of its program, of its stack
          Pages,        \* the number of frames
          MAP_SIZE,     \* what an entry of mem_map wraps at (an unsigned char)
          MaxImages,    \* bound: the number of forks and execs
          KernelWrites  \* the kernel writes to user pages (sys_read, read_pipe)

\* mem_map has room for a user in each task; the first task has its structure, a table and a
\* page of arguments.
ASSUME SizesAssumption == /\ {NR_TASKS, Pages, MAP_SIZE} \subseteq Nat \ {0}
                          /\ MAP_SIZE > NR_TASKS /\ Pages > 2 /\ MaxImages \in Nat
ASSUME AddrAssumption == Text \cap Stack = {} /\ Stack # {} /\ Exe # {} /\ None \notin Exe

Task == 1 .. NR_TASKS
Addr == Text \cup Stack
Dir  == {"bottom", "top"}
DirOf(a) == IF a \in Text THEN "bottom" ELSE "top"
Frame == 1 .. Pages

\* The page that do_execve puts the arguments in.
ArgPage == CHOOSE a \in Stack : TRUE

VARIABLES mem_map,     \* the count of users of each frame
          dir,         \* the frame of each page table, or 0
          pte,         \* the entries of the page tables
          content,     \* what is in each frame
          executable,  \* the program of each task
          task,        \* where each task is, and its frames
          images,      \* forks and execs so far
          halt,        \* why the kernel stopped, if it did
          view, lost   \* history

mem == <<mem_map, dir, pte, content>>
vars == <<mem, executable, task, images, halt, view, lost>>

Zero == <<"zero">>
File(e, a) == <<"file", e, a>>
By(t) == <<"written", t>>
Value == {Zero} \cup {File(e, a) : e \in Exe, a \in Text} \cup {By(t) : t \in Task}

Absent == [page |-> 0, w |-> FALSE, d |-> FALSE]
NoTask == [at |-> "none", struct |-> 0, addr |-> None, page |-> 0]

\* The content of a page that was not touched yet.
Fresh(e, a) == IF a \in Text THEN File(e, a) ELSE Zero

\* Task 1 after an exec of the first program.
Init == LET e == CHOOSE x \in Exe : TRUE
        IN  /\ mem_map = [p \in Frame |-> IF p > Pages - 3 THEN 1 ELSE 0]
            /\ dir = [t \in Task |-> [d \in Dir |->
                        IF t = 1 /\ d = "top" THEN Pages - 1 ELSE 0]]
            /\ pte = [t \in Task |-> [a \in Addr |->
                        IF t = 1 /\ a = ArgPage THEN [page |-> Pages - 2, w |-> TRUE, d |-> TRUE]
                                                ELSE Absent]]
            /\ content = [p \in Frame |-> IF p = Pages - 2 THEN By(1) ELSE Zero]
            /\ executable = [t \in Task |-> IF t = 1 THEN e ELSE None]
            /\ task = [t \in Task |-> IF t = 1 THEN [NoTask EXCEPT !.at = "user", !.struct = Pages]
                                               ELSE NoTask]
            /\ images = 0 /\ halt = "no"
            /\ view = [t \in Task |-> [a \in Addr |-> IF t # 1 THEN Zero ELSE IF a = ArgPage THEN By(1) ELSE Fresh(e, a)]]
            /\ lost = [p \in Frame |-> 0]

----------------------------------------------------------------------------
\* Frames.

Free(m) == {p \in Frame : m[p] = 0}

\* get_free_page scans mem_map from its end, and clears the frame.
Get(m) == Max(Free(m))
Got(m) == [m EXCEPT ![Get(m)] = 1]

\* A count that forgets the new users.
PlusForgets(n, k) == n

Plus(n, k) == (n + k) % MAP_SIZE

\* What is in frames that are free is of no interest: get_free_page clears them.
Kept(m) == [p \in Frame |-> IF m[p] = 0 THEN Zero ELSE content[p]]

\* The frames that the tables of t and their entries use.
Uses(t, p) == Cardinality({d \in Dir : dir[t][d] = p}) + Cardinality({a \in Addr : pte[t][a].page = p})

Halts(why) == halt' = why /\ UNCHANGED <<mem, executable, task, images, view, lost>>

Runs(t) == halt = "no" /\ task[t].at = "user"

----------------------------------------------------------------------------
\* Page faults.

\* The tasks from which try_to_share can take t's page: the same program, and a
\* page that is there and was never written.  (A second task with the program
\* is why i_count < 2, share_page's first test, never holds here.)
Sharers(t, a) == {p \in Task \ {t} : /\ executable[p] = executable[t]
                                     /\ dir[p][DirOf(a)] # 0
                                     /\ pte[p][a].page # 0 /\ ~pte[p][a].d}

\* do_no_page for a page of the stack: get_empty_page.  Without a frame for the
\* page or its table nothing happens, and the task faults again.
EmptyPage(t, a) ==
    /\ Runs(t) /\ a \in Stack /\ pte[t][a].page = 0
    /\ LET d  == DirOf(a)
           m1 == Got(mem_map)
           m2 == IF dir[t][d] = 0 THEN Got(m1) ELSE m1
       IN  /\ Free(mem_map) # {} /\ (dir[t][d] = 0 => Free(m1) # {})
           /\ mem_map' = m2
           /\ dir' = IF dir[t][d] = 0 THEN [dir EXCEPT ![t][d] = Get(m1)] ELSE dir
           /\ pte' = [pte EXCEPT ![t][a] = [page |-> Get(mem_map), w |-> TRUE, d |-> FALSE]]
           /\ content' = [content EXCEPT ![Get(mem_map)] = Zero]
    /\ UNCHANGED <<executable, task, images, halt, view, lost>>

\* do_no_page for a page of the program, up to the sleep in bread_page: share_page
\* enters the frame of another task, if one has it, and returns 0 all the same, so
\* a frame is taken to read the page in.  A frame that is missing is not noticed:
\* the kernel goes on with page 0, its page directory.
NoPage(t, a) ==
    /\ Runs(t) /\ a \in Text /\ pte[t][a].page = 0
    /\ LET d      == DirOf(a)
           shares == Sharers(t, a) # {}
           from   == Max(Sharers(t, a))
           frame  == pte[from][a].page
           table  == shares /\ dir[t][d] = 0
           m1     == IF table THEN Got(mem_map) ELSE mem_map
           m2     == IF shares THEN [m1 EXCEPT ![frame] = Plus(@, 1)] ELSE m1
           short  == (table /\ Free(mem_map) = {}) \/ Free(m2) = {}
       IN  IF short THEN Halts("no frame")
           ELSE /\ mem_map' = Got(m2)
                /\ dir' = IF table THEN [dir EXCEPT ![t][d] = Get(mem_map)] ELSE dir
                /\ pte' = IF shares
                          THEN [pte EXCEPT ![from][a].w = FALSE,
                                           ![t][a] = [pte[from][a] EXCEPT !.w = FALSE]]
                          ELSE pte
                /\ task' = [task EXCEPT ![t].at = "read", ![t].addr = a, ![t].page = Get(m2)]
                /\ UNCHANGED <<content, executable, images, halt, view, lost>>

\* bread_page is done: put_page, over what the entry held.
PutPage(t) ==
    LET a == task[t].addr
        p == task[t].page
        d == DirOf(a)
        table == dir[t][d] = 0
    IN  /\ halt = "no" /\ task[t].at = "read"
        /\ task' = [task EXCEPT ![t].at = "user", ![t].addr = None, ![t].page = 0]
        /\ IF table /\ Free(mem_map) = {}
           THEN /\ mem_map' = [mem_map EXCEPT ![p] = @ - 1]
                /\ UNCHANGED <<dir, pte, content, lost>>
           ELSE /\ mem_map' = IF table THEN Got(mem_map) ELSE mem_map
                /\ dir' = IF table THEN [dir EXCEPT ![t][d] = Get(mem_map)] ELSE dir
                /\ pte' = [pte EXCEPT ![t][a] = [page |-> p, w |-> TRUE, d |-> FALSE]]
                /\ content' = [content EXCEPT ![p] = File(executable[t], a)]
                /\ lost' = IF pte[t][a].page = 0 THEN lost
                           ELSE [lost EXCEPT ![pte[t][a].page] = @ + 1]
        /\ UNCHANGED <<executable, images, halt, view>>

\* un_wp_page, of do_wp_page (a user write) and write_verify (verify_area).
UnWpPage(t, a) ==
    /\ Runs(t) /\ pte[t][a].page # 0 /\ ~pte[t][a].w
    /\ LET old == pte[t][a].page
       IN  \/ /\ mem_map[old] = 1
              /\ pte' = [pte EXCEPT ![t][a].w = TRUE]
              /\ UNCHANGED <<mem_map, content, halt>>
           \/ /\ mem_map[old] # 1 /\ Free(mem_map) # {}
              /\ mem_map' = [Got(mem_map) EXCEPT ![old] = (@ - 1 + MAP_SIZE) % MAP_SIZE]
              /\ content' = [content EXCEPT ![Get(mem_map)] = content[old]]
              /\ pte' = [pte EXCEPT ![t][a] = [page |-> Get(mem_map), w |-> TRUE, d |-> FALSE]]
              /\ UNCHANGED halt
           \/ /\ mem_map[old] # 1 /\ Free(mem_map) = {}
              /\ halt' = "no frame"
              /\ UNCHANGED <<mem_map, pte, content>>
    /\ UNCHANGED <<dir, executable, task, images, view, lost>>

\* The task writes, and the processor sets the dirty bit; with KernelWrites also
\* the kernel for it, which CR0.WP = 0 (head.S) lets write to any page present.
Write(t, a) ==
    /\ Runs(t) /\ pte[t][a].page # 0
    /\ pte[t][a].w \/ KernelWrites
    /\ content' = [content EXCEPT ![pte[t][a].page] = By(t)]
    /\ view' = [view EXCEPT ![t][a] = By(t)]
    /\ pte' = [pte EXCEPT ![t][a].d = TRUE]
    /\ UNCHANGED <<mem_map, dir, executable, task, images, halt, lost>>

----------------------------------------------------------------------------
\* fork, exec, exit.

\* The page tables that copy_page_tables copies, from the bottom, with n frames to
\* be had.
Tables(t) == {d \in Dir : dir[t][d] # 0}
Needed(t, n) == {d \in Tables(t) : n > IF d = "top" /\ "bottom" \in Tables(t) THEN 1 ELSE 0}

\* The pages that become read-only and shared, with their tables copied.
Copied(t, ds) == {a \in Addr : DirOf(a) \in ds /\ pte[t][a].page # 0}

\* A copy that leaves the parent's pages writable.
ProtectChild(t, ds, ptes) == ptes

\* this_page &= ~2, in the parent's table.
Protect(t, ds, ptes) == [ptes EXCEPT ![t] =
                          [a \in Addr |-> IF a \in Copied(t, ds) THEN [@[a] EXCEPT !.w = FALSE] ELSE @[a]]]

\* copy_process, copy_mem and copy_page_tables for a child in the first unused
\* slot.
Unused == {c \in Task : task[c].at = "none"}

Fork(t) ==
    /\ Runs(t) /\ Unused # {} /\ images < MaxImages
    /\ Cardinality(Free(mem_map)) > Cardinality(Tables(t))
    /\ LET c  == Min(Unused)
           m0 == Got(mem_map)
           m1 == IF dir[t]["bottom"] # 0 THEN Got(m0) ELSE m0
           m2 == IF dir[t]["top"] # 0 THEN Got(m1) ELSE m1
           ps == Protect(t, Tables(t), pte)
           copies(p) == Cardinality({a \in Copied(t, Tables(t)) : pte[t][a].page = p})
       IN  /\ mem_map' = [p \in Frame |-> Plus(m2[p], copies(p))]
           /\ dir' = [dir EXCEPT ![c] = [d \in Dir |-> IF dir[t][d] = 0 THEN 0
                                         ELSE IF d = "bottom" THEN Get(m0) ELSE Get(m1)]]
           /\ pte' = [ps EXCEPT ![c] = [a \in Addr |-> [pte[t][a] EXCEPT !.w = FALSE]]]
           /\ executable' = [executable EXCEPT ![c] = executable[t]]
           /\ task' = [task EXCEPT ![c] = [NoTask EXCEPT !.at = "user", !.struct = Get(mem_map)]]
           /\ view' = [view EXCEPT ![c] = view[t]]
           /\ images' = images + 1
           /\ UNCHANGED <<content, halt, lost>>

\* copy_page_tables finds no frame for a table: copy_mem frees the tables made so
\* far, and copy_process the child.  The parent's pages stay read-only.
ForkFails(t) ==
    LET n == Cardinality(Free(mem_map))
    IN  /\ Runs(t) /\ Unused # {}
        /\ 0 < n /\ n <= Cardinality(Tables(t))
        /\ pte' = Protect(t, Needed(t, n - 1), pte)
        /\ UNCHANGED <<mem_map, dir, content, executable, task, images, halt, view, lost>>

\* free_page_tables of all the task has; a frame whose count is 0 makes free_page
\* panic.
FreeTables(t) ==
    IF \E p \in Frame : mem_map[p] < Uses(t, p)
    THEN halt' = "free free page" /\ UNCHANGED <<mem, lost>>
    ELSE /\ mem_map' = [p \in Frame |-> mem_map[p] - Uses(t, p)]
         /\ dir' = [dir EXCEPT ![t] = [d \in Dir |-> 0]]
         /\ pte' = [pte EXCEPT ![t] = [a \in Addr |-> Absent]]
         /\ content' = Kept(mem_map')
         /\ UNCHANGED <<halt, lost>>

\* do_exit.
Exit(t) ==
    /\ Runs(t) /\ t # 1
    /\ FreeTables(t)
    /\ executable' = [executable EXCEPT ![t] = None]
    /\ task' = [task EXCEPT ![t].at = "zombie"]
    /\ view' = [view EXCEPT ![t] = [a \in Addr |-> Zero]]
    /\ UNCHANGED images

\* release, when the parent waits.
Release(t) ==
    LET p == task[t].struct
    IN  /\ halt = "no" /\ task[t].at = "zombie"
        /\ IF mem_map[p] = 0 THEN halt' = "free free page" /\ UNCHANGED mem_map
                             ELSE mem_map' = [mem_map EXCEPT ![p] = @ - 1] /\ UNCHANGED halt
        /\ task' = [task EXCEPT ![t] = NoTask]
        /\ UNCHANGED <<dir, pte, content, executable, images, view, lost>>

\* do_execve up to the sleeps in iput and sys_close: the arguments are in a frame,
\* and executable is the new program while the pages are still the old one's.
Exec(t, e) ==
    /\ Runs(t) /\ images < MaxImages /\ Free(mem_map) # {}
    /\ LET p == Get(mem_map)
       IN  /\ mem_map' = Got(mem_map)
           /\ content' = [content EXCEPT ![p] = By(t)]
           /\ task' = [task EXCEPT ![t].at = "exec", ![t].page = p]
    /\ executable' = [executable EXCEPT ![t] = e]
    /\ images' = images + 1
    /\ UNCHANGED <<dir, pte, halt, view, lost>>

\* The rest of do_execve: the old tables go, and put_dirty_page enters the page of
\* arguments.  (The frames of the old tables are enough for the new one.)
ExecDone(t) ==
    /\ halt = "no" /\ task[t].at = "exec"
    /\ LET m == [p \in Frame |-> mem_map[p] - Uses(t, p)]
           arg(a, x, y) == IF a = ArgPage THEN x ELSE y
       IN  IF \E p \in Frame : m[p] < 0
           THEN halt' = "free free page" /\ UNCHANGED <<mem, lost, task, view>>
           ELSE /\ mem_map' = Got(m)
                /\ dir' = [dir EXCEPT ![t] = [d \in Dir |-> IF d = "top" THEN Get(m) ELSE 0]]
                /\ pte' = [pte EXCEPT ![t] = [a \in Addr |->
                              arg(a, [page |-> task[t].page, w |-> TRUE, d |-> TRUE], Absent)]]
                /\ content' = Kept(m)
                /\ task' = [task EXCEPT ![t].at = "user", ![t].page = 0]
                /\ view' = [view EXCEPT ![t] = [a \in Addr |->
                               arg(a, By(t), Fresh(executable[t], a))]]
                /\ UNCHANGED <<halt, lost>>
    /\ UNCHANGED <<executable, images>>

----------------------------------------------------------------------------
Next == \E t \in Task :
           \/ PutPage(t) \/ Fork(t) \/ ForkFails(t) \/ Exit(t) \/ Release(t) \/ ExecDone(t)
           \/ \E a \in Addr : EmptyPage(t, a) \/ NoPage(t, a) \/ UnWpPage(t, a) \/ Write(t, a)
           \/ \E e \in Exe : Exec(t, e)

Spec == Init /\ [][Next]_vars

----------------------------------------------------------------------------
\* Type invariant.
TypeOK ==
    /\ mem_map \in [Frame -> 0 .. MAP_SIZE - 1]
    /\ dir \in [Task -> [Dir -> 0 .. Pages]]
    /\ pte \in [Task -> [Addr -> [page : 0 .. Pages, w : BOOLEAN, d : BOOLEAN]]]
    /\ content \in [Frame -> Value]
    /\ executable \in [Task -> Exe \cup {None}]
    /\ task \in [Task -> [at : {"none", "user", "read", "exec", "zombie"}, struct : 0 .. Pages,
                          addr : Addr \cup {None}, page : 0 .. Pages]]
    /\ images \in 0 .. MaxImages
    /\ halt \in {"no", "no frame", "free free page"}
    /\ view \in [Task -> [Addr -> Value]]
    /\ lost \in [Frame -> Nat]

\* The users of a frame: tables and entries, task structures, and frames that a
\* task holds while it sleeps.
Users(p) == Cardinality({x \in Task \X Dir : dir[x[1]][x[2]] = p})
            + Cardinality({x \in Task \X Addr : pte[x[1]][x[2]].page = p})
            + Cardinality({t \in Task : task[t].struct = p})
            + Cardinality({t \in Task : task[t].page = p})

\* mem_map counts the users of every frame, and those entries that do_no_page
\* overwrote after share_page made them (memory.c:253-308).
CountsRight == halt = "no" => \A p \in Frame : mem_map[p] = (Users(p) + lost[p]) % MAP_SIZE

\* No frame that is in use is handed out again (get_free_page, swap.c:3).
UsedNotFree == halt = "no" => \A p \in Free(mem_map) : Users(p) = 0

\* free_page never panics with "trying to free free page" (memory.c:24).
FreeNeverPanics == halt # "free free page"

\* Over any sequence of forks, faults, execs and exits, and when frames run out in the
\* middle of one, every frame stays counted as often as it is used.
MapCounts == TypeOK /\ CountsRight /\ UsedNotFree /\ FreeNeverPanics

\* A frame that two entries map can be written through neither, and a frame that
\* holds a table or a task structure, or is being filled, is mapped by none.
SharedProtected ==
    halt = "no" => \A t \in Task : \A a \in Addr :
        /\ pte[t][a].w => \A u \in Task : \A b \in Addr :
                             pte[u][b].page = pte[t][a].page => <<u, b>> = <<t, a>>
        /\ pte[t][a].page # 0 =>
             \A u \in Task : /\ pte[t][a].page \notin {task[u].struct, task[u].page}
                            /\ \A d \in Dir : dir[u][d] # pte[t][a].page

\* A task that runs finds in each page what it wrote there itself or had from its
\* parent at the fork, and otherwise its program or zeroes, whatever other tasks
\* do to the frames it shares with them.
OwnContent ==
    halt = "no" => \A t \in Task : task[t].at = "user" => \A a \in Addr :
        view[t][a] = IF pte[t][a].page = 0 THEN Fresh(executable[t], a) ELSE content[pte[t][a].page]

\* Sharing a frame is never seen by those who share it.
Isolation == SharedProtected /\ OwnContent
=============================================================================
