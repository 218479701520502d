---------------------------- MODULE MemoryProofs ----------------------------
(***************************************************************************)
(* Theorems about Memory for every number of tasks, frames, pages and      *)
(* program files: the counts of mem_map, and the isolation of tasks that   *)
(* share pages.                                                            *)
(*                                                                         *)
(* The proofs see the frames as held by tasks in places (Held), where a    *)
(* step changes what one task holds; Good says that no frame is in two     *)
(* places and that its count is that of its holders.  Own says what is in  *)
(* the pages.  Both need that counts do not wrap (LeaksFit): the third     *)
(* part, Tally, bounds how often do_no_page can lose a count.              *)
(***************************************************************************)
EXTENDS Memory, CommonLemmas

----------------------------------------------------------------------------
\* Frames and their holders.

\* The places where a task holds a frame: its page tables, its entries, its own structure,
\* and the page that it sleeps with (in do_no_page or do_execve).
Struct == <<"struct", "own">>
Page   == <<"page", "own">>
Role   == ({"table"} \X Dir) \cup ({"entry"} \X Addr) \cup {Struct, Page}

\* A frame or none in each place; the tasks that hold a frame.
Roles == [Role -> 0 .. Pages]
Has(h, p) == \E r \in Role : h[r] = p
Holders(f, p) == {t \in Task : Has(f[t], p)}

\* No frame is in two places, except that tasks share a page at the same address.
Exclusive(f) == \A t, u \in Task : \A r, s \in Role :
    f[t][r] = f[u][s] /\ f[t][r] # 0 => r = s /\ (t = u \/ r[1] = "entry")

\* What a task may come to hold in a place: nothing, what it held there, a frame that no
\* other task holds, in this place only, or a page that others have at the same address.
May(f, t, h, r) ==
    \/ h[r] = 0
    \/ h[r] = f[t][r]
    \/ /\ \A u \in Task \ {t} : ~Has(f[u], h[r])
       /\ \A s \in Role : h[s] = h[r] => s = r
    \/ r[1] = "entry" /\ \E u \in Task : f[u][r] = h[r]

\* A task's frames change by the rule: the exclusive use stays.
LEMMA MoveExclusive ==
    ASSUME NEW f \in [Task -> Roles], Exclusive(f), NEW t \in Task, NEW h \in Roles,
           \A r \in Role : May(f, t, h, r)
    PROVE  Exclusive([f EXCEPT ![t] = h])
<1> DEFINE g == [f EXCEPT ![t] = h]
<1>0. \A u \in Task : g[u] = IF u = t THEN h ELSE f[u]
  OBVIOUS
<1>1. \A r, s \in Role : h[r] = h[s] /\ h[r] # 0 => r = s
  <2> SUFFICES ASSUME NEW r \in Role, NEW s \in Role, h[r] = h[s], h[r] # 0
               PROVE  r = s
    OBVIOUS
  <2>1. May(f, t, h, r) /\ May(f, t, h, s)
    OBVIOUS
  <2>2. CASE \A q \in Role : h[q] = h[r] => q = r
    BY <2>2
  <2>3. CASE \A q \in Role : h[q] = h[s] => q = s
    BY <2>3
  <2>4. CASE (\E u \in Task : f[u][r] = h[r]) /\ (\E u \in Task : f[u][s] = h[s])
    BY <2>4 DEF Exclusive
  <2>5. (\A q \in Role : h[q] = h[r] => q = r) \/ \E u \in Task : f[u][r] = h[r]
    BY <2>1 DEF May
  <2>6. (\A q \in Role : h[q] = h[s] => q = s) \/ \E u \in Task : f[u][s] = h[s]
    BY <2>1 DEF May
  <2> QED
    BY <2>2, <2>3, <2>4, <2>5, <2>6
<1>2. \A r, s \in Role : \A u \in Task \ {t} : h[r] = f[u][s] /\ h[r] # 0 => r = s /\ r[1] = "entry"
  <2> SUFFICES ASSUME NEW r \in Role, NEW s \in Role, NEW u \in Task \ {t},
                      h[r] = f[u][s], h[r] # 0
               PROVE  r = s /\ r[1] = "entry"
    OBVIOUS
  <2>1. May(f, t, h, r)
    OBVIOUS
  <2>0. u \in Task /\ u # t
    OBVIOUS
  <2>2. CASE h[r] = f[t][r]
    <3>1. f[t][r] = f[u][s] /\ f[t][r] # 0
      BY <2>2
    <3> QED
      BY <2>0, <3>1 DEF Exclusive
  <2>3. CASE ~Has(f[u], h[r])
    BY <2>3 DEF Has
  <2>4. CASE r[1] = "entry" /\ \E v \in Task : f[v][r] = h[r]
    BY <2>4 DEF Exclusive
  <2> QED
    BY <2>1, <2>2, <2>3, <2>4 DEF May
<1>3. SUFFICES ASSUME NEW u \in Task, NEW v \in Task, NEW r \in Role, NEW s \in Role,
                      g[u][r] = g[v][s], g[u][r] # 0
               PROVE  r = s /\ (u = v \/ r[1] = "entry")
  BY DEF Exclusive
<1>4. CASE u = t /\ v = t
  BY <1>0, <1>1, <1>3, <1>4
<1>5. CASE u = t /\ v # t
  BY <1>0, <1>2, <1>3, <1>5
<1>6. CASE u # t /\ v = t
  BY <1>0, <1>2, <1>3, <1>6
<1>7. CASE u # t /\ v # t
  BY <1>0, <1>3, <1>7 DEF Exclusive
<1> QED
  BY <1>4, <1>5, <1>6, <1>7

\* The tasks are finite, and so are those that hold a frame.
LEMMA HoldersCount ==
    ASSUME NEW f, NEW p
    PROVE  /\ IsFiniteSet(Holders(f, p))
           /\ Cardinality(Holders(f, p)) \in 0 .. NR_TASKS
           /\ Cardinality(Holders(f, p)) = 0 <=> \A t \in Task : ~Has(f[t], p)
<1>1. IsFiniteSet(Task) /\ Cardinality(Task) = NR_TASKS
  <2>1. NR_TASKS \in Nat \ {0}
    BY SizesAssumption
  <2>2. IsFiniteSet(1 .. NR_TASKS) /\ Cardinality(1 .. NR_TASKS) = NR_TASKS
    BY <2>1, FS_Interval
  <2> QED
    BY <2>2 DEF Task
<1>2. Holders(f, p) \subseteq Task
  BY DEF Holders
<1>3. IsFiniteSet(Holders(f, p)) /\ Cardinality(Holders(f, p)) <= NR_TASKS
  BY <1>1, <1>2, FS_Subset
<1>4. Cardinality(Holders(f, p)) \in Nat
  BY <1>3, FS_CardinalityType
<1>5. Cardinality(Holders(f, p)) = 0 <=> Holders(f, p) = {}
  BY <1>3, FS_EmptySet
<1> QED
  BY <1>3, <1>4, <1>5, SizesAssumption DEF Holders

\* ... and the number of its holders goes with the task.
LEMMA MoveCounts ==
    ASSUME NEW f \in [Task -> Roles], NEW t \in Task, NEW h \in Roles, NEW p \in Frame
    PROVE  LET n == Cardinality(Holders(f, p))
               k == Cardinality(Holders([f EXCEPT ![t] = h], p))
           IN  /\ Has(h, p) /\ ~Has(f[t], p) => k = n + 1
               /\ ~Has(h, p) /\ Has(f[t], p) => k = n - 1
               /\ (Has(h, p) <=> Has(f[t], p)) => k = n
<1> DEFINE g == [f EXCEPT ![t] = h]
           H == Holders(f, p)
           K == Holders(g, p)
<1>0. \A u \in Task : u \in K <=> IF u = t THEN Has(h, p) ELSE u \in H
  BY DEF Holders
<1>1. K \subseteq Task /\ H \subseteq Task /\ (t \in H <=> Has(f[t], p))
  BY DEF Holders
<1>2. IsFiniteSet(H) /\ IsFiniteSet(K) /\ Cardinality(H) \in Nat /\ Cardinality(K) \in Nat
  BY HoldersCount, SizesAssumption
<1>3. ASSUME Has(h, p), ~Has(f[t], p)
      PROVE  Cardinality(K) = Cardinality(H) + 1
  <2>1. K = H \cup {t} /\ t \notin H
    BY <1>0, <1>1, <1>3
  <2> QED
    BY <2>1, <1>2, FS_AddElement
<1>4. ASSUME ~Has(h, p), Has(f[t], p)
      PROVE  Cardinality(K) = Cardinality(H) - 1
  <2>1. K = H \ {t} /\ t \in H
    BY <1>0, <1>1, <1>4
  <2> QED
    BY <2>1, <1>2, FS_RemoveElement
<1>5. ASSUME Has(h, p) <=> Has(f[t], p)
      PROVE  Cardinality(K) = Cardinality(H)
  <2>1. K = H
    BY <1>0, <1>1, <1>5
  <2> QED
    BY <2>1
<1> HIDE DEF H, K
<1> QED
  BY <1>3, <1>4, <1>5 DEF H, K

\* The types of the tables, the entries and the tasks.
DirSet == [Task -> [Dir -> 0 .. Pages]]
PteSet == [Task -> [Addr -> [page : 0 .. Pages, w : BOOLEAN, d : BOOLEAN]]]
TaskSet == [Task -> [at : {"none", "user", "read", "exec", "zombie"}, struct : 0 .. Pages,
                     addr : Addr \cup {None}, page : 0 .. Pages]]

\* The frames of each task, place by place.
HeldBy(dr, pt, tk) == [t \in Task |-> [r \in Role |->
    IF r[1] = "table" THEN dr[t][r[2]]
    ELSE IF r[1] = "entry" THEN pt[t][r[2]].page
    ELSE IF r[1] = "struct" THEN tk[t].struct ELSE tk[t].page]]

\* What the tasks hold; the count of each frame is that of its holders and of its losses.
Held == HeldBy(dir, pte, task)
Counted(f, m, l) == \A p \in Frame : m[p] = Cardinality(Holders(f, p)) + l[p]

\* The kinds of places.
LEMMA RoleKinds ==
    /\ \A d \in Dir : <<"table", d>> \in Role
    /\ \A a \in Addr : <<"entry", a>> \in Role
    /\ Struct \in Role /\ Page \in Role
    /\ \A r \in Role : \/ \E d \in Dir : r = <<"table", d>>
                       \/ \E a \in Addr : r = <<"entry", a>>
                       \/ r = Struct
                       \/ r = Page
BY DEF Role, Dir

\* HeldBy, place by place.
LEMMA HeldAt ==
    ASSUME NEW dr \in DirSet, NEW pt \in PteSet, NEW tk \in TaskSet
    PROVE  LET f == HeldBy(dr, pt, tk)
           IN  /\ f \in [Task -> Roles]
               /\ \A t \in Task :
                    /\ \A d \in Dir : f[t][<<"table", d>>] = dr[t][d]
                    /\ \A a \in Addr : f[t][<<"entry", a>>] = pt[t][a].page
                    /\ f[t][Struct] = tk[t].struct /\ f[t][Page] = tk[t].page
                    /\ \A p \in 0 .. Pages :
                          Has(f[t], p) <=> \/ \E d \in Dir : dr[t][d] = p
                                           \/ \E a \in Addr : pt[t][a].page = p
                                           \/ tk[t].struct = p
                                           \/ tk[t].page = p
<1> DEFINE f == HeldBy(dr, pt, tk)
<1>1. \A t \in Task : \A r \in Role : f[t][r] =
         IF r[1] = "table" THEN dr[t][r[2]]
         ELSE IF r[1] = "entry" THEN pt[t][r[2]].page
         ELSE IF r[1] = "struct" THEN tk[t].struct ELSE tk[t].page
  BY DEF HeldBy
<1>2. ASSUME NEW t \in Task
      PROVE  /\ \A d \in Dir : f[t][<<"table", d>>] = dr[t][d]
             /\ \A a \in Addr : f[t][<<"entry", a>>] = pt[t][a].page
             /\ f[t][Struct] = tk[t].struct /\ f[t][Page] = tk[t].page
  <2>1. \A d \in Dir : <<"table", d>> \in Role /\ <<"table", d>>[1] = "table" /\ <<"table", d>>[2] = d
    BY RoleKinds
  <2>2. \A a \in Addr : <<"entry", a>> \in Role /\ <<"entry", a>>[1] = "entry" /\ <<"entry", a>>[2] = a
    BY RoleKinds
  <2>3. Struct \in Role /\ Struct[1] = "struct" /\ Page \in Role /\ Page[1] = "page"
    BY RoleKinds DEF Struct, Page
  <2> HIDE DEF f
  <2> QED
    BY <1>1, <2>1, <2>2, <2>3
<1> HIDE DEF f
<1>3. ASSUME NEW t \in Task, NEW p \in 0 .. Pages
      PROVE  Has(f[t], p) <=> \/ \E d \in Dir : dr[t][d] = p
                              \/ \E a \in Addr : pt[t][a].page = p
                              \/ tk[t].struct = p
                              \/ tk[t].page = p
  <2>1. ASSUME Has(f[t], p)
        PROVE  \/ \E d \in Dir : dr[t][d] = p
               \/ \E a \in Addr : pt[t][a].page = p
               \/ tk[t].struct = p
               \/ tk[t].page = p
    <3>1. PICK r \in Role : f[t][r] = p
      BY <2>1 DEF Has
    <3> QED
      BY <3>1, <1>2, RoleKinds
  <2>2. ASSUME NEW d \in Dir, dr[t][d] = p
        PROVE  Has(f[t], p)
    <3>1. f[t][<<"table", d>>] = p /\ <<"table", d>> \in Role
      BY <2>2, <1>2, RoleKinds
    <3> QED
      BY <3>1 DEF Has
  <2>3. ASSUME NEW a \in Addr, pt[t][a].page = p
        PROVE  Has(f[t], p)
    <3>1. f[t][<<"entry", a>>] = p /\ <<"entry", a>> \in Role
      BY <2>3, <1>2, RoleKinds
    <3> QED
      BY <3>1 DEF Has
  <2>4. ASSUME tk[t].struct = p \/ tk[t].page = p
        PROVE  Has(f[t], p)
    BY <2>4, <1>2, RoleKinds DEF Has
  <2> QED
    BY <2>1, <2>2, <2>3, <2>4
<1>4. f \in [Task -> Roles]
  <2>1. ASSUME NEW t \in Task, NEW r \in Role
        PROVE  f[t][r] \in 0 .. Pages
    BY <1>2, RoleKinds DEF DirSet, PteSet, TaskSet
  <2>2. f = [t \in Task |-> [r \in Role |-> f[t][r]]]
    BY DEF HeldBy, f
  <2> QED
    BY <2>1, <2>2 DEF Roles
<1> QED
  BY <1>2, <1>3, <1>4 DEF f

\* When the frames of one task change as they may, the use stays exclusive, and the
\* number of holders of a frame goes with that task.
LEMMA TaskMoves ==
    ASSUME NEW f \in [Task -> Roles], NEW g \in [Task -> Roles], Exclusive(f), NEW t \in Task,
           \A u \in Task \ {t} : g[u] = f[u],
           \A r \in Role : May(f, t, g[t], r)
    PROVE  /\ Exclusive(g)
           /\ \A p \in Frame : LET n == Cardinality(Holders(f, p))
                                   k == Cardinality(Holders(g, p))
                               IN  /\ n \in 0 .. NR_TASKS /\ k \in 0 .. NR_TASKS
                                   /\ Has(g[t], p) /\ ~Has(f[t], p) => k = n + 1
                                   /\ ~Has(g[t], p) /\ Has(f[t], p) => k = n - 1 /\ n > 0
                                   /\ (Has(g[t], p) <=> Has(f[t], p)) => k = n
<1>0. g[t] \in Roles
  OBVIOUS
<1>1. g = [f EXCEPT ![t] = g[t]]
  OBVIOUS
<1>2. Exclusive(g)
  BY <1>0, <1>1, MoveExclusive
<1>3. ASSUME NEW p \in Frame
      PROVE  LET n == Cardinality(Holders(f, p))
                 k == Cardinality(Holders(g, p))
             IN  /\ n \in 0 .. NR_TASKS /\ k \in 0 .. NR_TASKS
                 /\ Has(g[t], p) /\ ~Has(f[t], p) => k = n + 1
                 /\ ~Has(g[t], p) /\ Has(f[t], p) => k = n - 1 /\ n > 0
                 /\ (Has(g[t], p) <=> Has(f[t], p)) => k = n
  <2>1. Cardinality(Holders(f, p)) \in 0 .. NR_TASKS /\ Cardinality(Holders(g, p)) \in 0 .. NR_TASKS
    BY HoldersCount
  <2>2. Has(f[t], p) => Cardinality(Holders(f, p)) # 0
    BY HoldersCount
  <2> QED
    BY <1>0, <1>1, <2>1, <2>2, MoveCounts, SizesAssumption
<1> QED
  BY <1>2, <1>3

----------------------------------------------------------------------------
\* The inductive invariant of the counts.

\* What goes with the place where a task is: the frames it has, and its tables.
Shape == \A t \in Task :
    /\ task[t].at = "none" <=> task[t].struct = 0
    /\ task[t].at \in {"read", "exec"} <=> task[t].page # 0
    /\ task[t].at \in {"none", "zombie"} =>
          (\A d \in Dir : dir[t][d] = 0) /\ (\A a \in Addr : pte[t][a].page = 0)
    /\ task[t].at \in {"user", "read", "exec"} => dir[t]["top"] # 0 /\ executable[t] \in Exe
    /\ task[t].at = "read" => task[t].addr \in Text
    /\ \A a \in Addr : pte[t][a].page # 0 => dir[t][DirOf(a)] # 0

\* A writable entry is the only one that maps its frame.
WritableAlone == \A t \in Task : \A a \in Addr : pte[t][a].w =>
    /\ pte[t][a].page # 0
    /\ \A u \in Task : \A b \in Addr : pte[u][b].page = pte[t][a].page => u = t /\ b = a

\* Only a frame that entries map can have lost a count: no table, no structure, and no
\* page that a task sleeps with.
LostMapped == \A t \in Task :
    /\ \A d \in Dir : dir[t][d] # 0 => lost[dir[t][d]] = 0
    /\ task[t].struct # 0 => lost[task[t].struct] = 0
    /\ task[t].page # 0 => lost[task[t].page] = 0

\* The inductive invariant of the counts.
Good == Exclusive(Held) /\ Counted(Held, mem_map, lost) /\ Shape /\ WritableAlone /\ LostMapped

\* The premise of the counts: no frame has lost so many that its count could wrap with
\* all tasks on it (mem_map is of unsigned char, mm.h:19).
LeaksFit == \A p \in Frame : lost[p] + NR_TASKS < MAP_SIZE

\* The sizes, as numbers.
LEMMA Sizes ==
    /\ NR_TASKS \in Nat \ {0} /\ Pages \in Nat /\ Pages > 2 /\ MAP_SIZE \in Nat /\ MAP_SIZE > NR_TASKS
    /\ Frame \subseteq Nat \ {0} /\ Frame \subseteq 0 .. Pages
    /\ \A p \in 0 .. Pages : p # 0 => p \in Frame
BY SizesAssumption DEF Frame

\* The types of what the tasks hold.
LEMMA HeldType ==
    ASSUME TypeOK
    PROVE  /\ dir \in DirSet /\ pte \in PteSet /\ task \in TaskSet
           /\ Held \in [Task -> Roles]
<1>1. dir \in DirSet /\ pte \in PteSet /\ task \in TaskSet
  BY DEF TypeOK, DirSet, PteSet, TaskSet
<1> QED
  BY <1>1, HeldAt DEF Held

\* What a task holds, by the variables.
LEMMA HeldNow ==
    ASSUME TypeOK, NEW t \in Task
    PROVE  /\ \A d \in Dir : Held[t][<<"table", d>>] = dir[t][d]
           /\ \A a \in Addr : Held[t][<<"entry", a>>] = pte[t][a].page
           /\ Held[t][Struct] = task[t].struct /\ Held[t][Page] = task[t].page
           /\ \A p \in 0 .. Pages : Has(Held[t], p) <=> \/ \E d \in Dir : dir[t][d] = p
                                                        \/ \E a \in Addr : pte[t][a].page = p
                                                        \/ task[t].struct = p
                                                        \/ task[t].page = p
<1>1. dir \in DirSet /\ pte \in PteSet /\ task \in TaskSet
  BY HeldType
<1> DEFINE f == HeldBy(dir, pte, task)
<1>2. /\ \A d \in Dir : f[t][<<"table", d>>] = dir[t][d]
      /\ \A a \in Addr : f[t][<<"entry", a>>] = pte[t][a].page
      /\ f[t][Struct] = task[t].struct /\ f[t][Page] = task[t].page
      /\ \A p \in 0 .. Pages : Has(f[t], p) <=> \/ \E d \in Dir : dir[t][d] = p
                                                \/ \E a \in Addr : pte[t][a].page = p
                                                \/ task[t].struct = p
                                                \/ task[t].page = p
  BY <1>1, HeldAt
<1>3. Held = f
  BY DEF Held
<1> HIDE DEF f
<1> QED
  BY <1>2, <1>3

\* No task holds a frame that is free, and none of it is lost.
LEMMA FreeUnheld ==
    ASSUME TypeOK, Counted(Held, mem_map, lost), NEW p \in Frame, mem_map[p] = 0
    PROVE  lost[p] = 0 /\ \A t \in Task : ~Has(Held[t], p)
<1>1. Cardinality(Holders(Held, p)) \in 0 .. NR_TASKS /\ lost[p] \in Nat
  BY HoldersCount DEF TypeOK
<1>2. Cardinality(Holders(Held, p)) = 0 /\ lost[p] = 0
  BY <1>1, Sizes DEF Counted
<1> QED
  BY <1>2, HoldersCount

\* A frame that a task holds is counted.
LEMMA HeldCounts ==
    ASSUME TypeOK, Counted(Held, mem_map, lost), NEW p \in Frame, NEW t \in Task, Has(Held[t], p)
    PROVE  mem_map[p] > lost[p]
<1>1. Cardinality(Holders(Held, p)) \in 0 .. NR_TASKS /\ lost[p] \in Nat
  BY HoldersCount DEF TypeOK
<1>2. Cardinality(Holders(Held, p)) # 0
  BY HoldersCount
<1> QED
  BY <1>1, <1>2, Sizes DEF Counted

\* get_free_page finds a frame that is free, and counts it.
LEMMA GotOne ==
    ASSUME NEW m \in [Frame -> Nat], Free(m) # {}
    PROVE  /\ Get(m) \in Frame /\ m[Get(m)] = 0
           /\ Got(m) \in [Frame -> Nat]
           /\ \A p \in Frame : Got(m)[p] = IF p = Get(m) THEN 1 ELSE m[p]
           /\ Free(Got(m)) = Free(m) \ {Get(m)}
<1>1. Free(m) \in SUBSET (0 .. Pages) /\ Pages \in Nat
  BY Sizes DEF Free
<1>2. Get(m) \in Free(m)
  BY <1>1, MaxOf DEF Get
<1>3. Get(m) \in Frame /\ m[Get(m)] = 0
  BY <1>2 DEF Free
<1>4. Got(m) \in [Frame -> Nat] /\ \A p \in Frame : Got(m)[p] = IF p = Get(m) THEN 1 ELSE m[p]
  BY <1>3 DEF Got
<1> QED
  BY <1>3, <1>4 DEF Free

\* A count that does not reach the width of its byte is a sum.
LEMMA NoWrap ==
    ASSUME NEW n \in Nat, NEW k \in Nat, n + k < MAP_SIZE
    PROVE  Plus(n, k) = n + k
BY Sizes DEF Plus

\* A set of one element at most.
LEMMA AtMostOne ==
    ASSUME NEW S, \A x, y \in S : x = y
    PROVE  Cardinality(S) = IF S = {} THEN 0 ELSE 1
<1>1. CASE S = {}
  BY <1>1, FS_EmptySet
<1>2. CASE S # {}
  <2>1. PICK x \in S : TRUE
    BY <1>2
  <2>2. S = {x}
    BY <2>1
  <2> QED
    BY <1>2, <2>2, FS_Singleton
<1> QED
  BY <1>1, <1>2

\* The tables of a task and their entries use a frame once, or not at all.
LEMMA UsesOnce ==
    ASSUME TypeOK, Exclusive(Held), NEW t \in Task, NEW p \in Frame
    PROVE  Uses(t, p) = IF (\E d \in Dir : dir[t][d] = p) \/ (\E a \in Addr : pte[t][a].page = p)
                        THEN 1 ELSE 0
<1> DEFINE D == {d \in Dir : dir[t][d] = p}
           A == {a \in Addr : pte[t][a].page = p}
<1>0. p # 0
  BY Sizes
<1>1. ASSUME NEW d \in D, NEW e \in D
      PROVE  d = e
  <2>1. Held[t][<<"table", d>>] = p /\ Held[t][<<"table", e>>] = p
    BY HeldNow
  <2>2. <<"table", d>> = <<"table", e>>
    BY <2>1, <1>0, RoleKinds DEF Exclusive
  <2> QED
    BY <2>2
<1>2. ASSUME NEW a \in A, NEW b \in A
      PROVE  a = b
  <2>1. Held[t][<<"entry", a>>] = p /\ Held[t][<<"entry", b>>] = p
    BY HeldNow
  <2>2. <<"entry", a>> = <<"entry", b>>
    BY <2>1, <1>0, RoleKinds DEF Exclusive
  <2> QED
    BY <2>2
<1>3. ASSUME NEW d \in D, NEW a \in A
      PROVE  FALSE
  <2>1. Held[t][<<"table", d>>] = p /\ Held[t][<<"entry", a>>] = p
    BY HeldNow
  <2>2. <<"table", d>> = <<"entry", a>>
    BY <2>1, <1>0, RoleKinds DEF Exclusive
  <2> QED
    BY <2>2
<1>4. Cardinality(D) = (IF D = {} THEN 0 ELSE 1)
  <2> HIDE DEF D
  <2> QED
    BY <1>1, AtMostOne
<1>5. Cardinality(A) = (IF A = {} THEN 0 ELSE 1)
  <2> HIDE DEF A
  <2> QED
    BY <1>2, AtMostOne
<1>6. D = {} \/ A = {}
  BY <1>3
<1> QED
  BY <1>4, <1>5, <1>6 DEF Uses

\* What Exclusive says of the variables.
LEMMA ExclusiveNow ==
    ASSUME TypeOK, Exclusive(Held), NEW t \in Task, NEW u \in Task
    PROVE  /\ \A d, e \in Dir : dir[t][d] = dir[u][e] /\ dir[t][d] # 0 => t = u /\ d = e
           /\ \A a, b \in Addr : pte[t][a].page = pte[u][b].page /\ pte[t][a].page # 0 => a = b
           /\ \A a \in Addr : pte[t][a].page # 0 =>
                /\ pte[t][a].page \notin {task[u].struct, task[u].page}
                /\ \A d \in Dir : dir[u][d] # pte[t][a].page
           /\ \A d \in Dir : dir[t][d] # 0 => dir[t][d] \notin {task[u].struct, task[u].page}
           /\ task[t].struct # 0 => /\ task[t].struct # task[u].page
                                    /\ task[t].struct = task[u].struct => t = u
           /\ task[t].page # 0 /\ task[t].page = task[u].page => t = u
<1> DEFINE T(d) == <<"table", d>>
           E(a) == <<"entry", a>>
<1>1. /\ \A d \in Dir : T(d) \in Role /\ T(d)[1] = "table" /\ T(d)[2] = d
      /\ \A a \in Addr : E(a) \in Role /\ E(a)[1] = "entry" /\ E(a)[2] = a
      /\ Struct \in Role /\ Page \in Role
      /\ Struct[1] = "struct" /\ Page[1] = "page"
  BY RoleKinds DEF Struct, Page
<1>2. \A v \in {t, u} : /\ \A d \in Dir : Held[v][T(d)] = dir[v][d]
                        /\ \A a \in Addr : Held[v][E(a)] = pte[v][a].page
                        /\ Held[v][Struct] = task[v].struct /\ Held[v][Page] = task[v].page
  BY HeldNow
<1>3. \A r, s \in Role : Held[t][r] = Held[u][s] /\ Held[t][r] # 0 =>
                            r = s /\ (t = u \/ r[1] = "entry")
  BY DEF Exclusive
<1> HIDE DEF T, E
<1>4. \A d, e \in Dir : dir[t][d] = dir[u][e] /\ dir[t][d] # 0 => t = u /\ d = e
  BY <1>1, <1>2, <1>3
<1>5. \A a, b \in Addr : pte[t][a].page = pte[u][b].page /\ pte[t][a].page # 0 => a = b
  BY <1>1, <1>2, <1>3
<1>6. \A a \in Addr : pte[t][a].page # 0 =>
         /\ pte[t][a].page \notin {task[u].struct, task[u].page}
         /\ \A d \in Dir : dir[u][d] # pte[t][a].page
  BY <1>1, <1>2, <1>3
<1>7. \A d \in Dir : dir[t][d] # 0 => dir[t][d] \notin {task[u].struct, task[u].page}
  BY <1>1, <1>2, <1>3
<1>8. task[t].struct # 0 => /\ task[t].struct # task[u].page
                            /\ task[t].struct = task[u].struct => t = u
  BY <1>1, <1>2, <1>3
<1>9. task[t].page # 0 /\ task[t].page = task[u].page => t = u
  BY <1>1, <1>2, <1>3
<1> QED
  BY <1>4, <1>5, <1>6, <1>7, <1>8, <1>9

\* Each task that holds a frame is one user of it.
LEMMA UsersAreHolders ==
    ASSUME TypeOK, Exclusive(Held), NEW p \in Frame
    PROVE  Users(p) = Cardinality(Holders(Held, p))
<1> DEFINE D == {x \in Task \X Dir : dir[x[1]][x[2]] = p}
           A == {x \in Task \X Addr : pte[x[1]][x[2]].page = p}
           S == {t \in Task : task[t].struct = p}
           G == {t \in Task : task[t].page = p}
           H == Holders(Held, p)
<1>0. p # 0 /\ p \in 0 .. Pages
  BY Sizes
<1>1. Users(p) = Cardinality(D) + Cardinality(A) + Cardinality(S) + Cardinality(G)
  BY DEF Users
<1>5. /\ \A t \in S : t \in Task /\ task[t].struct = p
      /\ \A t \in G : t \in Task /\ task[t].page = p
  OBVIOUS
<1>6. \A t \in Task : t \in H <=> \/ \E d \in Dir : dir[t][d] = p
                                  \/ \E a \in Addr : pte[t][a].page = p
                                  \/ task[t].struct = p
                                  \/ task[t].page = p
  <2>1. \A t \in Task : t \in H <=> Has(Held[t], p)
    BY DEF Holders
  <2> QED
    BY <2>1, <1>0, HeldNow
<1>7. \A x \in D : x \in Task \X Dir /\ dir[x[1]][x[2]] = p
  OBVIOUS
<1>8. \A x \in A : x \in Task \X Addr /\ pte[x[1]][x[2]].page = p
  OBVIOUS
<1>9. /\ \A t \in Task : \A d \in Dir : dir[t][d] = p => <<t, d>> \in D
      /\ \A t \in Task : \A a \in Addr : pte[t][a].page = p => <<t, a>> \in A
      /\ \A t \in Task : (task[t].struct = p <=> t \in S) /\ (task[t].page = p <=> t \in G)
  OBVIOUS
<1>10. H \subseteq Task
  BY DEF Holders
<1>11. Cardinality({}) = 0
  BY FS_EmptySet
<1> HIDE DEF D, A, S, G, H
<1>a. CASE D # {}
  <2>1. PICK x \in D : TRUE
    BY <1>a
  <2>2. D = {x}
    BY <2>1, <1>0, <1>7, ExclusiveNow
  <2>3. A = {} /\ S = {} /\ G = {}
    BY <2>1, <1>0, <1>7, <1>8, <1>5, ExclusiveNow
  <2>4. H = {x[1]}
    BY <2>2, <2>3, <1>6, <1>7, <1>9, <1>10
  <2>5. Cardinality(D) = 1 /\ Cardinality(H) = 1
    BY <2>2, <2>4, FS_Singleton
  <2> QED
    BY <1>1, <2>3, <2>5, <1>11 DEF H
<1>b. CASE S # {}
  <2>1. PICK x \in S : TRUE
    BY <1>b
  <2>2. S = {x}
    BY <2>1, <1>0, <1>5, ExclusiveNow
  <2>3. A = {} /\ D = {} /\ G = {}
    BY <2>1, <1>0, <1>7, <1>8, <1>5, ExclusiveNow
  <2>4. H = {x}
    BY <2>2, <2>3, <1>5, <1>6, <1>9, <1>10
  <2>5. Cardinality(S) = 1 /\ Cardinality(H) = 1
    BY <2>2, <2>4, FS_Singleton
  <2> QED
    BY <1>1, <2>3, <2>5, <1>11 DEF H
<1>c. CASE G # {}
  <2>1. PICK x \in G : TRUE
    BY <1>c
  <2>2. G = {x}
    BY <2>1, <1>0, <1>5, ExclusiveNow
  <2>3. A = {} /\ D = {} /\ S = {}
    BY <2>1, <1>0, <1>7, <1>8, <1>5, ExclusiveNow
  <2>4. H = {x}
    BY <2>2, <2>3, <1>5, <1>6, <1>9, <1>10
  <2>5. Cardinality(G) = 1 /\ Cardinality(H) = 1
    BY <2>2, <2>4, FS_Singleton
  <2> QED
    BY <1>1, <2>3, <2>5, <1>11 DEF H
<1>d. CASE D = {} /\ S = {} /\ G = {}
  <2>1. Cardinality(A) = Cardinality(H) /\ Cardinality(A) \in Nat
    <3> DEFINE entry == [t \in H |-> CHOOSE x \in A : x[1] = t]
    <3>1. \A x, y \in A : x[1] = y[1] => x = y
      <4> SUFFICES ASSUME NEW x \in A, NEW y \in A, x[1] = y[1]
                   PROVE  x = y
        OBVIOUS
      <4> QED
        BY <1>0, <1>8, ExclusiveNow
    <3>2. \A x \in A : x[1] \in H
      BY <1>6, <1>8
    <3>3. \A t \in H : \E x \in A : x[1] = t
      BY <1>6, <1>9, <1>10, <1>d
    <3>4. \A t \in H : entry[t] \in A /\ entry[t][1] = t
      BY <3>3
    <3>5. ExistsBijection(H, A)
      <4>1. entry \in [H -> A]
        BY <3>4
      <4> HIDE DEF entry
      <4>2. entry \in Bijection(H, A)
        BY <3>1, <3>2, <3>4, <4>1 DEF Bijection, Injection, Surjection, IsInjective
      <4> QED
        BY <4>2 DEF ExistsBijection
    <3>6. IsFiniteSet(H) /\ Cardinality(H) \in Nat
      BY HoldersCount, FS_CardinalityType DEF H
    <3>7. IsFiniteSet(A) /\ Cardinality(A) = Cardinality(H)
      BY <3>5, <3>6, FS_Bijection
    <3> QED
      BY <3>6, <3>7
  <2> QED
    BY <2>1, <1>1, <1>d, <1>11 DEF H
<1> QED
  BY <1>a, <1>b, <1>c, <1>d

\* What a task holds after a step, by the variables.
LEMMA HeldNext ==
    ASSUME TypeOK', NEW t \in Task
    PROVE  /\ Held' \in [Task -> Roles] /\ Held'[t] \in Roles
           /\ \A d \in Dir : Held'[t][<<"table", d>>] = dir'[t][d]
           /\ \A a \in Addr : Held'[t][<<"entry", a>>] = pte'[t][a].page
           /\ Held'[t][Struct] = task'[t].struct /\ Held'[t][Page] = task'[t].page
           /\ \A p \in 0 .. Pages :
                 Has(Held'[t], p) <=> \/ \E d \in Dir : dir'[t][d] = p
                                      \/ \E a \in Addr : pte'[t][a].page = p
                                      \/ task'[t].struct = p
                                      \/ task'[t].page = p
<1>1. dir' \in DirSet /\ pte' \in PteSet /\ task' \in TaskSet
  BY DEF TypeOK, DirSet, PteSet, TaskSet
<1> DEFINE f == HeldBy(dir', pte', task')
<1>2. /\ f \in [Task -> Roles]
      /\ \A d \in Dir : f[t][<<"table", d>>] = dir'[t][d]
      /\ \A a \in Addr : f[t][<<"entry", a>>] = pte'[t][a].page
      /\ f[t][Struct] = task'[t].struct /\ f[t][Page] = task'[t].page
      /\ \A p \in 0 .. Pages :
                 Has(f[t], p) <=> \/ \E d \in Dir : dir'[t][d] = p
                                  \/ \E a \in Addr : pte'[t][a].page = p
                                  \/ task'[t].struct = p
                                  \/ task'[t].page = p
  BY <1>1, HeldAt
<1>3. Held' = f
  BY DEF Held
<1> HIDE DEF f
<1> QED
  BY <1>2, <1>3

\* A step in which one task's frames change as they may.
LEMMA StepMoves ==
    ASSUME TypeOK, TypeOK', Exclusive(Held), NEW t \in Task,
           \A u \in Task \ {t} : /\ dir'[u] = dir[u]
                                 /\ \A a \in Addr : pte'[u][a].page = pte[u][a].page
                                 /\ task'[u].struct = task[u].struct /\ task'[u].page = task[u].page,
           \A r \in Role : May(Held, t, Held'[t], r)
    PROVE  /\ Exclusive(Held)'
           /\ \A p \in Frame : LET n == Cardinality(Holders(Held, p))
                                   k == Cardinality(Holders(Held, p)')
                               IN  /\ n \in 0 .. NR_TASKS /\ k \in 0 .. NR_TASKS
                                   /\ Has(Held'[t], p) /\ ~Has(Held[t], p) => k = n + 1
                                   /\ ~Has(Held'[t], p) /\ Has(Held[t], p) => k = n - 1 /\ n > 0
                                   /\ (Has(Held'[t], p) <=> Has(Held[t], p)) => k = n
<1>1. Held \in [Task -> Roles] /\ Held' \in [Task -> Roles]
  BY HeldType, HeldNext
<1>2. ASSUME NEW u \in Task \ {t}
      PROVE  Held'[u] = Held[u]
  <2>1. Held'[u] \in Roles /\ Held[u] \in Roles
    BY <1>1
  <2>2. ASSUME NEW r \in Role
        PROVE  Held'[u][r] = Held[u][r]
    BY HeldNow, HeldNext, RoleKinds
  <2> QED
    BY <2>1, <2>2 DEF Roles
<1> DEFINE f == Held
           g == Held'
<1>3. Exclusive(f) /\ f \in [Task -> Roles] /\ g \in [Task -> Roles]
  BY <1>1
<1>4. (\A u \in Task \ {t} : g[u] = f[u]) /\ \A r \in Role : May(f, t, g[t], r)
  BY <1>2
<1> HIDE DEF f, g
<1>5. /\ Exclusive(g)
      /\ \A p \in Frame : LET n == Cardinality(Holders(f, p))
                              k == Cardinality(Holders(g, p))
                          IN  /\ n \in 0 .. NR_TASKS /\ k \in 0 .. NR_TASKS
                              /\ Has(g[t], p) /\ ~Has(f[t], p) => k = n + 1
                              /\ ~Has(g[t], p) /\ Has(f[t], p) => k = n - 1 /\ n > 0
                              /\ (Has(g[t], p) <=> Has(f[t], p)) => k = n
  BY <1>3, <1>4, TaskMoves
<1> QED
  BY <1>5 DEF f, g

\* The types of the counts.
LEMMA MapType ==
    ASSUME TypeOK
    PROVE  /\ mem_map \in [Frame -> 0 .. MAP_SIZE - 1] /\ mem_map \in [Frame -> Nat]
           /\ lost \in [Frame -> Nat]
<1>1. mem_map \in [Frame -> 0 .. MAP_SIZE - 1] /\ lost \in [Frame -> Nat]
  BY DEF TypeOK
<1>2. 0 .. MAP_SIZE - 1 \subseteq Nat
  BY Sizes
<1> QED
  BY <1>1, <1>2

\* What Held says of a frame that no task holds.
LEMMA UnheldNow ==
    ASSUME TypeOK, NEW p \in Frame, NEW u \in Task, ~Has(Held[u], p)
    PROVE  /\ \A d \in Dir : dir[u][d] # p
           /\ \A a \in Addr : pte[u][a].page # p
           /\ task[u].struct # p /\ task[u].page # p
BY HeldNow, Sizes

\* The frame that get_free_page takes is free, and no task holds it.
LEMMA NewFrame ==
    ASSUME TypeOK, Counted(Held, mem_map, lost),
           NEW m \in [Frame -> Nat], \A x \in Frame : m[x] = 0 => mem_map[x] = 0, Free(m) # {}
    PROVE  /\ Get(m) \in Frame /\ Get(m) # 0 /\ Get(m) \in 0 .. Pages
           /\ m[Get(m)] = 0 /\ mem_map[Get(m)] = 0 /\ lost[Get(m)] = 0
           /\ \A u \in Task : ~Has(Held[u], Get(m))
           /\ \A u \in Task : /\ \A d \in Dir : dir[u][d] # Get(m)
                              /\ \A a \in Addr : pte[u][a].page # Get(m)
                              /\ task[u].struct # Get(m) /\ task[u].page # Get(m)
           /\ Got(m) \in [Frame -> Nat]
           /\ \A x \in Frame : Got(m)[x] = IF x = Get(m) THEN 1 ELSE m[x]
<1>1. Get(m) \in Frame /\ m[Get(m)] = 0 /\ Got(m) \in [Frame -> Nat]
  BY GotOne
<1>2. \A x \in Frame : Got(m)[x] = IF x = Get(m) THEN 1 ELSE m[x]
  BY GotOne
<1>3. Get(m) # 0 /\ Get(m) \in 0 .. Pages /\ mem_map[Get(m)] = 0
  BY <1>1, Sizes
<1>4. lost[Get(m)] = 0 /\ \A u \in Task : ~Has(Held[u], Get(m))
  BY <1>1, <1>3, FreeUnheld
<1> QED
  BY <1>1, <1>2, <1>3, <1>4, UnheldNow

----------------------------------------------------------------------------
\* Each action keeps it.

\* get_empty_page maps a frame that nobody had (memory.c:187-193).
LEMMA EmptyPageGood ==
    ASSUME TypeOK, halt = "no", Good, NEW t \in Task, NEW a \in Addr, EmptyPage(t, a)
    PROVE  TypeOK' /\ Good'
<1> DEFINE d  == DirOf(a)
           p  == Get(mem_map)
           m1 == Got(mem_map)
           new == dir[t][d] = 0
           q  == Get(m1)
<1>0. d = "top" /\ d \in Dir /\ a \notin Text
  BY AddrAssumption DEF EmptyPage, DirOf, Dir
<1>1. /\ Exclusive(Held) /\ Counted(Held, mem_map, lost) /\ Shape /\ WritableAlone /\ LostMapped
      /\ Runs(t) /\ task[t].at = "user" /\ pte[t][a].page = 0
  BY DEF Good, EmptyPage, Runs
<1>2. /\ Free(mem_map) # {} /\ (new => Free(m1) # {})
      /\ mem_map' = (IF new THEN Got(m1) ELSE m1)
      /\ dir' = (IF new THEN [dir EXCEPT ![t][d] = q] ELSE dir)
      /\ pte' = [pte EXCEPT ![t][a] = [page |-> p, w |-> TRUE, d |-> FALSE]]
      /\ content' = [content EXCEPT ![p] = Zero]
      /\ UNCHANGED <<executable, task, images, halt, view, lost>>
  BY DEF EmptyPage
<1>3. mem_map \in [Frame -> Nat] /\ lost \in [Frame -> Nat] /\ mem_map \in [Frame -> 0 .. MAP_SIZE - 1]
  BY MapType
<1>4. /\ p \in Frame /\ p # 0 /\ p \in 0 .. Pages /\ mem_map[p] = 0 /\ lost[p] = 0
      /\ \A u \in Task : ~Has(Held[u], p)
      /\ \A u \in Task : /\ \A e \in Dir : dir[u][e] # p
                         /\ \A b \in Addr : pte[u][b].page # p
                         /\ task[u].struct # p /\ task[u].page # p
      /\ m1 \in [Frame -> Nat] /\ \A x \in Frame : m1[x] = IF x = p THEN 1 ELSE mem_map[x]
  BY <1>1, <1>2, <1>3, NewFrame
<1>5. new => /\ q \in Frame /\ q # 0 /\ q \in 0 .. Pages /\ q # p /\ mem_map[q] = 0 /\ lost[q] = 0
             /\ \A u \in Task : ~Has(Held[u], q)
             /\ \A u \in Task : /\ \A e \in Dir : dir[u][e] # q
                                /\ \A b \in Addr : pte[u][b].page # q
                                /\ task[u].struct # q /\ task[u].page # q
             /\ \A x \in Frame : Got(m1)[x] = IF x = q THEN 1 ELSE m1[x]
             /\ Got(m1) \in [Frame -> Nat]
  <2>1. \A x \in Frame : m1[x] = 0 => mem_map[x] = 0
    BY <1>4
  <2>2. SUFFICES ASSUME new PROVE Free(m1) # {} /\ m1[q] = 0 /\ q # p
    BY <1>1, <1>2, <1>4, <2>1, NewFrame
  <2>3. Free(m1) # {} /\ m1[q] = 0 /\ q \in Frame
    BY <1>1, <1>2, <1>4, <2>1, <2>2, NewFrame
  <2> QED
    BY <2>3, <1>4
<1> HIDE DEF d, p, m1, q
<1>6. /\ \A u \in Task : \A e \in Dir : dir'[u][e] = IF new /\ u = t /\ e = d THEN q ELSE dir[u][e]
      /\ \A u \in Task : \A b \in Addr : pte'[u][b] = IF u = t /\ b = a THEN [page |-> p, w |-> TRUE, d |-> FALSE]
                                                       ELSE pte[u][b]
      /\ dir' \in [Task -> [Dir -> 0 .. Pages]]
      /\ pte' \in [Task -> [Addr -> [page : 0 .. Pages, w : BOOLEAN, d : BOOLEAN]]]
  BY <1>0, <1>2, <1>4, <1>5 DEF TypeOK
<1>a. \A u \in Task : \A b \in Addr :
         pte'[u][b].page = IF u = t /\ b = a THEN p ELSE pte[u][b].page
  BY <1>6
<1>7. \A x \in Frame : mem_map'[x] = IF x = p \/ (new /\ x = q) THEN 1 ELSE mem_map[x]
  BY <1>2, <1>4, <1>5
<1>8. TypeOK'
  <2>1. mem_map' \in [Frame -> 0 .. MAP_SIZE - 1]
    <3>1. mem_map' \in [Frame -> Nat]
      BY <1>2, <1>4, <1>5
    <3>2. ASSUME NEW x \in Frame
          PROVE  mem_map'[x] \in 0 .. MAP_SIZE - 1
      <4>1. mem_map[x] \in 0 .. MAP_SIZE - 1 /\ 1 \in 0 .. MAP_SIZE - 1
        BY <1>3, Sizes
      <4> QED
        BY <4>1, <1>7
    <3> QED
      BY <3>1, <3>2
  <2>2. content' \in [Frame -> Value]
    <3>1. Zero \in Value
      BY DEF Value
    <3>2. content \in [Frame -> Value]
      BY DEF TypeOK
    <3> QED
      BY <3>1, <3>2, <1>2, <1>4
  <2> QED
    BY <1>2, <1>6, <2>1, <2>2 DEF TypeOK
<1> DEFINE h == Held'[t]
<1>9. /\ \A e \in Dir : Held[t][<<"table", e>>] = dir[t][e]
      /\ \A b \in Addr : Held[t][<<"entry", b>>] = pte[t][b].page
      /\ Held[t][Struct] = task[t].struct /\ Held[t][Page] = task[t].page
      /\ \A x \in 0 .. Pages : Has(Held[t], x) <=> \/ \E e \in Dir : dir[t][e] = x
                                                   \/ \E b \in Addr : pte[t][b].page = x
                                                   \/ task[t].struct = x
                                                   \/ task[t].page = x
  BY HeldNow
<1>10. /\ \A e \in Dir : h[<<"table", e>>] = IF new /\ e = d THEN q ELSE dir[t][e]
       /\ \A b \in Addr : h[<<"entry", b>>] = IF b = a THEN p ELSE pte[t][b].page
       /\ h[Struct] = task[t].struct /\ h[Page] = task[t].page
  BY <1>2, <1>6, <1>8, HeldNext
<1>11. \A x \in 0 .. Pages : Has(h, x) <=> \/ \E e \in Dir : dir'[t][e] = x
                                           \/ \E b \in Addr : pte'[t][b].page = x
                                           \/ task'[t].struct = x
                                           \/ task'[t].page = x
  BY <1>8, HeldNext
<1>12. \A r \in Role : May(Held, t, h, r)
  <2> HIDE DEF h
  <2> SUFFICES ASSUME NEW r \in Role
               PROVE  May(Held, t, h, r)
    OBVIOUS
  <2>1. \A s \in Role : h[s] = p => s = <<"entry", a>>
    BY <1>4, <1>5, <1>10, RoleKinds
  <2>2. new => \A s \in Role : h[s] = q => s = <<"table", d>>
    BY <1>4, <1>5, <1>10, RoleKinds
  <2>3. CASE r = <<"entry", a>>
    BY <2>1, <2>3, <1>4, <1>10 DEF May
  <2>4. CASE new /\ r = <<"table", d>>
    BY <2>2, <2>4, <1>0, <1>5, <1>10 DEF May
  <2>5. CASE r # <<"entry", a>> /\ ~(new /\ r = <<"table", d>>)
    <3>1. h[r] = Held[t][r]
      BY <2>5, <1>9, <1>10, RoleKinds
    <3> QED
      BY <3>1 DEF May
  <2> QED
    BY <2>3, <2>4, <2>5
<1>13. \A u \in Task \ {t} : /\ dir'[u] = dir[u]
                             /\ \A b \in Addr : pte'[u][b].page = pte[u][b].page
                             /\ task'[u].struct = task[u].struct /\ task'[u].page = task[u].page
  BY <1>2, <1>6 DEF TypeOK
<1>14. /\ Exclusive(Held)'
       /\ \A x \in Frame : LET n == Cardinality(Holders(Held, x))
                               k == Cardinality(Holders(Held, x)')
                           IN  /\ n \in 0 .. NR_TASKS /\ k \in 0 .. NR_TASKS
                               /\ Has(h, x) /\ ~Has(Held[t], x) => k = n + 1
                               /\ ~Has(h, x) /\ Has(Held[t], x) => k = n - 1 /\ n > 0
                               /\ (Has(h, x) <=> Has(Held[t], x)) => k = n
  BY <1>1, <1>8, <1>12, <1>13, StepMoves
<1> HIDE DEF h
<1>15. Counted(Held, mem_map, lost)'
  <2> SUFFICES ASSUME NEW x \in Frame
               PROVE  mem_map'[x] = Cardinality(Holders(Held, x)') + lost'[x]
    BY DEF Counted
  <2>1. mem_map[x] = Cardinality(Holders(Held, x)) + lost[x]
    BY <1>1 DEF Counted
  <2>2. x \in 0 .. Pages /\ x # 0
    BY Sizes
  <2>3. Has(h, x) <=> x = p \/ (new /\ x = q) \/ Has(Held[t], x)
    BY <2>2, <1>0, <1>1, <1>2, <1>6, <1>9, <1>11
  <2>4. lost'[x] = lost[x] /\ lost[x] \in Nat
    BY <1>2, <1>3
  <2>5. CASE x = p \/ (new /\ x = q)
    <3>1. ~Has(Held[t], x) /\ mem_map[x] = 0 /\ lost[x] = 0
      BY <2>5, <1>4, <1>5
    <3> QED
      BY <2>1, <2>3, <2>4, <2>5, <3>1, <1>7, <1>14
  <2>6. CASE ~(x = p \/ (new /\ x = q))
    BY <2>1, <2>3, <2>4, <2>6, <1>7, <1>14
  <2> QED
    BY <2>5, <2>6
<1>16. Shape'
  <2> SUFFICES ASSUME NEW u \in Task
               PROVE  /\ task[u].at = "none" <=> task[u].struct = 0
                      /\ task[u].at \in {"read", "exec"} <=> task[u].page # 0
                      /\ task[u].at \in {"none", "zombie"} =>
                            (\A e \in Dir : dir'[u][e] = 0) /\ (\A b \in Addr : pte'[u][b].page = 0)
                      /\ task[u].at \in {"user", "read", "exec"} => dir'[u]["top"] # 0 /\ executable[u] \in Exe
                      /\ task[u].at = "read" => task[u].addr \in Text
                      /\ \A b \in Addr : pte'[u][b].page # 0 => dir'[u][DirOf(b)] # 0
    BY <1>2 DEF Shape
  <2>1. /\ task[u].at = "none" <=> task[u].struct = 0
        /\ task[u].at \in {"read", "exec"} <=> task[u].page # 0
        /\ task[u].at \in {"none", "zombie"} =>
              (\A e \in Dir : dir[u][e] = 0) /\ (\A b \in Addr : pte[u][b].page = 0)
        /\ task[u].at \in {"user", "read", "exec"} => dir[u]["top"] # 0 /\ executable[u] \in Exe
        /\ task[u].at = "read" => task[u].addr \in Text
        /\ \A b \in Addr : pte[u][b].page # 0 => dir[u][DirOf(b)] # 0
    BY <1>1 DEF Shape
  <2>2. \A e \in Dir : dir[u][e] # 0 => dir'[u][e] # 0
    BY <1>5, <1>6
  <2>3. dir'[t][d] # 0
    BY <1>0, <1>5, <1>6
  <2>4. (\A b \in Addr : DirOf(b) \in Dir) /\ "top" \in Dir
    BY DEF DirOf, Dir
  <2>5. \A b \in Addr : pte'[u][b].page # 0 => dir'[u][DirOf(b)] # 0
    <3> SUFFICES ASSUME NEW b \in Addr, pte'[u][b].page # 0
                 PROVE  dir'[u][DirOf(b)] # 0
      OBVIOUS
    <3>1. CASE u = t /\ b = a
      BY <3>1, <2>3 DEF d
    <3>2. CASE ~(u = t /\ b = a)
      BY <3>2, <2>1, <2>2, <2>4, <1>6
    <3> QED
      BY <3>1, <3>2
  <2>6. CASE u = t
    BY <2>6, <2>1, <2>2, <2>4, <2>5, <1>1
  <2>7. CASE u # t
    BY <2>7, <2>1, <2>2, <2>4, <2>5, <1>6
  <2> QED
    BY <2>6, <2>7
<1>17. WritableAlone'
  <2> SUFFICES ASSUME NEW u \in Task, NEW b \in Addr, pte'[u][b].w
               PROVE  /\ pte'[u][b].page # 0
                      /\ \A v \in Task : \A c \in Addr : pte'[v][c].page = pte'[u][b].page => v = u /\ c = b
    BY DEF WritableAlone
  <2>1. CASE u = t /\ b = a
    BY <2>1, <1>4, <1>a
  <2>2. CASE ~(u = t /\ b = a)
    <3>1. pte'[u][b] = pte[u][b]
      BY <2>2, <1>6
    <3>2. /\ pte[u][b].page # 0
          /\ \A v \in Task : \A c \in Addr : pte[v][c].page = pte[u][b].page => v = u /\ c = b
      BY <3>1, <1>1 DEF WritableAlone
    <3> QED
      BY <3>1, <3>2, <2>2, <1>4, <1>a
  <2> QED
    BY <2>1, <2>2
<1>18. LostMapped'
  BY <1>1, <1>2, <1>5, <1>6 DEF LostMapped
<1> QED
  BY <1>8, <1>14, <1>15, <1>16, <1>17, <1>18 DEF Good

\* ... and with it the counts.
LEMMA StepCounts ==
    ASSUME TypeOK, TypeOK', Exclusive(Held), Counted(Held, mem_map, lost), NEW t \in Task,
           \A u \in Task \ {t} : /\ dir'[u] = dir[u]
                                 /\ \A a \in Addr : pte'[u][a].page = pte[u][a].page
                                 /\ task'[u].struct = task[u].struct /\ task'[u].page = task[u].page,
           \A r \in Role : May(Held, t, Held'[t], r),
           \A p \in Frame :
             /\ Has(Held'[t], p) /\ ~Has(Held[t], p) => mem_map'[p] + lost[p] = mem_map[p] + lost'[p] + 1
             /\ ~Has(Held'[t], p) /\ Has(Held[t], p) => mem_map'[p] + lost[p] = mem_map[p] + lost'[p] - 1
             /\ (Has(Held'[t], p) <=> Has(Held[t], p)) => mem_map'[p] + lost[p] = mem_map[p] + lost'[p]
    PROVE  Exclusive(Held)' /\ Counted(Held, mem_map, lost)'
<1>1. /\ Exclusive(Held)'
      /\ \A p \in Frame : LET n == Cardinality(Holders(Held, p))
                              k == Cardinality(Holders(Held, p)')
                          IN  /\ n \in 0 .. NR_TASKS /\ k \in 0 .. NR_TASKS
                              /\ Has(Held'[t], p) /\ ~Has(Held[t], p) => k = n + 1
                              /\ ~Has(Held'[t], p) /\ Has(Held[t], p) => k = n - 1 /\ n > 0
                              /\ (Has(Held'[t], p) <=> Has(Held[t], p)) => k = n
  BY StepMoves
<1>2. ASSUME NEW p \in Frame
      PROVE  mem_map'[p] = Cardinality(Holders(Held, p)') + lost'[p]
  <2>1. mem_map[p] = Cardinality(Holders(Held, p)) + lost[p]
    BY DEF Counted
  <2>2. mem_map' \in [Frame -> 0 .. MAP_SIZE - 1] /\ lost' \in [Frame -> Nat]
    BY DEF TypeOK
  <2>3. mem_map[p] \in Nat /\ mem_map'[p] \in Nat /\ lost'[p] \in Nat /\ lost[p] \in Nat
    BY <2>2, MapType, Sizes
  <2> QED
    BY <1>1, <2>1, <2>3
<1> QED
  BY <1>1, <1>2 DEF Counted

\* do_execve takes a frame for the arguments and frees the tables (exec.c:192-208).
LEMMA ExecGood ==
    ASSUME TypeOK, halt = "no", Good, NEW t \in Task, NEW e \in Exe, Exec(t, e)
    PROVE  TypeOK' /\ Good'
<1> DEFINE p == Get(mem_map)
<1>1. /\ Exclusive(Held) /\ Counted(Held, mem_map, lost) /\ Shape /\ WritableAlone /\ LostMapped
      /\ task[t].at = "user" /\ task[t].page = 0
  BY DEF Good, Exec, Runs, Shape
<1>2. /\ Free(mem_map) # {} /\ images < MaxImages
      /\ mem_map' = Got(mem_map)
      /\ content' = [content EXCEPT ![p] = By(t)]
      /\ task' = [task EXCEPT ![t].at = "exec", ![t].page = p]
      /\ executable' = [executable EXCEPT ![t] = e]
      /\ images' = images + 1
      /\ UNCHANGED <<dir, pte, halt, view, lost>>
  BY DEF Exec
<1>3. mem_map \in [Frame -> Nat] /\ lost \in [Frame -> Nat] /\ mem_map \in [Frame -> 0 .. MAP_SIZE - 1]
  BY MapType
<1>4. /\ p \in Frame /\ p # 0 /\ p \in 0 .. Pages /\ mem_map[p] = 0 /\ lost[p] = 0
      /\ \A u \in Task : ~Has(Held[u], p)
      /\ \A u \in Task : /\ \A d \in Dir : dir[u][d] # p
                         /\ \A b \in Addr : pte[u][b].page # p
                         /\ task[u].struct # p /\ task[u].page # p
      /\ mem_map' \in [Frame -> Nat] /\ \A x \in Frame : mem_map'[x] = IF x = p THEN 1 ELSE mem_map[x]
  BY <1>1, <1>2, <1>3, NewFrame
<1> HIDE DEF p
<1>5. /\ task' \in TaskSet
      /\ \A u \in Task \ {t} : task'[u] = task[u]
      /\ task'[t].struct = task[t].struct /\ task'[t].page = p /\ task'[t].at = "exec"
      /\ task'[t].addr = task[t].addr
  <2>1. task \in TaskSet
    BY HeldType
  <2> QED
    BY <2>1, <1>2, <1>4 DEF TaskSet
<1>6. TypeOK'
  <2>1. mem_map' \in [Frame -> 0 .. MAP_SIZE - 1]
    <3>1. ASSUME NEW x \in Frame
          PROVE  mem_map'[x] \in 0 .. MAP_SIZE - 1
      <4>1. mem_map[x] \in 0 .. MAP_SIZE - 1 /\ 1 \in 0 .. MAP_SIZE - 1
        BY <1>3, Sizes
      <4> QED
        BY <4>1, <1>4
    <3> QED
      BY <3>1, <1>4
  <2>2. content' \in [Frame -> Value]
    <3>1. By(t) \in Value
      BY DEF Value
    <3>2. content \in [Frame -> Value]
      BY DEF TypeOK
    <3> QED
      BY <3>1, <3>2, <1>2, <1>4
  <2>3. images' \in 0 .. MaxImages /\ executable' \in [Task -> Exe \cup {None}]
    <3>1. images \in 0 .. MaxImages /\ executable \in [Task -> Exe \cup {None}]
      BY DEF TypeOK
    <3> QED
      BY <3>1, <1>2, SizesAssumption
  <2>4. task' \in [Task -> [at : {"none", "user", "read", "exec", "zombie"}, struct : 0 .. Pages,
                           addr : Addr \cup {None}, page : 0 .. Pages]]
    BY <1>5 DEF TaskSet
  <2> QED
    BY <1>2, <2>1, <2>2, <2>3, <2>4 DEF TypeOK
<1> DEFINE h == Held'[t]
<1>7. /\ \A d \in Dir : Held[t][<<"table", d>>] = dir[t][d]
      /\ \A b \in Addr : Held[t][<<"entry", b>>] = pte[t][b].page
      /\ Held[t][Struct] = task[t].struct /\ Held[t][Page] = task[t].page
      /\ \A x \in 0 .. Pages : Has(Held[t], x) <=> \/ \E d \in Dir : dir[t][d] = x
                                                   \/ \E b \in Addr : pte[t][b].page = x
                                                   \/ task[t].struct = x
                                                   \/ task[t].page = x
  BY HeldNow
<1>8. dir' = dir /\ pte' = pte
  BY <1>2
<1>9. /\ \A d \in Dir : h[<<"table", d>>] = dir[t][d]
      /\ \A b \in Addr : h[<<"entry", b>>] = pte[t][b].page
      /\ h[Struct] = task[t].struct /\ h[Page] = p
      /\ \A x \in 0 .. Pages : Has(h, x) <=> \/ \E d \in Dir : dir[t][d] = x
                                             \/ \E b \in Addr : pte[t][b].page = x
                                             \/ task[t].struct = x
                                             \/ p = x
  BY <1>5, <1>6, <1>8, HeldNext
<1>10. \A r \in Role : May(Held, t, h, r)
  <2> HIDE DEF h
  <2>1. \A s \in Role : h[s] = p => s = Page
    BY <1>4, <1>9, RoleKinds
  <2>2. \A r \in Role \ {Page} : h[r] = Held[t][r]
    BY <1>7, <1>9, RoleKinds
  <2> QED
    BY <2>1, <2>2, <1>4, <1>9 DEF May
<1>11. Exclusive(Held)' /\ Counted(Held, mem_map, lost)'
  <2>1. \A u \in Task \ {t} : /\ dir'[u] = dir[u]
                              /\ \A b \in Addr : pte'[u][b].page = pte[u][b].page
                              /\ task'[u].struct = task[u].struct /\ task'[u].page = task[u].page
    BY <1>5, <1>8
  <2>2. ASSUME NEW x \in Frame
        PROVE  /\ Has(h, x) /\ ~Has(Held[t], x) => mem_map'[x] + lost[x] = mem_map[x] + lost'[x] + 1
               /\ ~Has(h, x) /\ Has(Held[t], x) => mem_map'[x] + lost[x] = mem_map[x] + lost'[x] - 1
               /\ (Has(h, x) <=> Has(Held[t], x)) => mem_map'[x] + lost[x] = mem_map[x] + lost'[x]
    <3> HIDE DEF h
    <3>1. x \in 0 .. Pages /\ x # 0
      BY Sizes
    <3>2. Has(h, x) <=> x = p \/ Has(Held[t], x)
      BY <3>1, <1>1, <1>7, <1>9
    <3>3. lost'[x] = lost[x] /\ lost[x] \in Nat /\ mem_map[x] \in Nat
      BY <1>2, <1>3
    <3>4. CASE x = p
      BY <3>2, <3>3, <3>4, <1>4
    <3>5. CASE x # p
      BY <3>2, <3>3, <3>5, <1>4
    <3> QED
      BY <3>4, <3>5
  <2> QED
    BY <2>1, <2>2, <1>1, <1>6, <1>10, StepCounts
<1>12. Shape'
  <2>1. executable'[t] \in Exe /\ \A u \in Task \ {t} : executable'[u] = executable[u] /\ task'[u] = task[u]
    BY <1>2, <1>5 DEF TypeOK
  <2>2. task[t].struct # 0 /\ dir[t]["top"] # 0 /\ \A u \in Task : \A b \in Addr : pte[u][b].page # 0 => dir[u][DirOf(b)] # 0
    BY <1>1 DEF Shape
  <2> QED
    BY <2>1, <2>2, <1>1, <1>4, <1>5, <1>8 DEF Shape
<1>13. WritableAlone'
  BY <1>1, <1>8 DEF WritableAlone
<1>14. LostMapped'
  <2>1. lost' = lost /\ lost[p] = 0 /\ LostMapped
    BY <1>1, <1>2, <1>4
  <2>2. \A u \in Task : task'[u].struct = task[u].struct /\ task'[u].page = IF u = t THEN p ELSE task[u].page
    BY <1>5
  <2> QED
    BY <2>1, <2>2, <1>8 DEF LostMapped
<1> QED
  BY <1>6, <1>11, <1>12, <1>13, <1>14 DEF Good

\* The type invariant, part by part.
LEMMA TypeParts ==
    TypeOK <=> /\ mem_map \in [Frame -> 0 .. MAP_SIZE - 1]
               /\ dir \in DirSet /\ pte \in PteSet /\ task \in TaskSet
               /\ content \in [Frame -> Value] /\ view \in [Task -> [Addr -> Value]]
               /\ executable \in [Task -> Exe \cup {None}]
               /\ images \in 0 .. MaxImages
               /\ halt \in {"no", "no frame", "free free page"}
               /\ lost \in [Frame -> Nat]
BY DEF TypeOK, DirSet, PteSet, TaskSet

\* The same, after a step.
LEMMA TypePartsNext ==
    TypeOK' <=> /\ mem_map' \in [Frame -> 0 .. MAP_SIZE - 1]
                /\ dir' \in DirSet /\ pte' \in PteSet /\ task' \in TaskSet
                /\ content' \in [Frame -> Value] /\ view' \in [Task -> [Addr -> Value]]
                /\ executable' \in [Task -> Exe \cup {None}]
                /\ images' \in 0 .. MaxImages
                /\ halt' \in {"no", "no frame", "free free page"}
                /\ lost' \in [Frame -> Nat]
BY DEF TypeOK, DirSet, PteSet, TaskSet

\* get_free_page leaves values in the frames (swap.c:13-17).
LEMMA KeptType ==
    ASSUME TypeOK, NEW m
    PROVE  Kept(m) \in [Frame -> Value]
<1>1. Zero \in Value
  BY DEF Value
<1>2. content \in [Frame -> Value]
  BY TypeParts
<1> QED
  BY <1>1, <1>2 DEF Kept

\* free_page_tables frees no frame that is free.
LEMMA TablesCounted ==
    ASSUME TypeOK, Good, NEW t \in Task
    PROVE  \A p \in Frame : /\ Uses(t, p) \in {0, 1}
                            /\ Uses(t, p) = 1 <=> \/ \E d \in Dir : dir[t][d] = p
                                                  \/ \E a \in Addr : pte[t][a].page = p
                            /\ mem_map[p] >= Uses(t, p)
                            /\ Uses(t, p) = 1 => mem_map[p] > lost[p]
<1> SUFFICES ASSUME NEW p \in Frame
             PROVE  /\ Uses(t, p) \in {0, 1}
                    /\ Uses(t, p) = 1 <=> \/ \E d \in Dir : dir[t][d] = p
                                          \/ \E a \in Addr : pte[t][a].page = p
                    /\ mem_map[p] >= Uses(t, p)
                    /\ Uses(t, p) = 1 => mem_map[p] > lost[p]
  OBVIOUS
<1>1. Uses(t, p) = IF (\E d \in Dir : dir[t][d] = p) \/ (\E a \in Addr : pte[t][a].page = p)
                   THEN 1 ELSE 0
  BY UsesOnce DEF Good
<1>2. mem_map[p] \in Nat /\ lost[p] \in Nat
  BY MapType
<1>3. (\E d \in Dir : dir[t][d] = p) \/ (\E a \in Addr : pte[t][a].page = p) => mem_map[p] > lost[p]
  <2>1. (\E d \in Dir : dir[t][d] = p) \/ (\E a \in Addr : pte[t][a].page = p) => Has(Held[t], p)
    BY HeldNow, Sizes
  <2> QED
    BY <2>1, HeldCounts DEF Good
<1> QED
  BY <1>1, <1>2, <1>3

\* do_exit takes one from the count of each frame the task maps (exit.c:137-154).
LEMMA ExitGood ==
    ASSUME TypeOK, halt = "no", Good, NEW t \in Task, Exit(t)
    PROVE  TypeOK' /\ Good' /\ halt' = "no"
<1>1. /\ Exclusive(Held) /\ Counted(Held, mem_map, lost) /\ Shape /\ WritableAlone /\ LostMapped
      /\ task[t].at = "user" /\ task[t].page = 0 /\ task[t].struct # 0
  BY DEF Good, Exit, Runs, Shape
<1>2. \A p \in Frame : /\ Uses(t, p) \in {0, 1}
                       /\ Uses(t, p) = 1 <=> \/ \E d \in Dir : dir[t][d] = p
                                             \/ \E a \in Addr : pte[t][a].page = p
                       /\ mem_map[p] >= Uses(t, p)
  BY TablesCounted
<1>3. mem_map \in [Frame -> Nat] /\ lost \in [Frame -> Nat] /\ mem_map \in [Frame -> 0 .. MAP_SIZE - 1]
  BY MapType
<1>4. ~ \E p \in Frame : mem_map[p] < Uses(t, p)
  BY <1>2, <1>3
<1>5. /\ mem_map' = [p \in Frame |-> mem_map[p] - Uses(t, p)]
      /\ dir' = [dir EXCEPT ![t] = [d \in Dir |-> 0]]
      /\ pte' = [pte EXCEPT ![t] = [a \in Addr |-> Absent]]
      /\ content' = Kept(mem_map')
      /\ executable' = [executable EXCEPT ![t] = None]
      /\ task' = [task EXCEPT ![t].at = "zombie"]
      /\ view' = [view EXCEPT ![t] = [a \in Addr |-> Zero]]
      /\ UNCHANGED <<halt, lost, images>>
  BY <1>4 DEF Exit, FreeTables
<1>6. /\ task' \in TaskSet
      /\ \A u \in Task : task'[u].struct = task[u].struct /\ task'[u].page = task[u].page
      /\ \A u \in Task \ {t} : task'[u] = task[u]
      /\ task'[t].at = "zombie"
  <2>1. task \in TaskSet
    BY HeldType
  <2> QED
    BY <2>1, <1>5 DEF TaskSet
<1>7. /\ dir' \in DirSet /\ pte' \in PteSet
      /\ \A u \in Task \ {t} : dir'[u] = dir[u] /\ pte'[u] = pte[u]
      /\ \A d \in Dir : dir'[t][d] = 0
      /\ \A a \in Addr : pte'[t][a].page = 0 /\ ~pte'[t][a].w
  <2>1. dir \in DirSet /\ pte \in PteSet
    BY HeldType
  <2>2. Absent \in [page : 0 .. Pages, w : BOOLEAN, d : BOOLEAN] /\ Absent.page = 0 /\ ~Absent.w
    BY Sizes DEF Absent
  <2>3. dir' \in DirSet /\ (\A d \in Dir : dir'[t][d] = 0) /\ \A u \in Task \ {t} : dir'[u] = dir[u]
    BY <2>1, <1>5, Sizes DEF DirSet
  <2>4. pte' \in PteSet /\ (\A a \in Addr : pte'[t][a] = Absent) /\ \A u \in Task \ {t} : pte'[u] = pte[u]
    BY <2>1, <2>2, <1>5 DEF PteSet
  <2> QED
    BY <2>2, <2>3, <2>4
<1>8. \A p \in Frame : mem_map'[p] = mem_map[p] - Uses(t, p) /\ mem_map'[p] \in 0 .. MAP_SIZE - 1
  <2> SUFFICES ASSUME NEW p \in Frame
               PROVE  mem_map'[p] = mem_map[p] - Uses(t, p) /\ mem_map'[p] \in 0 .. MAP_SIZE - 1
    OBVIOUS
  <2>1. mem_map[p] \in 0 .. MAP_SIZE - 1
    BY <1>3
  <2> QED
    BY <2>1, <1>2, <1>5, Sizes
<1>9. TypeOK'
  <2>1. mem_map' \in [Frame -> 0 .. MAP_SIZE - 1]
    BY <1>5, <1>8
  <2>2. content' \in [Frame -> Value]
    BY <1>5, KeptType
  <2>3. executable' \in [Task -> Exe \cup {None}]
    BY <1>5 DEF TypeOK
  <2>4. view' \in [Task -> [Addr -> Value]]
    <3>1. Zero \in Value
      BY DEF Value
    <3>2. view \in [Task -> [Addr -> Value]]
      BY DEF TypeOK
    <3> QED
      BY <3>1, <3>2, <1>5
  <2> QED
    BY <1>5, <1>6, <1>7, <2>1, <2>2, <2>3, <2>4, TypeParts, TypePartsNext
<1> DEFINE h == Held'[t]
<1>10. /\ \A d \in Dir : Held[t][<<"table", d>>] = dir[t][d]
       /\ \A b \in Addr : Held[t][<<"entry", b>>] = pte[t][b].page
       /\ Held[t][Struct] = task[t].struct /\ Held[t][Page] = task[t].page
       /\ \A x \in 0 .. Pages : Has(Held[t], x) <=> \/ \E d \in Dir : dir[t][d] = x
                                                    \/ \E b \in Addr : pte[t][b].page = x
                                                    \/ task[t].struct = x
                                                    \/ task[t].page = x
  BY HeldNow
<1>11. /\ \A d \in Dir : h[<<"table", d>>] = 0
       /\ \A b \in Addr : h[<<"entry", b>>] = 0
       /\ h[Struct] = task[t].struct /\ h[Page] = 0
       /\ \A x \in 0 .. Pages : x # 0 => (Has(h, x) <=> x = task[t].struct)
  BY <1>1, <1>6, <1>7, <1>9, HeldNext
<1>12. \A r \in Role : May(Held, t, h, r)
  <2> HIDE DEF h
  <2>1. \A r \in Role : h[r] = 0 \/ h[r] = Held[t][r]
    BY <1>10, <1>11, RoleKinds
  <2> QED
    BY <2>1 DEF May
<1>13. Exclusive(Held)' /\ Counted(Held, mem_map, lost)'
  <2>1. \A u \in Task \ {t} : /\ dir'[u] = dir[u]
                              /\ \A b \in Addr : pte'[u][b].page = pte[u][b].page
                              /\ task'[u].struct = task[u].struct /\ task'[u].page = task[u].page
    BY <1>6, <1>7
  <2>2. ASSUME NEW x \in Frame
        PROVE  /\ Has(h, x) /\ ~Has(Held[t], x) => mem_map'[x] + lost[x] = mem_map[x] + lost'[x] + 1
               /\ ~Has(h, x) /\ Has(Held[t], x) => mem_map'[x] + lost[x] = mem_map[x] + lost'[x] - 1
               /\ (Has(h, x) <=> Has(Held[t], x)) => mem_map'[x] + lost[x] = mem_map[x] + lost'[x]
    <3> HIDE DEF h
    <3>1. x \in 0 .. Pages /\ x # 0
      BY Sizes
    <3>2. Has(Held[t], x) <=> x = task[t].struct \/ Uses(t, x) = 1
      BY <3>1, <1>1, <1>2, <1>10
    <3>3. Uses(t, x) = 1 => x # task[t].struct
      BY <3>1, <1>1, <1>2, ExclusiveNow
    <3>4. lost'[x] = lost[x] /\ lost[x] \in Nat /\ mem_map[x] \in Nat
      BY <1>3, <1>5
    <3>5. Has(h, x) <=> x = task[t].struct
      BY <3>1, <1>11
    <3> QED
      BY <3>2, <3>3, <3>4, <3>5, <1>2, <1>8
  <2> QED
    BY <2>1, <2>2, <1>1, <1>9, <1>12, StepCounts
<1>14. Shape'
  <2>1. \A u \in Task \ {t} : executable'[u] = executable[u] /\ task'[u] = task[u]
    BY <1>5, <1>6 DEF TypeOK
  <2> QED
    BY <2>1, <1>1, <1>6, <1>7 DEF Shape
<1>15. WritableAlone'
  BY <1>1, <1>7 DEF WritableAlone
<1>16. LostMapped'
  BY <1>1, <1>5, <1>6, <1>7 DEF LostMapped
<1> QED
  BY <1>5, <1>9, <1>13, <1>14, <1>15, <1>16 DEF Good

\* A frame with one user, that a task holds, is held by no other task.
LEMMA SoleUser ==
    ASSUME TypeOK, Counted(Held, mem_map, lost), NEW t \in Task, NEW p \in Frame,
           Has(Held[t], p), mem_map[p] = 1
    PROVE  lost[p] = 0 /\ \A u \in Task \ {t} : ~Has(Held[u], p)
<1> DEFINE H == Holders(Held, p)
<1>1. mem_map[p] = Cardinality(H) + lost[p] /\ t \in H
  BY DEF Counted, Holders
<1>2. IsFiniteSet(H) /\ Cardinality(H) \in Nat /\ lost[p] \in Nat
  BY HoldersCount, FS_CardinalityType, MapType
<1>3. Cardinality(H) # 0
  BY HoldersCount
<1>4. Cardinality(H) = 1 /\ lost[p] = 0
  BY <1>1, <1>2, <1>3
<1>5. PICK x : H = {x}
  <2> HIDE DEF H
  <2> QED
    BY <1>2, <1>4, FS_Singleton
<1>6. \A u \in Task : Has(Held[u], p) => u \in H
  BY DEF Holders
<1> HIDE DEF H
<1> QED
  BY <1>1, <1>4, <1>5, <1>6

\* A frame that only one task holds, none of it lost, has one user.
LEMMA OneUser ==
    ASSUME TypeOK, Counted(Held, mem_map, lost), NEW t \in Task, NEW p \in Frame,
           Has(Held[t], p), lost[p] = 0, \A u \in Task \ {t} : ~Has(Held[u], p)
    PROVE  mem_map[p] = 1
<1>1. Holders(Held, p) = {t}
  BY DEF Holders
<1>2. Cardinality(Holders(Held, p)) = 1
  BY <1>1, FS_Singleton
<1> QED
  BY <1>2 DEF Counted

\* release frees the structure of a zombie (exit.c:19-30).
LEMMA ReleaseGood ==
    ASSUME TypeOK, halt = "no", Good, NEW t \in Task, Release(t)
    PROVE  TypeOK' /\ Good' /\ halt' = "no"
<1> DEFINE p == task[t].struct
<1>1. /\ Exclusive(Held) /\ Counted(Held, mem_map, lost) /\ Shape /\ WritableAlone /\ LostMapped
      /\ task[t].at = "zombie" /\ p # 0 /\ task[t].page = 0
      /\ (\A d \in Dir : dir[t][d] = 0) /\ (\A a \in Addr : pte[t][a].page = 0)
  BY DEF Good, Release, Shape
<1>2. mem_map \in [Frame -> Nat] /\ lost \in [Frame -> Nat] /\ mem_map \in [Frame -> 0 .. MAP_SIZE - 1]
  BY MapType
<1>3. p \in Frame /\ p \in 0 .. Pages /\ Has(Held[t], p) /\ \A u \in Task \ {t} : task[u].struct # p
  <2>1. p \in 0 .. Pages
    BY HeldType DEF TaskSet
  <2>2. p \in Frame
    BY <2>1, <1>1, Sizes
  <2> QED
    BY <2>1, <2>2, <1>1, HeldNow, ExclusiveNow
<1>4. mem_map[p] > lost[p] /\ lost[p] \in Nat /\ mem_map[p] \in Nat
  BY <1>1, <1>2, <1>3, HeldCounts
<1>5. /\ mem_map' = [mem_map EXCEPT ![p] = @ - 1]
      /\ task' = [task EXCEPT ![t] = NoTask]
      /\ UNCHANGED <<dir, pte, content, executable, images, view, lost, halt>>
  <2>1. mem_map[p] # 0
    BY <1>4
  <2> QED
    BY <2>1 DEF Release
<1>6. /\ task' \in TaskSet
      /\ \A u \in Task \ {t} : task'[u] = task[u]
      /\ task'[t] = NoTask
      /\ NoTask.at = "none" /\ NoTask.struct = 0 /\ NoTask.page = 0
  <2>1. task \in TaskSet
    BY HeldType
  <2>2. NoTask \in [at : {"none", "user", "read", "exec", "zombie"}, struct : 0 .. Pages,
                    addr : Addr \cup {None}, page : 0 .. Pages]
    BY Sizes DEF NoTask
  <2> QED
    BY <2>1, <2>2, <1>5 DEF TaskSet, NoTask
<1>7. \A x \in Frame : /\ mem_map'[x] = IF x = p THEN mem_map[x] - 1 ELSE mem_map[x]
                       /\ mem_map'[x] \in 0 .. MAP_SIZE - 1
  <2> SUFFICES ASSUME NEW x \in Frame
               PROVE  /\ mem_map'[x] = IF x = p THEN mem_map[x] - 1 ELSE mem_map[x]
                      /\ mem_map'[x] \in 0 .. MAP_SIZE - 1
    OBVIOUS
  <2>1. mem_map[x] \in 0 .. MAP_SIZE - 1
    BY <1>2
  <2> QED
    BY <2>1, <1>2, <1>4, <1>5, Sizes
<1>8. TypeOK'
  <2>1. mem_map' \in [Frame -> 0 .. MAP_SIZE - 1]
    BY <1>2, <1>5, <1>7
  <2> QED
    BY <1>5, <1>6, <2>1, TypeParts, TypePartsNext
<1> HIDE DEF p
<1> DEFINE h == Held'[t]
<1>9. \A x \in 0 .. Pages : x # 0 => (Has(Held[t], x) <=> x = p)
  <2>1. \A x \in 0 .. Pages : Has(Held[t], x) <=> \/ \E d \in Dir : dir[t][d] = x
                                                  \/ \E b \in Addr : pte[t][b].page = x
                                                  \/ task[t].struct = x
                                                  \/ task[t].page = x
    BY HeldNow
  <2> QED
    BY <2>1, <1>1 DEF p
<1>10. /\ \A d \in Dir : h[<<"table", d>>] = 0
       /\ \A b \in Addr : h[<<"entry", b>>] = 0
       /\ h[Struct] = 0 /\ h[Page] = 0
       /\ \A x \in 0 .. Pages : x # 0 => ~Has(h, x)
  BY <1>1, <1>5, <1>6, <1>8, HeldNext
<1>11. \A r \in Role : May(Held, t, h, r)
  <2> HIDE DEF h
  <2>1. \A r \in Role : h[r] = 0
    BY <1>10, RoleKinds
  <2> QED
    BY <2>1 DEF May
<1>12. Exclusive(Held)' /\ Counted(Held, mem_map, lost)'
  <2>1. \A u \in Task \ {t} : /\ dir'[u] = dir[u]
                              /\ \A b \in Addr : pte'[u][b].page = pte[u][b].page
                              /\ task'[u].struct = task[u].struct /\ task'[u].page = task[u].page
    BY <1>5, <1>6
  <2>2. ASSUME NEW x \in Frame
        PROVE  /\ Has(h, x) /\ ~Has(Held[t], x) => mem_map'[x] + lost[x] = mem_map[x] + lost'[x] + 1
               /\ ~Has(h, x) /\ Has(Held[t], x) => mem_map'[x] + lost[x] = mem_map[x] + lost'[x] - 1
               /\ (Has(h, x) <=> Has(Held[t], x)) => mem_map'[x] + lost[x] = mem_map[x] + lost'[x]
    <3> HIDE DEF h
    <3>1. x \in 0 .. Pages /\ x # 0
      BY Sizes
    <3>2. lost'[x] = lost[x] /\ lost[x] \in Nat /\ mem_map[x] \in Nat
      BY <1>2, <1>5
    <3> QED
      BY <3>1, <3>2, <1>7, <1>9, <1>10
  <2> QED
    BY <2>1, <2>2, <1>1, <1>8, <1>11, StepCounts
<1>13. Shape'
  BY <1>1, <1>5, <1>6 DEF Shape
<1>14. WritableAlone'
  BY <1>1, <1>5 DEF WritableAlone
<1>15. LostMapped'
  BY <1>1, <1>5, <1>6 DEF LostMapped
<1> QED
  BY <1>5, <1>8, <1>12, <1>13, <1>14, <1>15 DEF Good

\* Nothing moves.
LEMMA NothingMoves ==
    ASSUME TypeOK, TypeOK', Good,
           UNCHANGED <<mem_map, dir, executable, task, lost>>,
           \A u \in Task : \A a \in Addr : pte'[u][a].page = pte[u][a].page,
           WritableAlone'
    PROVE  Good'
<1>1. Held' = Held
  <2>1. ASSUME NEW u \in Task
        PROVE  Held'[u] = Held[u]
    <3>1. Held'[u] \in Roles /\ Held[u] \in Roles
      BY HeldType, HeldNext
    <3>2. ASSUME NEW r \in Role
          PROVE  Held'[u][r] = Held[u][r]
      BY HeldNow, HeldNext, RoleKinds
    <3> QED
      BY <3>1, <3>2 DEF Roles
  <2>2. Held' \in [Task -> Roles] /\ Held \in [Task -> Roles]
    <3>1. 1 \in Task
      BY Sizes DEF Task
    <3> QED
      BY <3>1, HeldType, HeldNext
  <2> QED
    BY <2>1, <2>2
<1>2. Exclusive(Held)' /\ Counted(Held, mem_map, lost)'
  BY <1>1 DEF Good, Exclusive, Counted, Holders
<1>3. Shape'
  BY DEF Good, Shape
<1>4. LostMapped'
  BY DEF Good, LostMapped
<1> QED
  BY <1>2, <1>3, <1>4 DEF Good

\* Nothing moves, and what is left writable was writable before.
LEMMA StillGood ==
    ASSUME TypeOK, TypeOK', Good,
           UNCHANGED <<mem_map, dir, executable, task, lost>>,
           \A u \in Task : \A a \in Addr : pte'[u][a].page = pte[u][a].page,
           \A u \in Task : \A a \in Addr : pte'[u][a].w => pte[u][a].w
    PROVE  Good'
<1>1. WritableAlone'
  BY DEF Good, WritableAlone
<1> QED
  BY <1>1, NothingMoves

\* The entry of a page table, and its bits.
EntryRec == [page : 0 .. Pages, w : BOOLEAN, d : BOOLEAN]

\* Setting or clearing a bit of an entry leaves its frame alone.
LEMMA EntryUpdates ==
    ASSUME NEW e \in EntryRec
    PROVE  /\ [e EXCEPT !.w = FALSE] \in EntryRec /\ [e EXCEPT !.d = TRUE] \in EntryRec
           /\ [e EXCEPT !.w = FALSE].page = e.page /\ [e EXCEPT !.d = TRUE].page = e.page
           /\ ~[e EXCEPT !.w = FALSE].w /\ [e EXCEPT !.d = TRUE].d
           /\ [e EXCEPT !.w = FALSE].d = e.d /\ [e EXCEPT !.d = TRUE].w = e.w
<1>1. [e EXCEPT !.w = FALSE] \in EntryRec
  BY DEF EntryRec
<1>2. [e EXCEPT !.d = TRUE] \in EntryRec
  BY DEF EntryRec
<1>3. [e EXCEPT !.w = FALSE].page = e.page /\ [e EXCEPT !.d = TRUE].page = e.page
  BY DEF EntryRec
<1>4. ~[e EXCEPT !.w = FALSE].w
  BY DEF EntryRec
<1>5. [e EXCEPT !.d = TRUE].d
  BY DEF EntryRec
<1>6. [e EXCEPT !.w = FALSE].d = e.d 
  BY DEF EntryRec
<1>7. [e EXCEPT !.d = TRUE].w = e.w
  BY DEF EntryRec
<1> QED
  BY <1>1, <1>2, <1>3, <1>4, <1>5, <1>6, <1>7

\* The type of an entry.
LEMMA EntryType ==
    ASSUME TypeOK, NEW t \in Task, NEW a \in Addr
    PROVE  pte[t][a] \in EntryRec
BY HeldType DEF PteSet, EntryRec

\* A task, as its structure has it.
TaskRec == [at : {"none", "user", "read", "exec", "zombie"}, struct : 0 .. Pages,
            addr : Addr \cup {None}, page : 0 .. Pages]

\* A change of a task's place and page leaves its structure.
LEMMA TaskUpdate ==
    ASSUME NEW k \in TaskRec, NEW x \in {"none", "user", "read", "exec", "zombie"},
           NEW p \in 0 .. Pages
    PROVE  LET j == [k EXCEPT !.at = x, !.page = p]
           IN  j \in TaskRec /\ j.at = x /\ j.page = p /\ j.struct = k.struct
<1> DEFINE j == [k EXCEPT !.at = x, !.page = p]
<1>1. j \in TaskRec
  BY DEF TaskRec
<1>2. j.at = x
  BY DEF TaskRec
<1>3. j.page = p
  BY DEF TaskRec
<1>4. j.struct = k.struct
  BY DEF TaskRec
<1> HIDE DEF j
<1> QED
  BY <1>1, <1>2, <1>3, <1>4 DEF j

\* Three fields of one element.
LEMMA ThreeFields ==
    ASSUME NEW S, NEW T, NEW f \in [S -> T], NEW t \in S, NEW x, NEW b, NEW p,
           NEW g, g = [f EXCEPT ![t].at = x, ![t].addr = b, ![t].page = p],
           NEW k, k = [f[t] EXCEPT !.at = x, !.addr = b, !.page = p]
    PROVE  g = [f EXCEPT ![t] = k]
<1> DEFINE f1 == [f EXCEPT ![t] = [f[t] EXCEPT !.at = x]]
           f2 == [f1 EXCEPT ![t] = [f1[t] EXCEPT !.addr = b]]
           f3 == [f2 EXCEPT ![t] = [f2[t] EXCEPT !.page = p]]
           k1 == [f[t] EXCEPT !.at = x]
           k2 == [k1 EXCEPT !.addr = b]
           k3 == [k2 EXCEPT !.page = p]
<1>1. [f EXCEPT ![t].at = x, ![t].addr = b, ![t].page = p] = f3
  OBVIOUS
<1>2. [f[t] EXCEPT !.at = x, !.addr = b, !.page = p] = k3
  OBVIOUS
<1>3. f1 = [f EXCEPT ![t] = k1]
  OBVIOUS
<1>4. f2 = [f EXCEPT ![t] = k2]
  <2>1. f1[t] = k1
    BY <1>3
  <2> HIDE DEF k1, f1
  <2> QED
    BY <1>3, <2>1
<1>5. f3 = [f EXCEPT ![t] = k3]
  <2>1. f2[t] = k2
    BY <1>4
  <2> HIDE DEF k1, f1, k2, f2
  <2> QED
    BY <1>4, <2>1
<1> HIDE DEF f3, k3
<1> QED
  BY <1>1, <1>2, <1>5

\* The type of a task.
LEMMA TaskType ==
    ASSUME TypeOK, NEW t \in Task
    PROVE  task[t] \in TaskRec
BY HeldType DEF TaskSet, TaskRec

\* A task goes to sleep or wakes up, with a frame of its own or without.
LEMMA TaskMoved ==
    ASSUME TypeOK, NEW t \in Task, NEW x \in {"none", "user", "read", "exec", "zombie"},
           NEW b \in Addr \cup {None}, NEW p \in 0 .. Pages,
           task' = [task EXCEPT ![t].at = x, ![t].addr = b, ![t].page = p]
    PROVE  /\ task' \in TaskSet
           /\ \A u \in Task \ {t} : task'[u] = task[u]
           /\ task'[t].at = x /\ task'[t].addr = b /\ task'[t].page = p /\ task'[t].struct = task[t].struct
<1> DEFINE k == [task[t] EXCEPT !.at = x, !.addr = b, !.page = p]
           g == task'
<1>1. task \in [Task -> TaskRec] /\ task[t] \in TaskRec
  BY HeldType DEF TaskSet, TaskRec
<1>2. k = [task[t] EXCEPT !.at = x, !.addr = b, !.page = p]
  OBVIOUS
<1>3. g = [task EXCEPT ![t].at = x, ![t].addr = b, ![t].page = p]
  OBVIOUS
<1> HIDE DEF k, g
<1>4. g = [task EXCEPT ![t] = k]
  BY <1>1, <1>2, <1>3, ThreeFields
<1>5. k \in TaskRec
  BY <1>1, <1>2 DEF TaskRec
<1>6. k.at = x
  BY <1>1, <1>2 DEF TaskRec
<1>7. k.page = p
  BY <1>1, <1>2 DEF TaskRec
<1>8. k.struct = task[t].struct
  BY <1>1, <1>2 DEF TaskRec
<1>9. k.addr = b
  BY <1>1, <1>2 DEF TaskRec
<1>10. g \in [Task -> TaskRec] /\ (\A u \in Task \ {t} : g[u] = task[u]) /\ g[t] = k
  BY <1>1, <1>4, <1>5
<1> QED
  BY <1>6, <1>7, <1>8, <1>9, <1>10 DEF TaskSet, TaskRec, g

\* A write to a page moves no frame (segment.c:3-14).
LEMMA WriteGood ==
    ASSUME TypeOK, halt = "no", Good, NEW t \in Task, NEW a \in Addr, Write(t, a)
    PROVE  TypeOK' /\ Good'
<1>1. /\ content' = [content EXCEPT ![pte[t][a].page] = By(t)]
      /\ view' = [view EXCEPT ![t][a] = By(t)]
      /\ pte' = [pte EXCEPT ![t][a].d = TRUE]
      /\ UNCHANGED <<mem_map, dir, executable, task, images, halt, lost>>
  BY DEF Write
<1>2. By(t) \in Value
  BY DEF Value
<1>3. /\ pte' \in PteSet
      /\ \A u \in Task : \A b \in Addr : pte'[u][b].page = pte[u][b].page
      /\ \A u \in Task : \A b \in Addr : pte'[u][b].w = pte[u][b].w
  <2>1. pte \in [Task -> [Addr -> EntryRec]]
    BY HeldType DEF PteSet, EntryRec
  <2> DEFINE e == [pte[t][a] EXCEPT !.d = TRUE]
  <2>2. e \in EntryRec /\ e.page = pte[t][a].page /\ e.w = pte[t][a].w
    BY EntryType, EntryUpdates
  <2>3. pte' = [pte EXCEPT ![t][a] = e]
    BY <2>1, <1>1
  <2> HIDE DEF e
  <2>4. /\ pte' \in [Task -> [Addr -> EntryRec]]
        /\ \A u \in Task : \A b \in Addr : pte'[u][b] = IF u = t /\ b = a THEN e ELSE pte[u][b]
    BY <2>1, <2>2, <2>3
  <2> QED
    BY <2>2, <2>4 DEF PteSet, EntryRec
<1>4. TypeOK'
  <2>1. content' \in [Frame -> Value] /\ view' \in [Task -> [Addr -> Value]]
    <3>1. content \in [Frame -> Value] /\ view \in [Task -> [Addr -> Value]]
      BY TypeParts
    <3> QED
      BY <3>1, <1>1, <1>2
  <2> QED
    BY <2>1, <1>1, <1>3, TypeParts, TypePartsNext
<1> QED
  BY <1>1, <1>3, <1>4, StillGood

\* What copy_page_tables does to the entries of the parent.
LEMMA Protected ==
    ASSUME TypeOK, NEW t \in Task, NEW ds
    PROVE  LET q == Protect(t, ds, pte)
           IN  /\ q \in PteSet
               /\ \A u \in Task : \A a \in Addr : q[u][a].page = pte[u][a].page /\ q[u][a].d = pte[u][a].d
               /\ \A u \in Task \ {t} : q[u] = pte[u]
               /\ \A a \in Addr : q[t][a].w <=> pte[t][a].w /\ a \notin Copied(t, ds)
<1> DEFINE q == Protect(t, ds, pte)
<1>1. pte \in PteSet
  BY HeldType
<1>2. /\ \A u \in Task \ {t} : q[u] = pte[u]
      /\ \A a \in Addr : q[t][a] = IF a \in Copied(t, ds) THEN [pte[t][a] EXCEPT !.w = FALSE] ELSE pte[t][a]
      /\ q = [pte EXCEPT ![t] = [a \in Addr |-> IF a \in Copied(t, ds) THEN [pte[t][a] EXCEPT !.w = FALSE]
                                                                   ELSE pte[t][a]]]
  BY <1>1 DEF Protect, PteSet
<1>3. ASSUME NEW a \in Addr
      PROVE  /\ [pte[t][a] EXCEPT !.w = FALSE] \in [page : 0 .. Pages, w : BOOLEAN, d : BOOLEAN]
             /\ [pte[t][a] EXCEPT !.w = FALSE].page = pte[t][a].page
             /\ [pte[t][a] EXCEPT !.w = FALSE].d = pte[t][a].d
             /\ ~[pte[t][a] EXCEPT !.w = FALSE].w
  BY EntryType, EntryUpdates DEF EntryRec
<1>4. q \in PteSet
  BY <1>1, <1>2, <1>3 DEF PteSet
<1> HIDE DEF q
<1>5. \A a \in Addr : /\ q[t][a].page = pte[t][a].page /\ q[t][a].d = pte[t][a].d
                      /\ q[t][a].w <=> pte[t][a].w /\ a \notin Copied(t, ds)
  <2> SUFFICES ASSUME NEW a \in Addr
               PROVE  /\ q[t][a].page = pte[t][a].page /\ q[t][a].d = pte[t][a].d
                      /\ q[t][a].w <=> pte[t][a].w /\ a \notin Copied(t, ds)
    OBVIOUS
  <2>1. CASE a \in Copied(t, ds)
    <3>1. q[t][a] = [pte[t][a] EXCEPT !.w = FALSE]
      BY <2>1, <1>2
    <3> QED
      BY <2>1, <3>1, <1>3
  <2>2. CASE a \notin Copied(t, ds)
    BY <2>2, <1>2
  <2> QED
    BY <2>1, <2>2
<1> QED
  BY <1>2, <1>4, <1>5 DEF q

\* A fork without room leaves the counts, whether it fails before or after copy_mem
\* (fork.c:26-102).
LEMMA ForkFailsGood ==
    ASSUME TypeOK, halt = "no", Good, NEW t \in Task, ForkFails(t)
    PROVE  TypeOK' /\ Good'
<1>1. PICK ds : pte' = Protect(t, ds, pte)
  BY DEF ForkFails
<1>2. UNCHANGED <<mem_map, dir, content, executable, task, images, halt, view, lost>>
  BY DEF ForkFails
<1>3. /\ pte' \in PteSet
      /\ \A u \in Task : \A a \in Addr : pte'[u][a].page = pte[u][a].page
      /\ \A u \in Task \ {t} : pte'[u] = pte[u]
      /\ \A a \in Addr : pte'[t][a].w => pte[t][a].w
  BY <1>1, Protected
<1>4. TypeOK'
  BY <1>2, <1>3, TypeParts, TypePartsNext
<1> QED
  BY <1>2, <1>3, <1>4, StillGood

\* do_execve puts its page of arguments into the new table (exec.c:109-214).
LEMMA ExecDoneGood ==
    ASSUME TypeOK, halt = "no", Good, NEW t \in Task, ExecDone(t)
    PROVE  TypeOK' /\ Good' /\ halt' = "no"
<1> DEFINE m == [x \in Frame |-> mem_map[x] - Uses(t, x)]
           q == Get(m)
           g == task[t].page
           s == task[t].struct
<1>1. /\ Exclusive(Held) /\ Counted(Held, mem_map, lost) /\ Shape /\ WritableAlone /\ LostMapped
      /\ task[t].at = "exec" /\ g # 0 /\ s # 0 /\ dir[t]["top"] # 0 /\ executable[t] \in Exe
  BY DEF Good, ExecDone, Shape
<1>2. \A x \in Frame : /\ Uses(t, x) \in {0, 1}
                       /\ Uses(t, x) = 1 <=> \/ \E d \in Dir : dir[t][d] = x
                                             \/ \E a \in Addr : pte[t][a].page = x
                       /\ mem_map[x] >= Uses(t, x)
  BY TablesCounted
<1>3. mem_map \in [Frame -> Nat] /\ lost \in [Frame -> Nat] /\ mem_map \in [Frame -> 0 .. MAP_SIZE - 1]
  BY MapType
<1>4. /\ m \in [Frame -> Nat]
      /\ \A x \in Frame : m[x] = mem_map[x] - Uses(t, x) /\ m[x] \in 0 .. MAP_SIZE - 1
  <2>1. ASSUME NEW x \in Frame
        PROVE  mem_map[x] - Uses(t, x) \in Nat /\ mem_map[x] - Uses(t, x) \in 0 .. MAP_SIZE - 1
    <3>1. mem_map[x] \in 0 .. MAP_SIZE - 1
      BY <1>3
    <3> QED
      BY <3>1, <1>2, Sizes
  <2> QED
    BY <2>1
<1>5. /\ g \in Frame /\ s \in Frame /\ g # s /\ g \in 0 .. Pages /\ s \in 0 .. Pages
      /\ Uses(t, g) = 0 /\ Uses(t, s) = 0
      /\ \A u \in Task \ {t} : ~Has(Held[u], g) /\ ~Has(Held[u], s)
      /\ Has(Held[t], g) /\ Has(Held[t], s)
  <2>1. g \in 0 .. Pages /\ s \in 0 .. Pages
    BY HeldType DEF TaskSet
  <2>2. g \in Frame /\ s \in Frame
    BY <2>1, <1>1, Sizes
  <2>3. g # s /\ (\A d \in Dir : dir[t][d] \notin {g, s}) /\ \A a \in Addr : pte[t][a].page \notin {g, s}
    BY <1>1, ExclusiveNow
  <2>4. ASSUME NEW u \in Task \ {t}
        PROVE  /\ task[u].struct \notin {g, s} /\ task[u].page \notin {g, s}
               /\ (\A d \in Dir : dir[u][d] \notin {g, s}) /\ \A a \in Addr : pte[u][a].page \notin {g, s}
    <3>1. \A v, w \in Task : /\ task[v].struct # 0 => task[v].struct # task[w].page
                             /\ task[v].struct # 0 /\ task[v].struct = task[w].struct => v = w
                             /\ task[v].page # 0 /\ task[v].page = task[w].page => v = w
      BY <1>1, ExclusiveNow
    <3>2. /\ \A d \in Dir : dir[u][d] # 0 => dir[u][d] \notin {g, s}
          /\ \A a \in Addr : pte[u][a].page # 0 => pte[u][a].page \notin {g, s}
      BY <1>1, ExclusiveNow
    <3> QED
      BY <3>1, <3>2, <1>1
  <2> QED
    BY <2>1, <2>2, <2>3, <2>4, <1>2, HeldNow
<1> HIDE DEF m, g, s
<1>6. Free(m) # {}
  <2> DEFINE x == dir[t]["top"]
  <2>1. x \in Frame /\ x \in 0 .. Pages /\ "top" \in Dir
    <3>1. x \in 0 .. Pages
      BY HeldType DEF DirSet, Dir
    <3> QED
      BY <3>1, <1>1, Sizes DEF Dir
  <2>2. Uses(t, x) = 1 /\ Has(Held[t], x) /\ lost[x] = 0
    BY <2>1, <1>1, <1>2, HeldNow DEF LostMapped
  <2>3. ASSUME NEW u \in Task \ {t}
        PROVE  ~Has(Held[u], x)
    <3>1. (\A d \in Dir : dir[u][d] # x) /\ x # task[u].struct /\ x # task[u].page
      BY <2>1, <1>1, ExclusiveNow
    <3>2. \A a \in Addr : pte[u][a].page # x
      BY <2>1, <1>1, ExclusiveNow
    <3> QED
      BY <3>1, <3>2, <2>1, HeldNow
  <2>4. mem_map[x] = 1
    BY <2>1, <2>2, <2>3, <1>1, OneUser
  <2>5. m[x] = 0
    BY <2>1, <2>2, <2>4, <1>4
  <2> QED
    BY <2>1, <2>5 DEF Free
<1>7. /\ q \in Frame /\ q # 0 /\ q \in 0 .. Pages /\ m[q] = 0
      /\ Got(m) \in [Frame -> Nat] /\ \A x \in Frame : Got(m)[x] = IF x = q THEN 1 ELSE m[x]
  BY <1>4, <1>6, GotOne, Sizes
<1> HIDE DEF q
<1>8. lost[q] = 0 /\ \A u \in Task \ {t} : ~Has(Held[u], q)
  <2>1. mem_map[q] = Uses(t, q) /\ Uses(t, q) \in {0, 1}
    BY <1>2, <1>3, <1>4, <1>7
  <2>2. CASE Uses(t, q) = 0
    BY <2>1, <2>2, <1>1, <1>7, FreeUnheld
  <2>3. CASE Uses(t, q) = 1
    <3>1. Has(Held[t], q)
      BY <2>3, <1>2, <1>7, HeldNow
    <3> QED
      BY <2>1, <2>3, <3>1, <1>1, <1>7, SoleUser
  <2> QED
    BY <2>1, <2>2, <2>3
<1>9. q # g /\ q # s
  <2>1. mem_map[g] > lost[g] /\ mem_map[s] > lost[s]
    BY <1>1, <1>5, HeldCounts
  <2>2. m[g] # 0 /\ m[s] # 0
    BY <2>1, <1>3, <1>4, <1>5
  <2> QED
    BY <2>2, <1>7
<1>10. /\ mem_map' = Got(m)
       /\ dir' = [dir EXCEPT ![t] = [d \in Dir |-> IF d = "top" THEN q ELSE 0]]
       /\ pte' = [pte EXCEPT ![t] = [a \in Addr |->
                     IF a = ArgPage THEN [page |-> g, w |-> TRUE, d |-> TRUE] ELSE Absent]]
       /\ content' = Kept(m)
       /\ task' = [task EXCEPT ![t].at = "user", ![t].page = 0]
       /\ view' = [view EXCEPT ![t] = [a \in Addr |->
                      IF a = ArgPage THEN By(t) ELSE Fresh(executable[t], a)]]
       /\ UNCHANGED <<halt, lost, executable, images>>
  <2>1. ~ \E x \in Frame : m[x] < 0
    BY <1>4
  <2> QED
    BY <2>1 DEF ExecDone, m, q, g
<1>11. ArgPage \in Stack /\ ArgPage \in Addr /\ DirOf(ArgPage) = "top"
  BY AddrAssumption DEF ArgPage, Addr, DirOf
<1>12. /\ task' \in TaskSet
       /\ \A u \in Task \ {t} : task'[u] = task[u]
       /\ task'[t].at = "user" /\ task'[t].page = 0 /\ task'[t].struct = s
  <2>1. task \in TaskSet
    BY HeldType
  <2>2. task' = [task EXCEPT ![t] = [task[t] EXCEPT !.at = "user", !.page = 0]]
    BY <2>1, <1>10 DEF TaskSet
  <2> DEFINE k == [task[t] EXCEPT !.at = "user", !.page = 0]
  <2>3. k \in TaskRec /\ k.at = "user" /\ k.page = 0 /\ k.struct = s
    <3>1. task[t] \in TaskRec /\ 0 \in 0 .. Pages
      BY TaskType, Sizes
    <3> QED
      BY <3>1, TaskUpdate DEF s
  <2>4. task' = [task EXCEPT ![t] = k]
    BY <2>2
  <2> HIDE DEF k
  <2>5. (\A u \in Task \ {t} : task'[u] = task[u]) /\ task'[t] = k /\ task' \in TaskSet
    BY <2>1, <2>3, <2>4 DEF TaskSet, TaskRec
  <2> QED
    BY <2>3, <2>5
<1>13. /\ dir' \in DirSet /\ pte' \in PteSet
       /\ \A u \in Task \ {t} : dir'[u] = dir[u] /\ pte'[u] = pte[u]
       /\ \A d \in Dir : dir'[t][d] = IF d = "top" THEN q ELSE 0
       /\ \A a \in Addr : pte'[t][a].page = (IF a = ArgPage THEN g ELSE 0)
       /\ \A a \in Addr : pte'[t][a].w => a = ArgPage
  <2>1. dir \in DirSet /\ pte \in PteSet
    BY HeldType
  <2> DEFINE arg == [page |-> g, w |-> TRUE, d |-> TRUE]
  <2>2. /\ Absent \in [page : 0 .. Pages, w : BOOLEAN, d : BOOLEAN] /\ Absent.page = 0 /\ ~Absent.w
        /\ arg \in [page : 0 .. Pages, w : BOOLEAN, d : BOOLEAN] /\ arg.page = g
    BY Sizes, <1>5 DEF Absent
  <2>3. /\ dir' \in DirSet /\ \A u \in Task \ {t} : dir'[u] = dir[u]
        /\ \A d \in Dir : dir'[t][d] = IF d = "top" THEN q ELSE 0
    BY <2>1, <1>7, <1>10, Sizes DEF DirSet
  <2> HIDE DEF arg
  <2>4. pte' = [pte EXCEPT ![t] = [a \in Addr |-> IF a = ArgPage THEN arg ELSE Absent]]
    BY <1>10 DEF arg
  <2>5. /\ pte' \in PteSet /\ \A u \in Task \ {t} : pte'[u] = pte[u]
        /\ \A a \in Addr : pte'[t][a] = IF a = ArgPage THEN arg ELSE Absent
    BY <2>1, <2>2, <2>4 DEF PteSet
  <2> QED
    BY <2>2, <2>3, <2>5
<1>14. TypeOK'
  <2>1. mem_map' \in [Frame -> 0 .. MAP_SIZE - 1]
    <3>1. \A x \in Frame : mem_map'[x] = IF x = q THEN 1 ELSE m[x]
      BY <1>7, <1>10
    <3>2. \A x \in Frame : mem_map'[x] \in 0 .. MAP_SIZE - 1
      BY <3>1, <1>4, Sizes
    <3> QED
      BY <3>2, <1>7, <1>10
  <2>2. content' \in [Frame -> Value]
    BY <1>10, KeptType
  <2>3. view' \in [Task -> [Addr -> Value]]
    <3>1. By(t) \in Value /\ \A a \in Addr : Fresh(executable[t], a) \in Value
      BY <1>1 DEF Value, Fresh
    <3>2. view \in [Task -> [Addr -> Value]]
      BY TypeParts
    <3> QED
      BY <3>1, <3>2, <1>10
  <2> QED
    BY <1>10, <1>12, <1>13, <2>1, <2>2, <2>3, TypeParts, TypePartsNext
<1> DEFINE h == Held'[t]
<1>15. /\ \A d \in Dir : h[<<"table", d>>] = IF d = "top" THEN q ELSE 0
       /\ \A b \in Addr : h[<<"entry", b>>] = IF b = ArgPage THEN g ELSE 0
       /\ h[Struct] = s /\ h[Page] = 0
       /\ \A x \in 0 .. Pages : x # 0 => (Has(h, x) <=> x = q \/ x = g \/ x = s)
  <2>1. /\ \A d \in Dir : h[<<"table", d>>] = dir'[t][d]
        /\ \A b \in Addr : h[<<"entry", b>>] = pte'[t][b].page
        /\ h[Struct] = task'[t].struct /\ h[Page] = task'[t].page
        /\ \A x \in 0 .. Pages : Has(h, x) <=> \/ \E d \in Dir : dir'[t][d] = x
                                               \/ \E b \in Addr : pte'[t][b].page = x
                                               \/ task'[t].struct = x
                                               \/ task'[t].page = x
    BY <1>14, HeldNext
  <2> HIDE DEF h
  <2>2. "top" \in Dir
    BY DEF Dir
  <2> QED
    BY <2>1, <2>2, <1>11, <1>12, <1>13
<1>16. \A r \in Role : May(Held, t, h, r)
  <2> HIDE DEF h
  <2>1. \A r \in Role : h[r] \in {0, q, g, s}
    BY <1>15, RoleKinds
  <2>2. \A r, z \in Role : h[r] = h[z] /\ h[r] # 0 => r = z
    BY <1>15, <1>9, <1>5, RoleKinds DEF Struct, Page
  <2>3. \A x \in {q, g, s} : \A u \in Task \ {t} : ~Has(Held[u], x)
    BY <1>5, <1>8
  <2> QED
    BY <2>1, <2>2, <2>3 DEF May
<1>17. Exclusive(Held)' /\ Counted(Held, mem_map, lost)'
  <2>1. \A u \in Task \ {t} : /\ dir'[u] = dir[u]
                              /\ \A b \in Addr : pte'[u][b].page = pte[u][b].page
                              /\ task'[u].struct = task[u].struct /\ task'[u].page = task[u].page
    BY <1>12, <1>13
  <2>2. ASSUME NEW x \in Frame
        PROVE  /\ Has(h, x) /\ ~Has(Held[t], x) => mem_map'[x] + lost[x] = mem_map[x] + lost'[x] + 1
               /\ ~Has(h, x) /\ Has(Held[t], x) => mem_map'[x] + lost[x] = mem_map[x] + lost'[x] - 1
               /\ (Has(h, x) <=> Has(Held[t], x)) => mem_map'[x] + lost[x] = mem_map[x] + lost'[x]
    <3> HIDE DEF h
    <3>1. x \in 0 .. Pages /\ x # 0
      BY Sizes
    <3>2. Has(Held[t], x) <=> x = s \/ x = g \/ Uses(t, x) = 1
      BY <3>1, <1>2, HeldNow DEF s, g
    <3>3. Has(h, x) <=> x = q \/ x = g \/ x = s
      BY <3>1, <1>15
    <3>4. lost'[x] = lost[x] /\ lost[x] \in Nat /\ mem_map[x] \in Nat
      BY <1>3, <1>10
    <3>5. mem_map'[x] = (IF x = q THEN 1 ELSE mem_map[x] - Uses(t, x)) /\ (x = q => mem_map[x] = Uses(t, x))
      BY <1>3, <1>2, <1>4, <1>7, <1>10
    <3>6. Uses(t, x) \in {0, 1} /\ (x = g \/ x = s => Uses(t, x) = 0)
      BY <1>2, <1>5
    <3> QED
      BY <3>2, <3>3, <3>4, <3>5, <3>6, <1>9
  <2> QED
    BY <2>1, <2>2, <1>1, <1>14, <1>16, StepCounts
<1>18. Shape'
  <2>1. \A u \in Task \ {t} : task'[u] = task[u]
    BY <1>12
  <2>2. "top" \in Dir
    BY DEF Dir
  <2> QED
    <3>1. \A a \in Addr : pte'[t][a].page # 0 => dir'[t][DirOf(a)] # 0
      BY <2>2, <1>7, <1>11, <1>13
    <3>2. dir'[t]["top"] # 0 /\ executable'[t] \in Exe
      BY <2>2, <1>1, <1>7, <1>10, <1>13
    <3>3. executable' = executable /\ \A u \in Task \ {t} : dir'[u] = dir[u] /\ pte'[u] = pte[u]
      BY <1>10, <1>13
    <3> QED
      BY <2>1, <3>1, <3>2, <3>3, <1>1, <1>12 DEF Shape
<1>19. WritableAlone'
  <2> SUFFICES ASSUME NEW u \in Task, NEW b \in Addr, pte'[u][b].w
               PROVE  /\ pte'[u][b].page # 0
                      /\ \A v \in Task : \A c \in Addr : pte'[v][c].page = pte'[u][b].page => v = u /\ c = b
    BY DEF WritableAlone
  <2>1. \A v \in Task \ {t} : \A c \in Addr : pte[v][c].page # g
    BY <1>5, UnheldNow
  <2>2. CASE u = t
    BY <2>1, <2>2, <1>1, <1>13
  <2>3. CASE u # t
    <3>1. /\ pte[u][b].page # 0
          /\ \A v \in Task : \A c \in Addr : pte[v][c].page = pte[u][b].page => v = u /\ c = b
      BY <2>3, <1>1, <1>13 DEF WritableAlone
    <3> QED
      BY <2>1, <2>3, <3>1, <1>13
  <2> QED
    BY <2>2, <2>3
<1>20. LostMapped'
  <2>1. lost' = lost /\ lost[q] = 0 /\ LostMapped
    BY <1>1, <1>8, <1>10
  <2> QED
    BY <2>1, <1>12, <1>13 DEF LostMapped, s
<1> QED
  BY <1>1, <1>10, <1>14, <1>17, <1>18, <1>19, <1>20 DEF Good

\* A frame that one task does not hold has room for that task.
LEMMA RoomForOne ==
    ASSUME TypeOK, Good, LeaksFit, NEW t \in Task, NEW p \in Frame, ~Has(Held[t], p)
    PROVE  mem_map[p] \in Nat /\ mem_map[p] + 1 < MAP_SIZE
<1> DEFINE H == Holders(Held, p)
<1>1. mem_map[p] = Cardinality(H) + lost[p] /\ lost[p] \in Nat /\ lost[p] + NR_TASKS < MAP_SIZE
  BY MapType DEF Good, Counted, LeaksFit
<1>2. Cardinality(H) + 1 <= NR_TASKS /\ Cardinality(H) \in Nat
  <2>1. H \subseteq Task \ {t}
    BY DEF Holders
  <2>2. IsFiniteSet(Task) /\ Cardinality(Task) = NR_TASKS
    BY Sizes, FS_Interval DEF Task
  <2>3. IsFiniteSet(Task \ {t}) /\ Cardinality(Task \ {t}) = NR_TASKS - 1
    BY <2>2, FS_RemoveElement
  <2>4. IsFiniteSet(H) /\ Cardinality(H) <= NR_TASKS - 1 /\ Cardinality(H) \in Nat
    BY <2>1, <2>3, FS_Subset, FS_CardinalityType
  <2> QED
    BY <2>4, Sizes
<1> QED
  BY <1>1, <1>2, Sizes

\* share_page: what try_to_share finds in the other task.
LEMMA Shared ==
    ASSUME TypeOK, Good, LeaksFit, NEW t \in Task, NEW a \in Addr, pte[t][a].page = 0,
           Sharers(t, a) # {}
    PROVE  LET from  == Max(Sharers(t, a))
               frame == pte[from][a].page
           IN  /\ from \in Task \ {t} /\ executable[from] = executable[t]
               /\ frame \in Frame /\ frame # 0 /\ frame \in 0 .. Pages
               /\ ~Has(Held[t], frame) /\ Has(Held[from], frame)
               /\ mem_map[frame] \in Nat /\ mem_map[frame] > 0 /\ mem_map[frame] + 1 < MAP_SIZE
               /\ Plus(mem_map[frame], 1) = mem_map[frame] + 1
<1> DEFINE from  == Max(Sharers(t, a))
           frame == pte[from][a].page
<1>1. from \in Sharers(t, a)
  <2>1. Sharers(t, a) \in SUBSET (0 .. NR_TASKS)
    BY Sizes DEF Sharers, Task
  <2> QED
    BY <2>1, Sizes, MaxOf
<1>2. from \in Task \ {t} /\ executable[from] = executable[t] /\ frame # 0
  BY <1>1 DEF Sharers
<1> HIDE DEF from
<1>3. frame \in 0 .. Pages /\ frame \in Frame
  BY <1>2, HeldType, Sizes DEF PteSet
<1>4. Has(Held[from], frame)
  BY <1>2, <1>3, HeldNow
<1>5. ~Has(Held[t], frame)
  <2>1. (\A e \in Dir : dir[t][e] # frame) /\ frame \notin {task[t].struct, task[t].page}
    BY <1>2, ExclusiveNow DEF Good
  <2>2. ASSUME NEW b \in Addr, pte[t][b].page = frame
        PROVE  FALSE
    BY <2>2, <1>2, ExclusiveNow DEF Good
  <2> QED
    BY <2>1, <2>2, <1>3, HeldNow
<1>6. mem_map[frame] \in Nat /\ mem_map[frame] > 0 /\ mem_map[frame] + 1 < MAP_SIZE
  <2>1. mem_map[frame] \in Nat /\ mem_map[frame] + 1 < MAP_SIZE
    BY <1>3, <1>5, RoomForOne
  <2>2. mem_map[frame] > lost[frame] /\ lost[frame] \in Nat
    BY <1>2, <1>3, <1>4, HeldCounts, MapType DEF Good
  <2> QED
    BY <2>1, <2>2
<1>7. Plus(mem_map[frame], 1) = mem_map[frame] + 1
  BY <1>6, NoWrap
<1> QED
  BY <1>2, <1>3, <1>4, <1>5, <1>6, <1>7 DEF from

\* do_no_page shares the page of another task with the same program, or takes a new
\* frame and sleeps with it while it reads (memory.c:195-299).  The one more user of the
\* shared frame is where the count could wrap.
LEMMA NoPageGood ==
    ASSUME TypeOK, halt = "no", Good, LeaksFit, NEW t \in Task, NEW a \in Addr, NoPage(t, a)
    PROVE  TypeOK' /\ halt' \in {"no", "no frame"} /\ (halt' = "no" => Good')
<1> DEFINE d      == DirOf(a)
           shares == Sharers(t, a) # {}
           from   == Max(Sharers(t, a))
           frame  == pte[from][a].page
           table  == shares /\ dir[t][d] = 0
           r      == Get(mem_map)
           m1     == IF table THEN Got(mem_map) ELSE mem_map
           m2     == IF shares THEN [m1 EXCEPT ![frame] = Plus(@, 1)] ELSE m1
           p      == Get(m2)
           short  == (table /\ Free(mem_map) = {}) \/ Free(m2) = {}
           e      == [pte[from][a] EXCEPT !.w = FALSE]
<1>0. d = "bottom" /\ d \in Dir /\ a \in Text
  BY DEF NoPage, DirOf, Dir
<1>1. /\ Exclusive(Held) /\ Counted(Held, mem_map, lost) /\ Shape /\ WritableAlone /\ LostMapped
      /\ task[t].at = "user" /\ pte[t][a].page = 0 /\ task[t].page = 0 /\ task[t].struct # 0
      /\ dir[t]["top"] # 0 /\ executable[t] \in Exe
  BY DEF Good, NoPage, Runs, Shape
<1>2. CASE short
  <2>1. Halts("no frame")
    BY <1>2 DEF NoPage
  <2> QED
    BY <2>1, TypeParts, TypePartsNext DEF Halts, mem
<1>3. CASE ~short
  <2>1. /\ mem_map' = Got(m2)
        /\ dir' = (IF table THEN [dir EXCEPT ![t][d] = r] ELSE dir)
        /\ pte' = (IF shares THEN [pte EXCEPT ![from][a].w = FALSE, ![t][a] = e] ELSE pte)
        /\ task' = [task EXCEPT ![t].at = "read", ![t].addr = a, ![t].page = p]
        /\ UNCHANGED <<content, executable, images, halt, view, lost>>
    BY <1>3 DEF NoPage
  <2>2. shares => /\ from \in Task \ {t} /\ frame \in Frame /\ frame # 0 /\ frame \in 0 .. Pages
                  /\ ~Has(Held[t], frame) /\ Has(Held[from], frame)
                  /\ mem_map[frame] \in Nat /\ mem_map[frame] > 0 /\ mem_map[frame] + 1 < MAP_SIZE
                  /\ Plus(mem_map[frame], 1) = mem_map[frame] + 1
    BY <1>1, Shared
  <2>3. mem_map \in [Frame -> Nat] /\ lost \in [Frame -> Nat] /\ mem_map \in [Frame -> 0 .. MAP_SIZE - 1]
    BY MapType
  <2>4. table => /\ r \in Frame /\ r # 0 /\ r \in 0 .. Pages /\ mem_map[r] = 0 /\ lost[r] = 0
                 /\ \A u \in Task : ~Has(Held[u], r)
                 /\ \A u \in Task : /\ \A x \in Dir : dir[u][x] # r
                                    /\ \A b \in Addr : pte[u][b].page # r
                                    /\ task[u].struct # r /\ task[u].page # r
                 /\ Got(mem_map) \in [Frame -> Nat]
                 /\ \A x \in Frame : Got(mem_map)[x] = IF x = r THEN 1 ELSE mem_map[x]
    BY <1>1, <1>3, <2>3, NewFrame
  <2>5. m1 \in [Frame -> Nat] /\ \A x \in Frame : m1[x] = IF table /\ x = r THEN 1 ELSE mem_map[x]
    BY <2>3, <2>4
  <2>6. shares => m1[frame] = mem_map[frame]
    BY <2>2, <2>4, <2>5
  <2>7. /\ m2 \in [Frame -> Nat]
        /\ \A x \in Frame : m2[x] = IF shares /\ x = frame THEN mem_map[x] + 1
                                    ELSE IF table /\ x = r THEN 1 ELSE mem_map[x]
    <3> HIDE DEF m1, shares, table, r
    <3>1. CASE shares
      <4>0. Plus(m1[frame], 1) = mem_map[frame] + 1 /\ mem_map[frame] + 1 \in Nat
        <5> HIDE DEF frame
        <5> QED
          BY <3>1, <2>2, <2>6
      <4>1. m2 = [m1 EXCEPT ![frame] = mem_map[frame] + 1] /\ mem_map[frame] + 1 \in Nat
        BY <3>1, <4>0
      <4> HIDE DEF m2, frame
      <4> QED
        BY <3>1, <4>1, <2>2, <2>5
    <3>2. CASE ~shares
      BY <3>2, <2>5
    <3> QED
      BY <3>1, <3>2
  <2> HIDE DEF m1, m2
  <2>8. \A x \in Frame : m2[x] = 0 => mem_map[x] = 0
    <3> HIDE DEF table, shares, frame, r
    <3> SUFFICES ASSUME NEW x \in Frame, m2[x] = 0 PROVE mem_map[x] = 0
      OBVIOUS
    <3>1. mem_map[x] \in Nat
      BY <2>3
    <3> QED
      BY <2>7, <3>1
  <2>9. Free(m2) # {}
    BY <1>3
  <2>10. /\ p \in Frame /\ p # 0 /\ p \in 0 .. Pages /\ mem_map[p] = 0 /\ lost[p] = 0 /\ m2[p] = 0
         /\ \A u \in Task : ~Has(Held[u], p)
         /\ \A u \in Task : /\ \A x \in Dir : dir[u][x] # p
                            /\ \A b \in Addr : pte[u][b].page # p
                            /\ task[u].struct # p /\ task[u].page # p
         /\ Got(m2) \in [Frame -> Nat] /\ \A x \in Frame : Got(m2)[x] = IF x = p THEN 1 ELSE m2[x]
    BY <1>1, <2>7, <2>8, <2>9, NewFrame
  <2>11. (table => p # r) /\ (shares => p # frame) /\ (table => r # frame)
    BY <2>2, <2>4, <2>7, <2>10
  <2> HIDE DEF p, r, frame, from, e
  <2>12. \A x \in Frame : /\ x = p => mem_map'[x] = 1
                          /\ table /\ x = r => mem_map'[x] = 1
                          /\ shares /\ x = frame => mem_map'[x] = mem_map[x] + 1
                          /\ x # p /\ ~(table /\ x = r) /\ ~(shares /\ x = frame) => mem_map'[x] = mem_map[x]
    <3> HIDE DEF table, shares
    <3> QED
      BY <2>1, <2>7, <2>10, <2>11
  <2>13. /\ dir' \in DirSet
         /\ \A u \in Task : \A x \in Dir : dir'[u][x] = IF table /\ u = t /\ x = d THEN r ELSE dir[u][x]
    <3>1. dir \in DirSet
      BY HeldType
    <3> HIDE DEF d, table
    <3> QED
      BY <3>1, <1>0, <2>1, <2>4 DEF DirSet
  <2>14. shares => /\ e \in EntryRec /\ e.page = frame /\ ~e.w
                   /\ pte[from][a] \in EntryRec
    BY <2>2, EntryType, EntryUpdates DEF e, frame
  <2>15. /\ pte' \in PteSet
         /\ shares => \A u \in Task : \A b \in Addr :
               pte'[u][b] = IF (u = t \/ u = from) /\ b = a THEN e ELSE pte[u][b]
         /\ ~shares => pte' = pte
    <3>1. pte \in [Task -> [Addr -> EntryRec]]
      BY HeldType DEF PteSet, EntryRec
    <3>2. CASE shares
      <4>1. [pte EXCEPT ![from][a].w = FALSE] = [pte EXCEPT ![from][a] = e]
        BY <3>1, <3>2, <2>2 DEF e
      <4> DEFINE f == [pte EXCEPT ![from][a] = e]
      <4>2. pte' = [f EXCEPT ![t][a] = e]
        BY <3>2, <2>1, <4>1
      <4>3. f \in [Task -> [Addr -> EntryRec]] /\ \A u \in Task : \A b \in Addr :
               f[u][b] = IF u = from /\ b = a THEN e ELSE pte[u][b]
        BY <3>1, <3>2, <2>2, <2>14
      <4> HIDE DEF f
      <4>4. pte' \in [Task -> [Addr -> EntryRec]] /\ \A u \in Task : \A b \in Addr :
               pte'[u][b] = IF u = t /\ b = a THEN e ELSE f[u][b]
        BY <3>2, <4>2, <4>3, <2>2, <2>14
      <4> QED
        BY <3>2, <4>3, <4>4 DEF PteSet, EntryRec
    <3>3. CASE ~shares
      BY <3>1, <3>3, <2>1 DEF PteSet, EntryRec
    <3> QED
      BY <3>2, <3>3
  <2>16. /\ \A u \in Task : \A b \in Addr :
              pte'[u][b].page = IF shares /\ u = t /\ b = a THEN frame ELSE pte[u][b].page
         /\ \A u \in Task : \A b \in Addr :
              pte'[u][b].w => pte[u][b].w /\ ~(shares /\ (u = t \/ u = from) /\ b = a)
    <3>1. CASE shares
      <4>1. pte[from][a].page = frame /\ from # t
        BY <3>1, <2>2 DEF frame
      <4>2. ASSUME NEW u \in Task, NEW b \in Addr
            PROVE  /\ pte'[u][b].page = IF shares /\ u = t /\ b = a THEN frame ELSE pte[u][b].page
                   /\ pte'[u][b].w => pte[u][b].w /\ ~(shares /\ (u = t \/ u = from) /\ b = a)
        <5>1. CASE (u = t \/ u = from) /\ b = a
          <6>1. pte'[u][b] = e
            BY <5>1, <3>1, <2>15
          <6> QED
            BY <5>1, <6>1, <3>1, <4>1, <2>14
        <5>2. CASE ~((u = t \/ u = from) /\ b = a)
          <6>1. pte'[u][b] = pte[u][b]
            BY <5>2, <3>1, <2>15
          <6> QED
            BY <5>2, <6>1
        <5> QED
          BY <5>1, <5>2
      <4> QED
        BY <4>2
    <3>2. CASE ~shares
      BY <3>2, <2>15
    <3> QED
      BY <3>1, <3>2
  <2>17. /\ task' \in TaskSet
         /\ \A u \in Task \ {t} : task'[u] = task[u]
         /\ task'[t].at = "read" /\ task'[t].addr = a /\ task'[t].page = p /\ task'[t].struct = task[t].struct
    <3>1. "read" \in {"none", "user", "read", "exec", "zombie"} /\ a \in Addr \cup {None} /\ p \in 0 .. Pages
      BY <2>10
    <3>2. task' = [task EXCEPT ![t].at = "read", ![t].addr = a, ![t].page = p]
      BY <2>1
    <3> QED
      BY <3>1, <3>2, TaskMoved
  <2>18. TypeOK'
    <3>1. mem_map' \in [Frame -> 0 .. MAP_SIZE - 1]
      <4>1. ASSUME NEW x \in Frame
            PROVE  mem_map'[x] \in 0 .. MAP_SIZE - 1
        <5>1. mem_map[x] \in 0 .. MAP_SIZE - 1
          BY <2>3
        <5> HIDE DEF table, shares
        <5>2. CASE shares /\ x = frame
          BY <5>1, <5>2, <2>2, <2>12, Sizes
        <5>3. CASE ~(shares /\ x = frame)
          BY <5>1, <5>3, <2>12, Sizes
        <5> QED
          BY <5>2, <5>3
      <4> QED
        BY <4>1, <2>1, <2>10
    <3> QED
      BY <3>1, <2>1, <2>13, <2>15, <2>17, TypeParts, TypePartsNext
  <2> DEFINE h == Held'[t]
  <2>19. /\ \A x \in Dir : Held[t][<<"table", x>>] = dir[t][x]
         /\ \A b \in Addr : Held[t][<<"entry", b>>] = pte[t][b].page
         /\ Held[t][Struct] = task[t].struct /\ Held[t][Page] = task[t].page
         /\ \A x \in 0 .. Pages : Has(Held[t], x) <=> \/ \E y \in Dir : dir[t][y] = x
                                                      \/ \E b \in Addr : pte[t][b].page = x
                                                      \/ task[t].struct = x
                                                      \/ task[t].page = x
    BY HeldNow
  <2>20. /\ \A x \in Dir : h[<<"table", x>>] = IF table /\ x = d THEN r ELSE dir[t][x]
         /\ \A b \in Addr : h[<<"entry", b>>] = IF shares /\ b = a THEN frame ELSE pte[t][b].page
         /\ h[Struct] = task[t].struct /\ h[Page] = p
         /\ \A x \in 0 .. Pages : Has(h, x) <=> \/ \E y \in Dir : dir'[t][y] = x
                                                \/ \E b \in Addr : pte'[t][b].page = x
                                                \/ task[t].struct = x
                                                \/ p = x
    <3>1. /\ \A x \in Dir : h[<<"table", x>>] = dir'[t][x]
          /\ \A b \in Addr : h[<<"entry", b>>] = pte'[t][b].page
          /\ h[Struct] = task'[t].struct /\ h[Page] = task'[t].page
          /\ \A x \in 0 .. Pages : Has(h, x) <=> \/ \E y \in Dir : dir'[t][y] = x
                                                 \/ \E b \in Addr : pte'[t][b].page = x
                                                 \/ task'[t].struct = x
                                                 \/ task'[t].page = x
      BY <2>18, HeldNext
    <3> HIDE DEF h, shares, table
    <3> QED
      BY <3>1, <2>13, <2>16, <2>17
  <2> HIDE DEF h
  <2>21. \A x \in Frame : Has(h, x) <=> Has(Held[t], x) \/ x = p \/ (table /\ x = r) \/ (shares /\ x = frame)
    <3> SUFFICES ASSUME NEW x \in Frame
                 PROVE  Has(h, x) <=> Has(Held[t], x) \/ x = p \/ (table /\ x = r) \/ (shares /\ x = frame)
      OBVIOUS
    <3>1. x \in 0 .. Pages /\ x # 0
      BY Sizes
    <3>2. (\E y \in Dir : dir'[t][y] = x) <=> (\E y \in Dir : dir[t][y] = x) \/ (table /\ x = r)
      BY <3>1, <1>0, <2>13
    <3>3. (\E b \in Addr : pte'[t][b].page = x) <=> (\E b \in Addr : pte[t][b].page = x) \/ (shares /\ x = frame)
      <4> HIDE DEF shares
      <4> QED
        BY <3>1, <1>1, <2>16
    <3> QED
      BY <3>1, <3>2, <3>3, <1>1, <2>19, <2>20
  <2>22. \A z \in Role : May(Held, t, h, z)
    <3>1. \A z \in Role : h[z] = p => z = Page
      BY <1>1, <2>10, <2>11, <2>20, RoleKinds
    <3>2. table => \A z \in Role : h[z] = r => z = <<"table", d>>
      <4> HIDE DEF shares, d
      <4> SUFFICES ASSUME table, NEW z \in Role, h[z] = r PROVE z = <<"table", d>>
        OBVIOUS
      <4>1. shares
        BY DEF table
      <4> HIDE DEF table
      <4> QED
        BY <4>1, <2>4, <2>11, <2>20, RoleKinds
    <3> HIDE DEF d
    <3>3. ASSUME NEW z \in Role
          PROVE  \/ h[z] = Held[t][z]
                 \/ z = Page
                 \/ table /\ z = <<"table", d>>
                 \/ shares /\ z = <<"entry", a>>
      <4> HIDE DEF shares, table
      <4> QED
        BY <2>19, <2>20, RoleKinds
    <3>4. May(Held, t, h, Page)
      BY <3>1, <2>10, <2>20 DEF May
    <3>5. table => May(Held, t, h, <<"table", d>>)
      <4>1. table => h[<<"table", d>>] = r
        BY <1>0, <2>20
      <4> QED
        BY <3>2, <4>1, <2>4 DEF May
    <3>6. shares => May(Held, t, h, <<"entry", a>>)
      <4>1. shares => h[<<"entry", a>>] = frame /\ from \in Task /\ Held[from][<<"entry", a>>] = frame
        BY <2>2, <2>20, HeldNow DEF frame
      <4>2. <<"entry", a>>[1] = "entry"
        OBVIOUS
      <4> QED
        BY <4>1, <4>2 DEF May
    <3> QED
      BY <3>3, <3>4, <3>5, <3>6 DEF May
  <2>23. Exclusive(Held)' /\ Counted(Held, mem_map, lost)'
    <3> HIDE DEF shares, table
    <3>1. \A u \in Task \ {t} : /\ dir'[u] = dir[u]
                                /\ \A b \in Addr : pte'[u][b].page = pte[u][b].page
                                /\ task'[u].struct = task[u].struct /\ task'[u].page = task[u].page
      <4>1. dir \in DirSet
        BY HeldType
      <4>2. \A u \in Task \ {t} : dir'[u] = dir[u]
        BY <4>1, <2>13 DEF DirSet
      <4> QED
        BY <4>2, <2>16, <2>17
    <3>2. ASSUME NEW x \in Frame
          PROVE  /\ Has(h, x) /\ ~Has(Held[t], x) => mem_map'[x] + lost[x] = mem_map[x] + lost'[x] + 1
                 /\ ~Has(h, x) /\ Has(Held[t], x) => mem_map'[x] + lost[x] = mem_map[x] + lost'[x] - 1
                 /\ (Has(h, x) <=> Has(Held[t], x)) => mem_map'[x] + lost[x] = mem_map[x] + lost'[x]
      <4>1. lost'[x] = lost[x] /\ lost[x] \in Nat /\ mem_map[x] \in Nat
        BY <2>1, <2>3
      <4>2. CASE x = p \/ (table /\ x = r)
        <5>1. ~Has(Held[t], x) /\ Has(h, x) /\ mem_map[x] = 0 /\ mem_map'[x] = 1
          BY <4>2, <2>4, <2>10, <2>12, <2>21
        <5> QED
          BY <5>1, <4>1
      <4>3. CASE shares /\ x = frame
        <5>1. ~Has(Held[t], x) /\ Has(h, x) /\ mem_map'[x] = mem_map[x] + 1
          BY <4>3, <2>2, <2>12, <2>21
        <5> QED
          BY <5>1, <4>1
      <4>4. CASE x # p /\ ~(table /\ x = r) /\ ~(shares /\ x = frame)
        <5>1. (Has(h, x) <=> Has(Held[t], x)) /\ mem_map'[x] = mem_map[x]
          BY <4>4, <2>12, <2>21
        <5> QED
          BY <5>1, <4>1
      <4> QED
        BY <4>2, <4>3, <4>4
    <3> QED
      BY <3>1, <3>2, <1>1, <2>18, <2>22, StepCounts DEF h
  <2>24. Shape'
    <3>1. \A u \in Task \ {t} : task'[u] = task[u] /\ executable'[u] = executable[u]
      BY <2>1, <2>17
    <3>2. \A u \in Task : \A x \in Dir : dir[u][x] # 0 => dir'[u][x] # 0
      <4> HIDE DEF table
      <4> QED
        BY <2>4, <2>13
    <3>3. \A u \in Task : \A b \in Addr : pte'[u][b].page # 0 => dir'[u][DirOf(b)] # 0
      <4>1. \A b \in Addr : DirOf(b) \in Dir
        BY DEF DirOf, Dir
      <4>2. \A u \in Task : \A b \in Addr : pte[u][b].page # 0 => dir[u][DirOf(b)] # 0
        BY <1>1 DEF Shape
      <4>3. shares => dir'[t][d] # 0
        <5>1. CASE table
          BY <5>1, <1>0, <2>4, <2>13
        <5>2. CASE ~table
          BY <5>2, <1>0, <2>13
        <5> QED
          BY <5>1, <5>2
      <4> HIDE DEF shares
      <4> QED
        BY <4>1, <4>2, <4>3, <3>2, <2>16
    <3>4. "top" \in Dir /\ p # 0
      BY <2>10 DEF Dir
    <3>5. \A u \in Task \ {t} : (\A x \in Dir : dir'[u][x] = dir[u][x]) /\ \A b \in Addr : pte'[u][b].page = pte[u][b].page
      BY <2>13, <2>16
    <3> HIDE DEF shares, table, d
    <3>6. ASSUME NEW u \in Task
          PROVE  /\ task'[u].at = "none" <=> task'[u].struct = 0
                 /\ task'[u].at \in {"read", "exec"} <=> task'[u].page # 0
                 /\ task'[u].at \in {"none", "zombie"} =>
                      (\A x \in Dir : dir'[u][x] = 0) /\ (\A b \in Addr : pte'[u][b].page = 0)
                 /\ task'[u].at \in {"user", "read", "exec"} => dir'[u]["top"] # 0 /\ executable'[u] \in Exe
                 /\ task'[u].at = "read" => task'[u].addr \in Text
      <4>1. CASE u = t
        BY <4>1, <3>2, <3>4, <1>0, <1>1, <2>1, <2>17
      <4>2. CASE u # t
        BY <4>2, <3>1, <3>4, <3>5, <1>1 DEF Shape
      <4> QED
        BY <4>1, <4>2
    <3> QED
      BY <3>3, <3>6 DEF Shape
  <2>25. WritableAlone'
    <3> HIDE DEF shares
    <3> SUFFICES ASSUME NEW u \in Task, NEW b \in Addr, pte'[u][b].w
                 PROVE  /\ pte'[u][b].page # 0
                        /\ \A v \in Task : \A c \in Addr : pte'[v][c].page = pte'[u][b].page => v = u /\ c = b
      BY DEF WritableAlone
    <3>1. pte[u][b].w /\ ~(shares /\ (u = t \/ u = from) /\ b = a)
      BY <2>16
    <3>2. /\ pte[u][b].page # 0
          /\ \A v \in Task : \A c \in Addr : pte[v][c].page = pte[u][b].page => v = u /\ c = b
      BY <3>1, <1>1 DEF WritableAlone
    <3>3. pte'[u][b].page = pte[u][b].page
      BY <3>1, <2>16
    <3>4. shares => pte[u][b].page # frame
      BY <3>1, <3>2, <2>2 DEF frame
    <3> QED
      BY <3>2, <3>3, <3>4, <2>16
  <2>26. LostMapped'
    <3> HIDE DEF table
    <3>1. lost' = lost /\ lost[p] = 0 /\ (table => lost[r] = 0) /\ LostMapped
      BY <1>1, <2>1, <2>4, <2>10
    <3>2. \A u \in Task : task'[u].struct = task[u].struct /\ task'[u].page = IF u = t THEN p ELSE task[u].page
      BY <2>17
    <3> QED
      BY <3>1, <3>2, <2>13 DEF LostMapped
  <2> QED
    BY <2>1, <2>18, <2>23, <2>24, <2>25, <2>26 DEF Good
<1> QED
  BY <1>2, <1>3

\* do_no_page maps the frame it has read; an entry that is there by now is overwritten,
\* and its frame is lost (memory.c:147-165).
LEMMA PutPageGood ==
    ASSUME TypeOK, halt = "no", Good, NEW t \in Task, PutPage(t)
    PROVE  TypeOK' /\ Good' /\ halt' = "no"
<1> DEFINE a     == task[t].addr
           p     == task[t].page
           d     == DirOf(a)
           table == dir[t][d] = 0
           r     == Get(mem_map)
           old   == pte[t][a].page
           e     == [page |-> p, w |-> TRUE, d |-> FALSE]
           s     == task[t].struct
<1>1. /\ Exclusive(Held) /\ Counted(Held, mem_map, lost) /\ Shape /\ WritableAlone /\ LostMapped
      /\ task[t].at = "read" /\ p # 0 /\ a \in Text /\ s # 0
      /\ dir[t]["top"] # 0 /\ executable[t] \in Exe
  BY DEF Good, PutPage, Shape
<1>2. a \in Addr /\ d = "bottom" /\ d \in Dir
  BY <1>1 DEF Addr, DirOf, Dir
<1>3. mem_map \in [Frame -> Nat] /\ lost \in [Frame -> Nat] /\ mem_map \in [Frame -> 0 .. MAP_SIZE - 1]
  BY MapType
<1>4. /\ p \in Frame /\ p \in 0 .. Pages /\ s \in 0 .. Pages
      /\ Has(Held[t], p) /\ lost[p] = 0
      /\ \A u \in Task : /\ \A x \in Dir : dir[u][x] # p
                         /\ \A b \in Addr : pte[u][b].page # p
                         /\ task[u].struct # p
      /\ \A u \in Task \ {t} : task[u].page # p
      /\ \A u \in Task \ {t} : ~Has(Held[u], p)
  <2>1. p \in 0 .. Pages /\ s \in 0 .. Pages
    BY HeldType DEF TaskSet
  <2>2. p \in Frame /\ Has(Held[t], p) /\ lost[p] = 0
    BY <2>1, <1>1, Sizes, HeldNow DEF LostMapped
  <2>3. ASSUME NEW u \in Task
        PROVE  /\ \A x \in Dir : dir[u][x] # p
               /\ \A b \in Addr : pte[u][b].page # p
               /\ task[u].struct # p
               /\ u # t => task[u].page # p
    <3>1. \A x \in Dir : dir[u][x] # p
      BY <1>1, ExclusiveNow
    <3>2. \A b \in Addr : pte[u][b].page # p
      BY <1>1, ExclusiveNow
    <3>3. task[u].struct # p
      BY <1>1, ExclusiveNow
    <3>4. u # t => task[u].page # p
      BY <1>1, ExclusiveNow
    <3> QED
      BY <3>1, <3>2, <3>3, <3>4
  <2>4. \A u \in Task \ {t} : ~Has(Held[u], p)
    BY <2>1, <2>3, HeldNow
  <2> QED
    BY <2>1, <2>2, <2>3, <2>4
<1>5. /\ task' \in TaskSet
      /\ \A u \in Task \ {t} : task'[u] = task[u]
      /\ task'[t].at = "user" /\ task'[t].addr = None /\ task'[t].page = 0 /\ task'[t].struct = s
      /\ UNCHANGED <<executable, images, halt, view>>
  <2>1. task' = [task EXCEPT ![t].at = "user", ![t].addr = None, ![t].page = 0]
    BY DEF PutPage
  <2>2. "user" \in {"none", "user", "read", "exec", "zombie"} /\ None \in Addr \cup {None} /\ 0 \in 0 .. Pages
    BY Sizes
  <2>3. /\ task' \in TaskSet
        /\ \A u \in Task \ {t} : task'[u] = task[u]
        /\ task'[t].at = "user" /\ task'[t].addr = None /\ task'[t].page = 0 /\ task'[t].struct = s
    BY <2>1, <2>2, TaskMoved
  <2>4. UNCHANGED <<executable, images, halt, view>>
    BY DEF PutPage
  <2> QED
    BY <2>3, <2>4
<1>6. /\ \A x \in Dir : Held[t][<<"table", x>>] = dir[t][x]
      /\ \A b \in Addr : Held[t][<<"entry", b>>] = pte[t][b].page
      /\ Held[t][Struct] = s /\ Held[t][Page] = p
      /\ \A x \in 0 .. Pages : Has(Held[t], x) <=> \/ \E y \in Dir : dir[t][y] = x
                                                   \/ \E b \in Addr : pte[t][b].page = x
                                                   \/ s = x
                                                   \/ p = x
  BY HeldNow
<1> DEFINE h == Held'[t]
<1>7. CASE table /\ Free(mem_map) = {}
  <2>1. mem_map' = [mem_map EXCEPT ![p] = @ - 1] /\ UNCHANGED <<dir, pte, content, lost>>
    BY <1>7 DEF PutPage
  <2>2. mem_map[p] > lost[p]
    BY <1>1, <1>4, HeldCounts
  <2> HIDE DEF p, s, a, d
  <2>3. \A x \in Frame : /\ mem_map'[x] = IF x = p THEN mem_map[x] - 1 ELSE mem_map[x]
                         /\ mem_map'[x] \in 0 .. MAP_SIZE - 1
    <3> SUFFICES ASSUME NEW x \in Frame
                 PROVE  /\ mem_map'[x] = IF x = p THEN mem_map[x] - 1 ELSE mem_map[x]
                        /\ mem_map'[x] \in 0 .. MAP_SIZE - 1
      OBVIOUS
    <3>1. mem_map[x] \in 0 .. MAP_SIZE - 1 /\ mem_map[p] \in Nat /\ lost[p] \in Nat
      BY <1>3, <1>4
    <3> QED
      BY <3>1, <2>1, <2>2, <1>3, Sizes
  <2>4. TypeOK'
    <3>1. mem_map' \in [Frame -> 0 .. MAP_SIZE - 1]
      BY <1>3, <2>1, <2>3
    <3> QED
      BY <3>1, <2>1, <1>5, TypeParts, TypePartsNext
  <2>5. /\ \A x \in Dir : h[<<"table", x>>] = dir[t][x]
        /\ \A b \in Addr : h[<<"entry", b>>] = pte[t][b].page
        /\ h[Struct] = s /\ h[Page] = 0
        /\ \A x \in 0 .. Pages : x # 0 => (Has(h, x) <=> \/ \E y \in Dir : dir[t][y] = x
                                                         \/ \E b \in Addr : pte[t][b].page = x
                                                         \/ s = x)
    BY <2>1, <2>4, <1>5, HeldNext
  <2> HIDE DEF h
  <2>6. \A z \in Role : May(Held, t, h, z)
    <3>1. \A z \in Role : h[z] = 0 \/ h[z] = Held[t][z]
      BY <1>6, <2>5, RoleKinds
    <3> QED
      BY <3>1 DEF May
  <2>7. Exclusive(Held)' /\ Counted(Held, mem_map, lost)'
    <3>1. \A u \in Task \ {t} : /\ dir'[u] = dir[u]
                                /\ \A b \in Addr : pte'[u][b].page = pte[u][b].page
                                /\ task'[u].struct = task[u].struct /\ task'[u].page = task[u].page
      BY <2>1, <1>5
    <3>2. ASSUME NEW x \in Frame
          PROVE  /\ Has(h, x) /\ ~Has(Held[t], x) => mem_map'[x] + lost[x] = mem_map[x] + lost'[x] + 1
                 /\ ~Has(h, x) /\ Has(Held[t], x) => mem_map'[x] + lost[x] = mem_map[x] + lost'[x] - 1
                 /\ (Has(h, x) <=> Has(Held[t], x)) => mem_map'[x] + lost[x] = mem_map[x] + lost'[x]
      <4>1. x \in 0 .. Pages /\ x # 0
        BY Sizes
      <4>2. Has(Held[t], x) <=> Has(h, x) \/ x = p
        BY <4>1, <1>6, <2>5
      <4>3. Has(h, x) => x # p
        BY <4>1, <1>4, <2>5 DEF s
      <4>4. lost'[x] = lost[x] /\ lost[x] \in Nat /\ mem_map[x] \in Nat
        BY <2>1, <1>3
      <4> QED
        BY <4>2, <4>3, <4>4, <2>3
    <3> QED
      BY <3>1, <3>2, <1>1, <2>4, <2>6, StepCounts DEF h
  <2>8. Shape'
    <3>1. \A u \in Task \ {t} : task'[u] = task[u]
      BY <1>5
    <3> QED
      BY <3>1, <2>1, <1>1, <1>5 DEF Shape
  <2>9. WritableAlone'
    BY <2>1, <1>1 DEF WritableAlone
  <2>10. LostMapped'
    BY <2>1, <1>1, <1>5 DEF LostMapped, s
  <2> QED
    BY <2>4, <2>7, <2>8, <2>9, <2>10, <1>5 DEF Good
<1>8. CASE ~(table /\ Free(mem_map) = {})
  <2>1. /\ mem_map' = (IF table THEN Got(mem_map) ELSE mem_map)
        /\ dir' = (IF table THEN [dir EXCEPT ![t][d] = r] ELSE dir)
        /\ pte' = [pte EXCEPT ![t][a] = e]
        /\ content' = [content EXCEPT ![p] = File(executable[t], a)]
        /\ lost' = (IF old = 0 THEN lost ELSE [lost EXCEPT ![old] = @ + 1])
    BY <1>8 DEF PutPage
  <2>2. table => /\ r \in Frame /\ r # 0 /\ r \in 0 .. Pages /\ mem_map[r] = 0 /\ lost[r] = 0
                 /\ \A u \in Task : ~Has(Held[u], r)
                 /\ \A u \in Task : /\ \A x \in Dir : dir[u][x] # r
                                    /\ \A b \in Addr : pte[u][b].page # r
                                    /\ task[u].struct # r /\ task[u].page # r
                 /\ Got(mem_map) \in [Frame -> Nat]
                 /\ \A x \in Frame : Got(mem_map)[x] = IF x = r THEN 1 ELSE mem_map[x]
    BY <1>1, <1>3, <1>8, NewFrame
  <2>3. old \in 0 .. Pages /\ (old # 0 => /\ old \in Frame /\ old # s /\ old # p
                                          /\ \A u \in Task : /\ \A x \in Dir : dir[u][x] # old
                                                             /\ task[u].struct # old /\ task[u].page # old)
    <3>1. old \in 0 .. Pages
      BY <1>2, HeldType DEF PteSet
    <3>2. old # 0 => old \in Frame
      BY <3>1, Sizes
    <3>3. \A u \in Task : old # 0 => /\ \A x \in Dir : dir[u][x] # old
                                     /\ old \notin {task[u].struct, task[u].page}
      BY <1>1, <1>2, ExclusiveNow
    <3> QED
      BY <3>1, <3>2, <3>3
  <2>4. table => old = 0
    BY <1>1, <1>2 DEF Shape
  <2>5. e \in EntryRec /\ e.page = p /\ e.w
    BY <1>4 DEF EntryRec
  <2> HIDE DEF p, s, old, r, e, table, d
  <2>6. \A x \in Frame : mem_map'[x] = IF table /\ x = r THEN 1 ELSE mem_map[x]
    BY <2>1, <2>2
  <2>7. /\ dir' \in DirSet
        /\ \A u \in Task : \A x \in Dir : dir'[u][x] = IF table /\ u = t /\ x = d THEN r ELSE dir[u][x]
    <3>1. dir \in DirSet
      BY HeldType
    <3> QED
      BY <3>1, <1>2, <2>1, <2>2 DEF DirSet
  <2>8. /\ pte' \in PteSet
        /\ \A u \in Task : \A b \in Addr : pte'[u][b] = IF u = t /\ b = a THEN e ELSE pte[u][b]
    <3>1. pte \in [Task -> [Addr -> EntryRec]]
      BY HeldType DEF PteSet, EntryRec
    <3> HIDE DEF a
    <3> QED
      BY <3>1, <1>2, <2>1, <2>5 DEF PteSet, EntryRec
  <2>9. /\ lost' \in [Frame -> Nat]
        /\ \A x \in Frame : lost'[x] = IF old # 0 /\ x = old THEN lost[x] + 1 ELSE lost[x]
    <3>1. CASE old = 0
      BY <3>1, <1>3, <2>1
    <3>2. CASE old # 0
      BY <3>2, <1>3, <2>1, <2>3
    <3> QED
      BY <3>1, <3>2
  <2> HIDE DEF a
  <2>10. /\ \A u \in Task : \A b \in Addr : pte'[u][b].page = IF u = t /\ b = a THEN p ELSE pte[u][b].page
         /\ \A u \in Task : \A b \in Addr : pte'[u][b].w => (u = t /\ b = a) \/ pte[u][b].w
    BY <2>5, <2>8
  <2>11. TypeOK'
    <3>1. mem_map' \in [Frame -> 0 .. MAP_SIZE - 1]
      <4>1. \A x \in Frame : mem_map'[x] \in 0 .. MAP_SIZE - 1
        BY <1>3, <2>6, Sizes
      <4> QED
        BY <4>1, <1>3, <2>1, <2>2
    <3>2. content' \in [Frame -> Value]
      <4>1. File(executable[t], a) \in Value
        BY <1>1 DEF Value
      <4>2. content \in [Frame -> Value]
        BY TypeParts
      <4> QED
        BY <4>1, <4>2, <1>4, <2>1
    <3> QED
      BY <3>1, <3>2, <1>5, <2>7, <2>8, <2>9, TypeParts, TypePartsNext
  <2>12. /\ \A x \in Dir : h[<<"table", x>>] = IF table /\ x = d THEN r ELSE dir[t][x]
         /\ \A b \in Addr : h[<<"entry", b>>] = IF b = a THEN p ELSE pte[t][b].page
         /\ h[Struct] = s /\ h[Page] = 0
         /\ \A x \in 0 .. Pages : x # 0 => (Has(h, x) <=> \/ \E y \in Dir : dir'[t][y] = x
                                                          \/ \E b \in Addr : pte'[t][b].page = x
                                                          \/ s = x)
    <3>1. /\ \A x \in Dir : h[<<"table", x>>] = dir'[t][x]
          /\ \A b \in Addr : h[<<"entry", b>>] = pte'[t][b].page
          /\ h[Struct] = task'[t].struct /\ h[Page] = task'[t].page
          /\ \A x \in 0 .. Pages : Has(h, x) <=> \/ \E y \in Dir : dir'[t][y] = x
                                                 \/ \E b \in Addr : pte'[t][b].page = x
                                                 \/ task'[t].struct = x
                                                 \/ task'[t].page = x
      BY <2>11, HeldNext
    <3> HIDE DEF h
    <3> QED
      BY <3>1, <1>5, <2>7, <2>10
  <2> HIDE DEF h
  <2>13. \A x \in Frame : Has(h, x) <=> (Has(Held[t], x) /\ x # old) \/ (table /\ x = r)
    <3> SUFFICES ASSUME NEW x \in Frame
                 PROVE  Has(h, x) <=> (Has(Held[t], x) /\ x # old) \/ (table /\ x = r)
      OBVIOUS
    <3>1. x \in 0 .. Pages /\ x # 0
      BY Sizes
    <3>2. (\E y \in Dir : dir'[t][y] = x) <=> (\E y \in Dir : dir[t][y] = x) \/ (table /\ x = r)
      BY <3>1, <1>2, <2>7 DEF table
    <3>3. (\E b \in Addr : pte'[t][b].page = x) <=> ((\E b \in Addr : pte[t][b].page = x) /\ x # old) \/ x = p
      <4>1. \A b \in Addr : pte[t][b].page = old /\ old # 0 => b = a
        BY <1>1, <1>2, ExclusiveNow DEF old
      <4>2. pte[t][a].page = old /\ (old # 0 => old # p)
        BY <2>3 DEF old
      <4> QED
        BY <3>1, <4>1, <4>2, <1>2, <2>10
    <3>4. x = old => (\A y \in Dir : dir[t][y] # x) /\ x # s /\ x # p
      BY <3>1, <2>3
    <3> QED
      BY <3>1, <3>2, <3>3, <3>4, <1>6, <2>12
  <2>14. \A z \in Role : May(Held, t, h, z)
    <3>1. \A z \in Role : h[z] = p => z = <<"entry", a>>
      <4>1. p # s /\ (table => p # r) /\ \A x \in Dir : dir[t][x] # p
        BY <1>4, <2>2 DEF s, p
      <4>2. \A b \in Addr : pte[t][b].page # p
        BY <1>4
      <4> QED
        BY <4>1, <4>2, <1>1, <2>12, RoleKinds
    <3>2. table => \A z \in Role : h[z] = r => z = <<"table", d>>
      <4>1. table => /\ r # p /\ r # s /\ r # 0 /\ (\A x \in Dir : dir[t][x] # r)
                     /\ \A b \in Addr : pte[t][b].page # r
        BY <2>2 DEF s, p
      <4> QED
        BY <4>1, <2>12, RoleKinds
    <3>3. ASSUME NEW z \in Role
          PROVE  \/ h[z] = Held[t][z]
                 \/ h[z] = 0
                 \/ table /\ z = <<"table", d>>
                 \/ z = <<"entry", a>>
      BY <1>6, <2>12, RoleKinds
    <3>4. May(Held, t, h, <<"entry", a>>)
      <4>1. h[<<"entry", a>>] = p
        BY <1>2, <2>12
      <4> QED
        BY <3>1, <4>1, <1>4 DEF May
    <3>5. table => May(Held, t, h, <<"table", d>>)
      <4>1. table => h[<<"table", d>>] = r
        BY <1>2, <2>12
      <4> QED
        BY <3>2, <4>1, <2>2 DEF May
    <3> QED
      BY <3>3, <3>4, <3>5 DEF May
  <2>15. Exclusive(Held)' /\ Counted(Held, mem_map, lost)'
    <3>1. \A u \in Task \ {t} : /\ dir'[u] = dir[u]
                                /\ \A b \in Addr : pte'[u][b].page = pte[u][b].page
                                /\ task'[u].struct = task[u].struct /\ task'[u].page = task[u].page
      <4>1. dir \in DirSet
        BY HeldType
      <4>2. \A u \in Task \ {t} : dir'[u] = dir[u]
        BY <4>1, <2>7 DEF DirSet
      <4> QED
        BY <4>2, <2>10, <1>5
    <3>2. ASSUME NEW x \in Frame
          PROVE  /\ Has(h, x) /\ ~Has(Held[t], x) => mem_map'[x] + lost[x] = mem_map[x] + lost'[x] + 1
                 /\ ~Has(h, x) /\ Has(Held[t], x) => mem_map'[x] + lost[x] = mem_map[x] + lost'[x] - 1
                 /\ (Has(h, x) <=> Has(Held[t], x)) => mem_map'[x] + lost[x] = mem_map[x] + lost'[x]
      <4>0. x # 0
        BY Sizes
      <4>1. lost[x] \in Nat /\ mem_map[x] \in Nat
        BY <1>3
      <4>2. CASE table /\ x = r
        <5>1. ~Has(Held[t], x) /\ Has(h, x) /\ mem_map[x] = 0 /\ mem_map'[x] = 1 /\ lost'[x] = lost[x]
          BY <4>2, <2>2, <2>4, <2>6, <2>9, <2>13
        <5> QED
          BY <5>1, <4>1
      <4>3. CASE x = old
        <5>1. ~(table /\ x = r)
          BY <4>0, <4>3, <2>4
        <5>2. Has(Held[t], x)
          BY <4>3, <1>2, <1>6, <2>3 DEF old
        <5>3. ~Has(h, x) /\ mem_map'[x] = mem_map[x] /\ lost'[x] = lost[x] + 1
          BY <4>0, <4>3, <5>1, <2>6, <2>9, <2>13
        <5> QED
          BY <5>2, <5>3, <4>1
      <4>4. CASE ~(table /\ x = r) /\ x # old
        <5>1. (Has(h, x) <=> Has(Held[t], x)) /\ mem_map'[x] = mem_map[x] /\ lost'[x] = lost[x]
          BY <4>4, <2>6, <2>9, <2>13
        <5> QED
          BY <5>1, <4>1
      <4> QED
        BY <4>2, <4>3, <4>4
    <3> QED
      BY <3>1, <3>2, <1>1, <2>11, <2>14, StepCounts DEF h
  <2>16. Shape'
    <3>1. \A u \in Task \ {t} : task'[u] = task[u] /\ executable'[u] = executable[u]
      BY <1>5
    <3>2. \A u \in Task : \A x \in Dir : dir[u][x] # 0 => dir'[u][x] # 0
      BY <2>2, <2>7
    <3>3. \A u \in Task : \A b \in Addr : pte'[u][b].page # 0 => dir'[u][DirOf(b)] # 0
      <4>1. \A b \in Addr : DirOf(b) \in Dir
        BY DEF DirOf, Dir
      <4>2. \A u \in Task : \A b \in Addr : pte[u][b].page # 0 => dir[u][DirOf(b)] # 0
        BY <1>1 DEF Shape
      <4>3. dir'[t][d] # 0
        <5>1. CASE table
          BY <5>1, <1>2, <2>2, <2>7
        <5>2. CASE ~table
          BY <5>2, <1>2, <2>7 DEF table
        <5> QED
          BY <5>1, <5>2
      <4> QED
        BY <4>1, <4>2, <4>3, <3>2, <2>10 DEF d
    <3>4. "top" \in Dir
      BY DEF Dir
    <3>5. \A u \in Task \ {t} : (\A x \in Dir : dir'[u][x] = dir[u][x]) /\ \A b \in Addr : pte'[u][b].page = pte[u][b].page
      BY <2>7, <2>10
    <3>6. ASSUME NEW u \in Task
          PROVE  /\ task'[u].at = "none" <=> task'[u].struct = 0
                 /\ task'[u].at \in {"read", "exec"} <=> task'[u].page # 0
                 /\ task'[u].at \in {"none", "zombie"} =>
                      (\A x \in Dir : dir'[u][x] = 0) /\ (\A b \in Addr : pte'[u][b].page = 0)
                 /\ task'[u].at \in {"user", "read", "exec"} => dir'[u]["top"] # 0 /\ executable'[u] \in Exe
                 /\ task'[u].at = "read" => task'[u].addr \in Text
      <4>1. CASE u = t
        BY <4>1, <3>2, <3>4, <1>1, <1>5
      <4>2. CASE u # t
        BY <4>2, <3>1, <3>4, <3>5, <1>1 DEF Shape
      <4> QED
        BY <4>1, <4>2
    <3> QED
      BY <3>3, <3>6 DEF Shape
  <2>17. WritableAlone'
    <3> SUFFICES ASSUME NEW u \in Task, NEW b \in Addr, pte'[u][b].w
                 PROVE  /\ pte'[u][b].page # 0
                        /\ \A v \in Task : \A c \in Addr : pte'[v][c].page = pte'[u][b].page => v = u /\ c = b
      BY DEF WritableAlone
    <3>1. CASE u = t /\ b = a
      BY <3>1, <1>1, <1>4, <2>10
    <3>2. CASE ~(u = t /\ b = a)
      <4>1. pte[u][b].w /\ pte'[u][b].page = pte[u][b].page
        BY <3>2, <2>10
      <4>2. /\ pte[u][b].page # 0 /\ pte[u][b].page # p
            /\ \A v \in Task : \A c \in Addr : pte[v][c].page = pte[u][b].page => v = u /\ c = b
        BY <4>1, <1>1, <1>4 DEF WritableAlone
      <4> QED
        BY <4>1, <4>2, <2>10
    <3> QED
      BY <3>1, <3>2
  <2>18. LostMapped'
    <3>1. LostMapped /\ (table => lost[r] = 0)
      BY <1>1, <2>2
    <3>2. \A u \in Task : task'[u].struct = task[u].struct /\ task'[u].page = IF u = t THEN 0 ELSE task[u].page
      BY <1>5 DEF s
    <3>3. dir \in DirSet /\ task \in TaskSet
      BY HeldType
    <3>4. ASSUME NEW u \in Task, NEW x \in Dir, dir'[u][x] # 0
          PROVE  lost'[dir'[u][x]] = 0
      <4>1. CASE table /\ u = t /\ x = d
        <5>1. dir'[u][x] = r /\ r \in Frame /\ lost[r] = 0 /\ old = 0
          BY <4>1, <2>2, <2>4, <2>7
        <5> QED
          BY <5>1, <2>9
      <4>2. CASE ~(table /\ u = t /\ x = d)
        <5>1. dir'[u][x] = dir[u][x] /\ dir[u][x] \in 0 .. Pages
          BY <4>2, <2>7, <3>3 DEF DirSet
        <5>2. dir[u][x] \in Frame /\ lost[dir[u][x]] = 0 /\ (old # 0 => dir[u][x] # old)
          BY <3>1, <3>4, <5>1, <2>3, Sizes DEF LostMapped
        <5> QED
          BY <5>1, <5>2, <2>9
      <4> QED
        BY <4>1, <4>2
    <3>5. ASSUME NEW u \in Task, NEW y \in {task'[u].struct, task'[u].page}, y # 0
          PROVE  lost'[y] = 0
      <4>1. y \in {task[u].struct, task[u].page} /\ task[u].struct \in 0 .. Pages /\ task[u].page \in 0 .. Pages
        BY <3>2, <3>3, <3>5 DEF TaskSet
      <4>2. y \in Frame /\ lost[y] = 0 /\ (old # 0 => y # old)
        BY <3>1, <3>5, <4>1, <2>3, Sizes DEF LostMapped
      <4> QED
        BY <4>2, <2>9
    <3> QED
      BY <3>4, <3>5 DEF LostMapped
  <2> QED
    BY <2>11, <2>15, <2>16, <2>17, <2>18, <1>5 DEF Good
<1> QED
  BY <1>7, <1>8

\* un_wp_page makes a page writable, or copies it (memory.c:108-145).
LEMMA UnWpPageGood ==
    ASSUME TypeOK, halt = "no", Good, NEW t \in Task, NEW a \in Addr, UnWpPage(t, a)
    PROVE  TypeOK' /\ halt' \in {"no", "no frame"} /\ (halt' = "no" => Good')
<1> DEFINE old == pte[t][a].page
           p   == Get(mem_map)
           e   == [page |-> p, w |-> TRUE, d |-> FALSE]
           n   == mem_map[old]
<1>1. /\ Exclusive(Held) /\ Counted(Held, mem_map, lost) /\ Shape /\ WritableAlone /\ LostMapped
      /\ old # 0 /\ ~pte[t][a].w
      /\ UNCHANGED <<dir, executable, task, images, view, lost>>
  BY DEF Good, UnWpPage
<1>2. mem_map \in [Frame -> Nat] /\ lost \in [Frame -> Nat] /\ mem_map \in [Frame -> 0 .. MAP_SIZE - 1]
  BY MapType
<1>3. /\ old \in 0 .. Pages /\ old \in Frame /\ Has(Held[t], old)
      /\ \A u \in Task : /\ \A x \in Dir : dir[u][x] # old
                         /\ \A b \in Addr : pte[u][b].page = old => b = a
                         /\ task[u].struct # old /\ task[u].page # old
  <2>1. old \in 0 .. Pages
    BY HeldType DEF PteSet
  <2>2. old \in Frame
    BY <2>1, <1>1, Sizes
  <2>3. \A u \in Task : /\ \A x \in Dir : dir[u][x] # old
                        /\ old \notin {task[u].struct, task[u].page}
    BY <1>1, ExclusiveNow
  <2>4. \A u \in Task : \A b \in Addr : pte[u][b].page = old => b = a
    BY <1>1, ExclusiveNow
  <2>5. Has(Held[t], old)
    BY <2>1, HeldNow
  <2> QED
    BY <2>1, <2>2, <2>3, <2>4, <2>5
<1>4. n > lost[old] /\ n \in Nat /\ lost[old] \in Nat /\ n < MAP_SIZE
  <2>1. n > lost[old]
    BY <1>1, <1>3, HeldCounts
  <2>2. n \in 0 .. MAP_SIZE - 1 /\ lost[old] \in Nat
    BY <1>2, <1>3
  <2> QED
    BY <2>1, <2>2, Sizes
<1>5. CASE /\ n = 1
           /\ pte' = [pte EXCEPT ![t][a].w = TRUE]
           /\ UNCHANGED <<mem_map, content, halt>>
  <2> DEFINE k == [pte[t][a] EXCEPT !.w = TRUE]
  <2>1. k \in EntryRec
    BY EntryType DEF EntryRec
  <2>2. k.page = old
    BY EntryType DEF EntryRec
  <2>3. pte \in [Task -> [Addr -> EntryRec]]
    BY HeldType DEF PteSet, EntryRec
  <2>4. pte' = [pte EXCEPT ![t][a] = k]
    BY <1>5, <2>3
  <2> HIDE DEF k
  <2>5. /\ pte' \in [Task -> [Addr -> EntryRec]]
        /\ \A u \in Task : \A b \in Addr : pte'[u][b] = IF u = t /\ b = a THEN k ELSE pte[u][b]
    BY <2>1, <2>3, <2>4
  <2>6. \A u \in Task : \A b \in Addr : pte'[u][b].page = pte[u][b].page
    BY <2>2, <2>5
  <2>7. TypeOK'
    BY <1>1, <1>5, <2>5, TypeParts, TypePartsNext DEF PteSet, EntryRec
  <2>8. WritableAlone'
    <3>1. \A u \in Task \ {t} : \A b \in Addr : pte[u][b].page # old
      BY <1>1, <1>3, <1>5, SoleUser, UnheldNow
    <3> SUFFICES ASSUME NEW u \in Task, NEW b \in Addr, pte'[u][b].w
                 PROVE  /\ pte'[u][b].page # 0
                        /\ \A v \in Task : \A c \in Addr : pte'[v][c].page = pte'[u][b].page => v = u /\ c = b
      BY DEF WritableAlone
    <3>2. CASE u = t /\ b = a
      BY <3>1, <3>2, <1>1, <1>3, <2>6
    <3>3. CASE ~(u = t /\ b = a)
      <4>1. pte[u][b].w
        BY <3>3, <2>5
      <4>2. /\ pte[u][b].page # 0
            /\ \A v \in Task : \A c \in Addr : pte[v][c].page = pte[u][b].page => v = u /\ c = b
        BY <4>1, <1>1 DEF WritableAlone
      <4> QED
        BY <4>2, <2>6
    <3> QED
      BY <3>2, <3>3
  <2>9. Good'
    BY <1>1, <1>5, <2>6, <2>7, <2>8, NothingMoves
  <2> QED
    BY <2>7, <2>9, <1>5
<1>6. CASE /\ n # 1 /\ Free(mem_map) # {}
           /\ mem_map' = [Got(mem_map) EXCEPT ![old] = (@ - 1 + MAP_SIZE) % MAP_SIZE]
           /\ content' = [content EXCEPT ![p] = content[old]]
           /\ pte' = [pte EXCEPT ![t][a] = e]
           /\ UNCHANGED halt
  <2>1. /\ p \in Frame /\ p # 0 /\ p \in 0 .. Pages /\ mem_map[p] = 0 /\ lost[p] = 0
        /\ \A u \in Task : ~Has(Held[u], p)
        /\ \A u \in Task : /\ \A x \in Dir : dir[u][x] # p
                           /\ \A b \in Addr : pte[u][b].page # p
                           /\ task[u].struct # p /\ task[u].page # p
        /\ Got(mem_map) \in [Frame -> Nat]
        /\ \A x \in Frame : Got(mem_map)[x] = IF x = p THEN 1 ELSE mem_map[x]
    BY <1>1, <1>2, <1>6, NewFrame
  <2>2. p # old
    BY <2>1
  <2>3. e \in EntryRec /\ e.page = p
    BY <2>1 DEF EntryRec
  <2>4. (n - 1 + MAP_SIZE) % MAP_SIZE = n - 1
    <3> HIDE DEF n
    <3>1. n - 1 \in 0 .. MAP_SIZE - 1 /\ MAP_SIZE \in Nat /\ MAP_SIZE > 0
      BY <1>4, Sizes
    <3>2. n - 1 + MAP_SIZE = 1 * MAP_SIZE + (n - 1)
      BY <3>1
    <3> QED
      BY <3>1, <3>2
  <2> HIDE DEF p, old, e
  <2>5. /\ mem_map' \in [Frame -> Nat]
        /\ \A x \in Frame : /\ x = p => mem_map'[x] = 1
                            /\ x = old => mem_map'[x] = mem_map[x] - 1
                            /\ x # p /\ x # old => mem_map'[x] = mem_map[x]
    <3>1. Got(mem_map)[old] = n
      BY <2>1, <2>2, <1>3
    <3>2. mem_map' = [Got(mem_map) EXCEPT ![old] = n - 1] /\ n - 1 \in Nat
      <4>1. n - 1 \in Nat
        BY <1>4
      <4>2. (Got(mem_map)[old] - 1 + MAP_SIZE) % MAP_SIZE = n - 1
        BY <3>1, <2>4
      <4> HIDE DEF n
      <4> QED
        BY <4>1, <4>2, <1>6
    <3> QED
      BY <3>2, <2>1, <2>2, <1>3
  <2>6. /\ pte' \in [Task -> [Addr -> EntryRec]]
        /\ \A u \in Task : \A b \in Addr : pte'[u][b] = IF u = t /\ b = a THEN e ELSE pte[u][b]
    <3>1. pte \in [Task -> [Addr -> EntryRec]]
      BY HeldType DEF PteSet, EntryRec
    <3> QED
      BY <3>1, <2>3, <1>6
  <2>7. /\ \A u \in Task : \A b \in Addr : pte'[u][b].page = IF u = t /\ b = a THEN p ELSE pte[u][b].page
        /\ \A u \in Task : \A b \in Addr : pte'[u][b].w => (u = t /\ b = a) \/ pte[u][b].w
    BY <2>3, <2>6
  <2>8. TypeOK'
    <3>1. mem_map' \in [Frame -> 0 .. MAP_SIZE - 1]
      <4>1. ASSUME NEW x \in Frame
            PROVE  mem_map'[x] \in 0 .. MAP_SIZE - 1
        <5>1. mem_map[x] \in 0 .. MAP_SIZE - 1 /\ mem_map'[x] \in Nat
          BY <1>2, <2>5
        <5> QED
          BY <5>1, <2>5, Sizes
      <4> QED
        BY <4>1, <2>5
    <3>2. content' \in [Frame -> Value]
      <4>1. content \in [Frame -> Value]
        BY TypeParts
      <4> QED
        BY <4>1, <1>3, <1>6
    <3> QED
      BY <3>1, <3>2, <1>1, <1>6, <2>6, TypeParts, TypePartsNext DEF PteSet, EntryRec
  <2> DEFINE h == Held'[t]
  <2>9. /\ \A x \in Dir : Held[t][<<"table", x>>] = dir[t][x]
        /\ \A b \in Addr : Held[t][<<"entry", b>>] = pte[t][b].page
        /\ Held[t][Struct] = task[t].struct /\ Held[t][Page] = task[t].page
        /\ \A x \in 0 .. Pages : Has(Held[t], x) <=> \/ \E y \in Dir : dir[t][y] = x
                                                     \/ \E b \in Addr : pte[t][b].page = x
                                                     \/ task[t].struct = x
                                                     \/ task[t].page = x
    BY HeldNow
  <2>10. /\ \A x \in Dir : h[<<"table", x>>] = dir[t][x]
         /\ \A b \in Addr : h[<<"entry", b>>] = IF b = a THEN p ELSE pte[t][b].page
         /\ h[Struct] = task[t].struct /\ h[Page] = task[t].page
         /\ \A x \in 0 .. Pages : Has(h, x) <=> \/ \E y \in Dir : dir[t][y] = x
                                                \/ \E b \in Addr : pte'[t][b].page = x
                                                \/ task[t].struct = x
                                                \/ task[t].page = x
    <3>1. /\ \A x \in Dir : h[<<"table", x>>] = dir'[t][x]
          /\ \A b \in Addr : h[<<"entry", b>>] = pte'[t][b].page
          /\ h[Struct] = task'[t].struct /\ h[Page] = task'[t].page
          /\ \A x \in 0 .. Pages : Has(h, x) <=> \/ \E y \in Dir : dir'[t][y] = x
                                                 \/ \E b \in Addr : pte'[t][b].page = x
                                                 \/ task'[t].struct = x
                                                 \/ task'[t].page = x
      BY <2>8, HeldNext
    <3> HIDE DEF h
    <3>2. dir' = dir /\ task' = task
      BY <1>1
    <3> QED
      BY <3>1, <3>2, <2>7
  <2> HIDE DEF h
  <2>11. \A x \in Frame : Has(h, x) <=> (Has(Held[t], x) /\ x # old) \/ x = p
    <3> SUFFICES ASSUME NEW x \in Frame
                 PROVE  Has(h, x) <=> (Has(Held[t], x) /\ x # old) \/ x = p
      OBVIOUS
    <3>1. x \in 0 .. Pages /\ x # 0
      BY Sizes
    <3>2. (\E b \in Addr : pte'[t][b].page = x) <=> ((\E b \in Addr : pte[t][b].page = x) /\ x # old) \/ x = p
      <4>1. pte[t][a].page = old /\ \A b \in Addr : pte[t][b].page = old => b = a
        BY <1>3 DEF old
      <4> QED
        BY <3>1, <4>1, <2>2, <2>7
    <3>3. x = old => (\A y \in Dir : dir[t][y] # x) /\ x # task[t].struct /\ x # task[t].page
      BY <1>3
    <3> QED
      BY <3>1, <3>2, <3>3, <2>9, <2>10
  <2>12. \A z \in Role : May(Held, t, h, z)
    <3>1. \A z \in Role : h[z] = p => z = <<"entry", a>>
      BY <2>1, <2>10, RoleKinds
    <3>2. \A z \in Role : h[z] = Held[t][z] \/ z = <<"entry", a>>
      BY <2>9, <2>10, RoleKinds
    <3>3. May(Held, t, h, <<"entry", a>>)
      <4>1. h[<<"entry", a>>] = p
        BY <2>10
      <4> QED
        BY <3>1, <4>1, <2>1 DEF May
    <3> QED
      BY <3>2, <3>3 DEF May
  <2>13. Exclusive(Held)' /\ Counted(Held, mem_map, lost)'
    <3>1. \A u \in Task \ {t} : /\ dir'[u] = dir[u]
                                /\ \A b \in Addr : pte'[u][b].page = pte[u][b].page
                                /\ task'[u].struct = task[u].struct /\ task'[u].page = task[u].page
      BY <1>1, <2>7
    <3>2. ASSUME NEW x \in Frame
          PROVE  /\ Has(h, x) /\ ~Has(Held[t], x) => mem_map'[x] + lost[x] = mem_map[x] + lost'[x] + 1
                 /\ ~Has(h, x) /\ Has(Held[t], x) => mem_map'[x] + lost[x] = mem_map[x] + lost'[x] - 1
                 /\ (Has(h, x) <=> Has(Held[t], x)) => mem_map'[x] + lost[x] = mem_map[x] + lost'[x]
      <4>1. lost'[x] = lost[x] /\ lost[x] \in Nat /\ mem_map[x] \in Nat
        BY <1>1, <1>2
      <4>2. CASE x = p
        <5>1. ~Has(Held[t], x) /\ Has(h, x) /\ mem_map[x] = 0 /\ mem_map'[x] = 1
          BY <4>2, <2>1, <2>5, <2>11
        <5> QED
          BY <5>1, <4>1
      <4>3. CASE x = old
        <5>1. Has(Held[t], x) /\ ~Has(h, x) /\ mem_map'[x] = mem_map[x] - 1
          BY <4>3, <1>3, <2>2, <2>5, <2>11
        <5> QED
          BY <5>1, <4>1
      <4>4. CASE x # p /\ x # old
        <5>1. (Has(h, x) <=> Has(Held[t], x)) /\ mem_map'[x] = mem_map[x]
          BY <4>4, <2>5, <2>11
        <5> QED
          BY <5>1, <4>1
      <4> QED
        BY <4>2, <4>3, <4>4
    <3> QED
      BY <3>1, <3>2, <1>1, <2>8, <2>12, StepCounts DEF h
  <2>14. Shape'
    <3>1. \A u \in Task : \A b \in Addr : pte'[u][b].page # 0 => pte[u][b].page # 0
      BY <1>1, <2>7 DEF old
    <3> QED
      BY <3>1, <1>1 DEF Shape
  <2>15. WritableAlone'
    <3> SUFFICES ASSUME NEW u \in Task, NEW b \in Addr, pte'[u][b].w
                 PROVE  /\ pte'[u][b].page # 0
                        /\ \A v \in Task : \A c \in Addr : pte'[v][c].page = pte'[u][b].page => v = u /\ c = b
      BY DEF WritableAlone
    <3>1. CASE u = t /\ b = a
      BY <3>1, <2>1, <2>7
    <3>2. CASE ~(u = t /\ b = a)
      <4>1. pte[u][b].w /\ pte'[u][b].page = pte[u][b].page
        BY <3>2, <2>7
      <4>2. /\ pte[u][b].page # 0 /\ pte[u][b].page # p
            /\ \A v \in Task : \A c \in Addr : pte[v][c].page = pte[u][b].page => v = u /\ c = b
        BY <4>1, <1>1, <2>1 DEF WritableAlone
      <4> QED
        BY <4>1, <4>2, <2>7
    <3> QED
      BY <3>1, <3>2
  <2>16. LostMapped'
    BY <1>1 DEF LostMapped
  <2> QED
    BY <2>8, <2>13, <2>14, <2>15, <2>16, <1>6 DEF Good
<1>7. CASE halt' = "no frame" /\ UNCHANGED <<mem_map, pte, content>>
  BY <1>1, <1>7, TypeParts, TypePartsNext
<1> QED
  BY <1>5, <1>6, <1>7 DEF UnWpPage

\* How often copy_page_tables counts a frame anew: once for a page of the parent.
LEMMA CopiedOnce ==
    ASSUME TypeOK, Good, NEW t \in Task
    PROVE  /\ Copied(t, Tables(t)) = {a \in Addr : pte[t][a].page # 0}
           /\ \A p \in Frame : Cardinality({a \in Copied(t, Tables(t)) : pte[t][a].page = p})
                                 = IF \E a \in Addr : pte[t][a].page = p THEN 1 ELSE 0
<1>1. Copied(t, Tables(t)) = {a \in Addr : pte[t][a].page # 0}
  <2>1. \A a \in Addr : pte[t][a].page # 0 => dir[t][DirOf(a)] # 0 /\ DirOf(a) \in Dir
    BY DEF Good, Shape, DirOf, Dir
  <2> QED
    BY <2>1 DEF Copied, Tables
<1>2. ASSUME NEW p \in Frame
      PROVE  Cardinality({a \in Copied(t, Tables(t)) : pte[t][a].page = p})
               = IF \E a \in Addr : pte[t][a].page = p THEN 1 ELSE 0
  <2> DEFINE S == {a \in Copied(t, Tables(t)) : pte[t][a].page = p}
  <2>1. p # 0
    BY Sizes
  <2>2. \A a : a \in S <=> a \in Addr /\ pte[t][a].page = p
    BY <2>1, <1>1
  <2> HIDE DEF S
  <2>3. \A a, b \in S : a = b
    BY <2>1, <2>2, ExclusiveNow DEF Good
  <2>4. Cardinality(S) = IF S = {} THEN 0 ELSE 1
    BY <2>3, AtMostOne
  <2>5. (\E a \in Addr : pte[t][a].page = p) <=> S # {}
    BY <2>2
  <2>6. Cardinality(S) = IF \E a \in Addr : pte[t][a].page = p THEN 1 ELSE 0
    BY <2>4, <2>5
  <2> QED
    BY <2>6 DEF S
<1> QED
  BY <1>1, <1>2

\* The frames that a fork takes: for the structure of the child and its tables.
LEMMA ForkFrames ==
    ASSUME TypeOK, Good, NEW t \in Task, dir[t]["top"] # 0,
           Cardinality(Free(mem_map)) > Cardinality(Tables(t))
    PROVE  LET both == dir[t]["bottom"] # 0
               m0   == Got(mem_map)
               m1   == IF both THEN Got(m0) ELSE m0
               q0   == Get(mem_map)
               q1   == Get(m0)
               q2   == Get(m1)
               New(q) == /\ q \in Frame /\ q # 0 /\ q \in 0 .. Pages /\ mem_map[q] = 0 /\ lost[q] = 0
                         /\ \A u \in Task : ~Has(Held[u], q)
                         /\ \A u \in Task : /\ \A x \in Dir : dir[u][x] # q
                                            /\ \A b \in Addr : pte[u][b].page # q
                                            /\ task[u].struct # q /\ task[u].page # q
           IN  /\ New(q0) /\ New(q2) /\ (both => New(q1))
               /\ q0 # q2 /\ (both => q1 # q0 /\ q1 # q2)
               /\ Got(m1) \in [Frame -> Nat]
               /\ \A x \in Frame : Got(m1)[x] = IF x = q0 \/ x = q2 \/ (both /\ x = q1) THEN 1
                                                ELSE mem_map[x]
<1> DEFINE both == dir[t]["bottom"] # 0
           m0   == Got(mem_map)
           m1   == IF both THEN Got(m0) ELSE m0
           q0   == Get(mem_map)
           q1   == Get(m0)
           q2   == Get(m1)
           New(q) == /\ q \in Frame /\ q # 0 /\ q \in 0 .. Pages /\ mem_map[q] = 0 /\ lost[q] = 0
                     /\ \A u \in Task : ~Has(Held[u], q)
                     /\ \A u \in Task : /\ \A x \in Dir : dir[u][x] # q
                                        /\ \A b \in Addr : pte[u][b].page # q
                                        /\ task[u].struct # q /\ task[u].page # q
           F == Free(mem_map)
<1>1. /\ Counted(Held, mem_map, lost) /\ mem_map \in [Frame -> Nat]
      /\ \A x \in Frame : mem_map[x] = 0 => mem_map[x] = 0
  BY MapType DEF Good
<1>2. IsFiniteSet(F) /\ Cardinality(F) \in Nat
  <2>1. IsFiniteSet(Frame) /\ F \subseteq Frame
    BY Sizes, FS_Interval DEF Frame, Free
  <2> QED
    BY <2>1, FS_Subset, FS_CardinalityType
<1>3. /\ both => Cardinality(F) > 2
      /\ Cardinality(F) > 1
  <2>1. both => Tables(t) = {"bottom", "top"}
    BY DEF Tables, Dir
  <2>2. ~both => Tables(t) = {"top"}
    BY DEF Tables, Dir
  <2>3. Cardinality({"bottom", "top"}) = 2 /\ Cardinality({"top"}) = 1
    <3> DEFINE T == {"top"}
               b == "bottom"
    <3>1. IsFiniteSet(T) /\ Cardinality(T) = 1
      BY FS_Singleton
    <3>2. {"bottom", "top"} = T \cup {b} /\ b \notin T
      OBVIOUS
    <3> HIDE DEF T, b
    <3>3. Cardinality(T \cup {b}) = Cardinality(T) + 1
      BY <3>1, <3>2, FS_AddElement
    <3>4. Cardinality(T \cup {b}) = 2
      BY <3>1, <3>3
    <3> QED
      BY <3>1, <3>2, <3>4 DEF T
  <2> QED
    BY <2>1, <2>2, <2>3, <1>2
<1>4. F # {}
  BY <1>2, <1>3, FS_EmptySet
<1>5. /\ New(q0) /\ m0 \in [Frame -> Nat]
      /\ \A x \in Frame : m0[x] = IF x = q0 THEN 1 ELSE mem_map[x]
      /\ q0 \in F /\ Free(m0) = F \ {q0}
  <2>1. /\ New(q0) /\ m0 \in [Frame -> Nat]
        /\ \A x \in Frame : m0[x] = IF x = q0 THEN 1 ELSE mem_map[x]
    BY <1>1, <1>4, NewFrame
  <2>2. q0 \in F /\ Free(m0) = F \ {q0}
    BY <1>1, <1>4, GotOne DEF Free
  <2> QED
    BY <2>1, <2>2
<1> HIDE DEF F, m0, q0
<1>6. IsFiniteSet(Free(m0)) /\ Cardinality(Free(m0)) = Cardinality(F) - 1 /\ Free(m0) # {}
  <2>1. IsFiniteSet(Free(m0)) /\ Cardinality(Free(m0)) = Cardinality(F) - 1
    BY <1>2, <1>5, FS_RemoveElement
  <2> QED
    BY <2>1, <1>2, <1>3, FS_EmptySet
<1>7. \A x \in Frame : m0[x] = 0 => mem_map[x] = 0
  BY <1>5
<1>8. /\ New(q1) /\ q1 # q0 /\ Got(m0) \in [Frame -> Nat]
      /\ \A x \in Frame : Got(m0)[x] = IF x = q1 THEN 1 ELSE m0[x]
      /\ q1 \in Free(m0) /\ Free(Got(m0)) = Free(m0) \ {q1}
  <2>1. /\ New(q1) /\ Got(m0) \in [Frame -> Nat] /\ m0[q1] = 0
        /\ \A x \in Frame : Got(m0)[x] = IF x = q1 THEN 1 ELSE m0[x]
    BY <1>1, <1>5, <1>6, <1>7, NewFrame
  <2>2. q1 \in Free(m0) /\ Free(Got(m0)) = Free(m0) \ {q1}
    BY <1>5, <1>6, GotOne DEF Free
  <2>3. q1 # q0
    BY <2>1, <1>5
  <2> QED
    BY <2>1, <2>2, <2>3
<1> HIDE DEF q1
<1>9. /\ m1 \in [Frame -> Nat] /\ Free(m1) # {}
      /\ \A x \in Frame : m1[x] = IF x = q0 \/ (both /\ x = q1) THEN 1 ELSE mem_map[x]
  <2>1. CASE both
    <3>1. IsFiniteSet(Free(m1)) /\ Cardinality(Free(m1)) = Cardinality(F) - 2
      <4>1. Free(m1) = Free(m0) \ {q1}
        BY <2>1, <1>8
      <4> QED
        BY <4>1, <1>2, <1>6, <1>8, FS_RemoveElement
    <3>2. Free(m1) # {}
      BY <2>1, <3>1, <1>2, <1>3, FS_EmptySet
    <3> QED
      BY <2>1, <3>2, <1>5, <1>8
  <2>2. CASE ~both
    BY <2>2, <1>5, <1>6
  <2> QED
    BY <2>1, <2>2
<1> HIDE DEF m1
<1>10. /\ New(q2) /\ Got(m1) \in [Frame -> Nat] /\ m1[q2] = 0
       /\ \A x \in Frame : Got(m1)[x] = IF x = q2 THEN 1 ELSE m1[x]
  <2>1. \A x \in Frame : m1[x] = 0 => mem_map[x] = 0
    BY <1>9
  <2> QED
    BY <2>1, <1>1, <1>9, NewFrame
<1> HIDE DEF q2
<1>11. q0 # q2 /\ (both => q1 # q2)
  <2> HIDE DEF both
  <2> QED
    BY <1>9, <1>10
<1> HIDE DEF New
<1>12. \A x \in Frame : Got(m1)[x] = IF x = q0 \/ x = q2 \/ (both /\ x = q1) THEN 1
                                     ELSE mem_map[x]
  <2> HIDE DEF both
  <2> QED
    BY <1>9, <1>10
<1>13. /\ New(q0) /\ New(q2) /\ (both => New(q1))
       /\ q0 # q2 /\ (both => q1 # q0 /\ q1 # q2)
       /\ Got(m1) \in [Frame -> Nat]
       /\ \A x \in Frame : Got(m1)[x] = IF x = q0 \/ x = q2 \/ (both /\ x = q1) THEN 1
                                        ELSE mem_map[x]
  BY <1>5, <1>8, <1>10, <1>11, <1>12
<1> QED
  BY <1>13 DEF New, q0, q1, q2, m0, m1

\* copy_page_tables makes the child one more user of each page of its parent, which
\* is where counts could wrap (memory.c:57-106).
LEMMA ForkGood ==
    ASSUME TypeOK, halt = "no", Good, LeaksFit, NEW t \in Task, Fork(t)
    PROVE  TypeOK' /\ Good' /\ halt' = "no"
<1> DEFINE c    == Min(Unused)
           both == dir[t]["bottom"] # 0
           m0   == Got(mem_map)
           m1   == IF both THEN Got(m0) ELSE m0
           m2   == Got(m1)
           q0   == Get(mem_map)
           q1   == Get(m0)
           q2   == Get(m1)
           copies(x) == Cardinality({a \in Copied(t, Tables(t)) : pte[t][a].page = x})
           has(x) == \E a \in Addr : pte[t][a].page = x
           ps   == Protect(t, Tables(t), pte)
           row  == [d \in Dir |-> IF dir[t][d] = 0 THEN 0 ELSE IF d = "bottom" THEN q1 ELSE q2]
           New(q) == /\ q \in Frame /\ q # 0 /\ q \in 0 .. Pages /\ mem_map[q] = 0 /\ lost[q] = 0
                     /\ \A u \in Task : ~Has(Held[u], q)
                     /\ \A u \in Task : /\ \A x \in Dir : dir[u][x] # q
                                        /\ \A b \in Addr : pte[u][b].page # q
                                        /\ task[u].struct # q /\ task[u].page # q
<1>1. /\ Exclusive(Held) /\ Counted(Held, mem_map, lost) /\ Shape /\ WritableAlone /\ LostMapped
      /\ task[t].at = "user" /\ dir[t]["top"] # 0 /\ executable[t] \in Exe
  BY DEF Good, Fork, Runs, Shape
<1>2. /\ c \in Task /\ c # t /\ task[c].at = "none" /\ task[c].struct = 0 /\ task[c].page = 0
      /\ (\A d \in Dir : dir[c][d] = 0) /\ (\A a \in Addr : pte[c][a].page = 0)
  <2>1. Unused \in SUBSET Nat /\ Unused # {}
    BY Sizes DEF Fork, Unused, Task
  <2>2. c \in Unused
    BY <2>1, MinOf
  <2>3. c \in Task /\ task[c].at = "none"
    BY <2>2 DEF Unused
  <2> HIDE DEF c
  <2> QED
    BY <2>3, <1>1 DEF Shape
<1>3. /\ New(q0) /\ New(q2) /\ (both => New(q1))
      /\ q0 # q2 /\ (both => q1 # q0 /\ q1 # q2)
      /\ m2 \in [Frame -> Nat]
      /\ \A x \in Frame : m2[x] = IF x = q0 \/ x = q2 \/ (both /\ x = q1) THEN 1 ELSE mem_map[x]
  <2>1. Cardinality(Free(mem_map)) > Cardinality(Tables(t))
    BY DEF Fork
  <2> QED
    BY <2>1, <1>1, ForkFrames
<1>4. /\ mem_map' = [p \in Frame |-> Plus(m2[p], copies(p))]
      /\ dir' = [dir EXCEPT ![c] = row]
      /\ pte' = [ps EXCEPT ![c] = [a \in Addr |-> [pte[t][a] EXCEPT !.w = FALSE]]]
      /\ executable' = [executable EXCEPT ![c] = executable[t]]
      /\ task' = [task EXCEPT ![c] = [NoTask EXCEPT !.at = "user", !.struct = q0]]
      /\ view' = [view EXCEPT ![c] = view[t]]
      /\ images' = images + 1 /\ images < MaxImages
      /\ UNCHANGED <<content, halt, lost>>
  <2> DEFINE m3 == IF dir[t]["top"] # 0 THEN m2 ELSE m1
  <2>1. m3 = m2
    BY <1>1
  <2>2. mem_map' = [p \in Frame |-> Plus(m3[p], copies(p))]
    BY DEF Fork
  <2>3. mem_map' = [p \in Frame |-> Plus(m2[p], copies(p))]
    <3> HIDE DEF m3, m2, copies
    <3> QED
      BY <2>1, <2>2
  <2>4. dir' = [dir EXCEPT ![c] = row]
    BY DEF Fork
  <2>5. pte' = [ps EXCEPT ![c] = [a \in Addr |-> [pte[t][a] EXCEPT !.w = FALSE]]]
    BY DEF Fork
  <2>6. /\ executable' = [executable EXCEPT ![c] = executable[t]]
        /\ task' = [task EXCEPT ![c] = [NoTask EXCEPT !.at = "user", !.struct = q0]]
        /\ view' = [view EXCEPT ![c] = view[t]]
        /\ images' = images + 1 /\ images < MaxImages
        /\ UNCHANGED <<content, halt, lost>>
    BY DEF Fork
  <2> QED
    BY <2>3, <2>4, <2>5, <2>6
<1>5. mem_map \in [Frame -> Nat] /\ lost \in [Frame -> Nat] /\ mem_map \in [Frame -> 0 .. MAP_SIZE - 1]
  BY MapType
<1>6. /\ Copied(t, Tables(t)) = {a \in Addr : pte[t][a].page # 0}
      /\ \A x \in Frame : copies(x) = IF has(x) THEN 1 ELSE 0
  BY <1>1, CopiedOnce
<1> HIDE DEF c, m0, m1, m2, q0, q1, q2, copies, ps
<1>7. \A x \in Frame : /\ has(x) => x # q0 /\ x # q2 /\ ~(both /\ x = q1)
                       /\ has(x) => mem_map'[x] = mem_map[x] + 1 /\ mem_map[x] + 1 < MAP_SIZE
                       /\ ~has(x) => mem_map'[x] = m2[x]
  <2> SUFFICES ASSUME NEW x \in Frame
               PROVE  /\ has(x) => x # q0 /\ x # q2 /\ ~(both /\ x = q1)
                      /\ has(x) => mem_map'[x] = mem_map[x] + 1 /\ mem_map[x] + 1 < MAP_SIZE
                      /\ ~has(x) => mem_map'[x] = m2[x]
    OBVIOUS
  <2>1. mem_map'[x] = Plus(m2[x], copies(x)) /\ m2[x] \in Nat /\ mem_map[x] \in 0 .. MAP_SIZE - 1
    BY <1>3, <1>4, <1>5
  <2>2. has(x) => x # q0 /\ x # q2 /\ ~(both /\ x = q1)
    BY <1>3
  <2>3. ASSUME has(x)
        PROVE  mem_map'[x] = mem_map[x] + 1 /\ mem_map[x] + 1 < MAP_SIZE
    <3>1. ~Has(Held[c], x)
      <4>1. x # 0 /\ x \in 0 .. Pages
        BY Sizes
      <4> QED
        BY <4>1, <1>2, HeldNow
    <3>2. mem_map[x] + 1 < MAP_SIZE /\ mem_map[x] \in Nat
      BY <3>1, <1>2, RoomForOne
    <3>3. m2[x] = mem_map[x] /\ copies(x) = 1
      BY <2>2, <2>3, <1>3, <1>6
    <3> HIDE DEF has
    <3> QED
      BY <2>1, <3>2, <3>3, NoWrap
  <2>4. ASSUME ~has(x)
        PROVE  mem_map'[x] = m2[x]
    <3>1. copies(x) = 0
      BY <2>4, <1>6
    <3>2. m2[x] + 0 < MAP_SIZE
      BY <2>1, <1>3, Sizes
    <3> HIDE DEF has
    <3>3. Plus(m2[x], 0) = m2[x] + 0
      BY <2>1, <3>2, NoWrap
    <3> QED
      BY <2>1, <3>1, <3>3
  <2> QED
    BY <2>2, <2>3, <2>4
<1>8. /\ row \in [Dir -> 0 .. Pages]
      /\ row["top"] = q2 /\ row["bottom"] = (IF both THEN q1 ELSE 0)
      /\ \A d \in Dir : d = "top" \/ d = "bottom"
      /\ "top" \in Dir /\ "bottom" \in Dir
  <2> HIDE DEF New
  <2>1. q2 \in 0 .. Pages /\ (both => q1 \in 0 .. Pages) /\ 0 \in 0 .. Pages
    BY <1>3, Sizes DEF New
  <2> QED
    BY <2>1, <1>1 DEF Dir
<1> HIDE DEF row
<1>9. /\ dir' \in DirSet
      /\ dir'[c] = row /\ \A u \in Task \ {c} : dir'[u] = dir[u]
  <2>1. dir \in DirSet
    BY HeldType
  <2> QED
    BY <2>1, <1>2, <1>4, <1>8 DEF DirSet
<1>10. /\ pte' \in PteSet
       /\ \A a \in Addr : pte'[c][a].page = pte[t][a].page /\ ~pte'[c][a].w
       /\ \A u \in Task \ {c} : \A a \in Addr : pte'[u][a].page = pte[u][a].page
       /\ \A u \in Task \ {c} : \A a \in Addr : pte'[u][a].w => pte[u][a].w /\ u # t
  <2>1. /\ ps \in PteSet
        /\ \A u \in Task : \A a \in Addr : ps[u][a].page = pte[u][a].page
        /\ \A u \in Task \ {t} : ps[u] = pte[u]
        /\ \A a \in Addr : ps[t][a].w <=> pte[t][a].w /\ a \notin Copied(t, Tables(t))
    BY Protected DEF ps
  <2> DEFINE e(a) == [pte[t][a] EXCEPT !.w = FALSE]
             es   == [a \in Addr |-> e(a)]
  <2>2. \A a \in Addr : e(a) \in EntryRec /\ e(a).page = pte[t][a].page /\ ~e(a).w
    BY EntryType, EntryUpdates
  <2> HIDE DEF e
  <2>3. es \in [Addr -> EntryRec] /\ \A a \in Addr : es[a].page = pte[t][a].page /\ ~es[a].w
    BY <2>2
  <2>4. pte' = [ps EXCEPT ![c] = es]
    BY <1>4 DEF e
  <2> HIDE DEF es
  <2>5. pte' \in PteSet /\ pte'[c] = es /\ \A u \in Task \ {c} : pte'[u] = ps[u]
    BY <2>1, <2>3, <2>4, <1>2 DEF PteSet, EntryRec
  <2>6. \A u \in Task \ {c} : \A a \in Addr : pte'[u][a].w => pte[u][a].w /\ u # t
    <3> SUFFICES ASSUME NEW u \in Task \ {c}, NEW a \in Addr, ps[u][a].w
                 PROVE  pte[u][a].w /\ u # t
      BY <2>5
    <3>1. CASE u = t
      <4>1. pte[t][a].w /\ a \notin Copied(t, Tables(t))
        BY <3>1, <2>1
      <4>2. pte[t][a].page = 0
        BY <4>1, <1>6
      <4> QED
        BY <4>1, <4>2, <1>1 DEF WritableAlone
    <3>2. CASE u # t
      BY <3>2, <2>1
    <3> QED
      BY <3>1, <3>2
  <2> QED
    BY <2>1, <2>3, <2>5, <2>6
<1>11. /\ task' \in TaskSet
       /\ \A u \in Task \ {c} : task'[u] = task[u]
       /\ task'[c].at = "user" /\ task'[c].struct = q0 /\ task'[c].page = 0
  <2> DEFINE k == [NoTask EXCEPT !.at = "user", !.struct = q0]
  <2>1. q0 \in 0 .. Pages /\ 0 \in 0 .. Pages
    BY <1>3, Sizes
  <2>2. k \in TaskRec
    BY <2>1 DEF NoTask, TaskRec
  <2>3. k.at = "user" /\ k.struct = q0 /\ k.page = 0
    BY DEF NoTask
  <2>4. task \in TaskSet /\ task' = [task EXCEPT ![c] = k]
    BY <1>4, HeldType
  <2> HIDE DEF k
  <2> QED
    BY <2>2, <2>3, <2>4, <1>2 DEF TaskSet, TaskRec
<1>12. TypeOK'
  <2>1. mem_map' \in [Frame -> 0 .. MAP_SIZE - 1]
    <3>1. ASSUME NEW x \in Frame
          PROVE  mem_map'[x] \in 0 .. MAP_SIZE - 1
      <4>1. mem_map[x] \in 0 .. MAP_SIZE - 1
        BY <1>5
      <4> HIDE DEF has, New
      <4>2. CASE has(x)
        BY <4>1, <4>2, <1>7, Sizes
      <4>3. CASE ~has(x)
        BY <4>1, <4>3, <1>3, <1>7, Sizes
      <4> QED
        BY <4>2, <4>3
    <3> QED
      BY <3>1, <1>4
  <2>2. executable' \in [Task -> Exe \cup {None}] /\ view' \in [Task -> [Addr -> Value]] /\ images' \in 0 .. MaxImages
    <3>1. executable \in [Task -> Exe \cup {None}] /\ view \in [Task -> [Addr -> Value]] /\ images \in 0 .. MaxImages
      BY TypeParts
    <3> QED
      BY <3>1, <1>2, <1>4, SizesAssumption
  <2> QED
    BY <2>1, <2>2, <1>4, <1>9, <1>10, <1>11, TypeParts, TypePartsNext
<1> DEFINE h == Held'[c]
<1>13. /\ h[<<"table", "top">>] = q2 /\ h[<<"table", "bottom">>] = (IF both THEN q1 ELSE 0)
       /\ \A b \in Addr : h[<<"entry", b>>] = pte[t][b].page
       /\ h[Struct] = q0 /\ h[Page] = 0
       /\ \A x \in Frame : Has(h, x) <=> x = q0 \/ x = q2 \/ (both /\ x = q1) \/ has(x)
  <2>1. /\ \A x \in Dir : h[<<"table", x>>] = dir'[c][x]
        /\ \A b \in Addr : h[<<"entry", b>>] = pte'[c][b].page
        /\ h[Struct] = task'[c].struct /\ h[Page] = task'[c].page
        /\ \A x \in 0 .. Pages : Has(h, x) <=> \/ \E y \in Dir : dir'[c][y] = x
                                               \/ \E b \in Addr : pte'[c][b].page = x
                                               \/ task'[c].struct = x
                                               \/ task'[c].page = x
    BY <1>2, <1>12, HeldNext
  <2> HIDE DEF h
  <2>2. ASSUME NEW x \in Frame
        PROVE  Has(h, x) <=> x = q0 \/ x = q2 \/ (both /\ x = q1) \/ has(x)
    <3>1. x # 0 /\ x \in 0 .. Pages
      BY Sizes
    <3>2. (\E y \in Dir : dir'[c][y] = x) <=> x = q2 \/ (both /\ x = q1)
      <4> HIDE DEF both
      <4> QED
        BY <3>1, <1>8, <1>9
    <3>3. (\E b \in Addr : pte'[c][b].page = x) <=> has(x)
      BY <1>10
    <3> HIDE DEF has, both
    <3> QED
      BY <3>1, <3>2, <3>3, <2>1, <1>11
  <2> HIDE DEF has, both
  <2> QED
    BY <2>1, <2>2, <1>8, <1>9, <1>10, <1>11
<1> HIDE DEF h
<1>14. \A z \in Role : \/ z = <<"table", "top">> \/ z = <<"table", "bottom">>
                       \/ \E a \in Addr : z = <<"entry", a>>
                       \/ z = Struct \/ z = Page
  BY <1>8, RoleKinds
<1>15. \A z \in Role : May(Held, c, h, z)
  <2>1. \A a \in Addr : pte[t][a].page # q0 /\ pte[t][a].page # q2 /\ (both => pte[t][a].page # q1)
    BY <1>3
  <2>2. q0 # 0 /\ q2 # 0 /\ (both => q1 # 0) /\ q0 # q2 /\ (both => q1 # q0 /\ q1 # q2)
    BY <1>3
  <2> HIDE DEF both
  <2>3. \A z \in Role : h[z] = q0 => z = Struct
    BY <2>1, <2>2, <1>13, <1>14
  <2>4. \A z \in Role : h[z] = q2 => z = <<"table", "top">>
    BY <2>1, <2>2, <1>13, <1>14
  <2>5. both => \A z \in Role : h[z] = q1 => z = <<"table", "bottom">>
    BY <2>1, <2>2, <1>13, <1>14
  <2>6. \A u \in Task : ~Has(Held[u], q0) /\ ~Has(Held[u], q2) /\ (both => ~Has(Held[u], q1))
    BY <1>3
  <2>7. May(Held, c, h, Struct)
    BY <2>3, <2>6, <1>13 DEF May
  <2>8. May(Held, c, h, <<"table", "top">>)
    BY <2>4, <2>6, <1>13 DEF May
  <2>9. May(Held, c, h, <<"table", "bottom">>)
    BY <2>5, <2>6, <1>13 DEF May
  <2>10. May(Held, c, h, Page)
    BY <1>13 DEF May
  <2>11. ASSUME NEW a \in Addr
         PROVE  May(Held, c, h, <<"entry", a>>)
    <3>1. h[<<"entry", a>>] = Held[t][<<"entry", a>>]
      BY <1>13, HeldNow
    <3>2. <<"entry", a>>[1] = "entry"
      OBVIOUS
    <3> QED
      BY <3>1, <3>2 DEF May
  <2> QED
    BY <2>7, <2>8, <2>9, <2>10, <2>11, <1>14
<1>16. Exclusive(Held)' /\ Counted(Held, mem_map, lost)'
  <2>1. \A u \in Task \ {c} : /\ dir'[u] = dir[u]
                              /\ \A b \in Addr : pte'[u][b].page = pte[u][b].page
                              /\ task'[u].struct = task[u].struct /\ task'[u].page = task[u].page
    BY <1>9, <1>10, <1>11
  <2>2. ASSUME NEW x \in Frame
        PROVE  /\ Has(h, x) /\ ~Has(Held[c], x) => mem_map'[x] + lost[x] = mem_map[x] + lost'[x] + 1
               /\ ~Has(h, x) /\ Has(Held[c], x) => mem_map'[x] + lost[x] = mem_map[x] + lost'[x] - 1
               /\ (Has(h, x) <=> Has(Held[c], x)) => mem_map'[x] + lost[x] = mem_map[x] + lost'[x]
    <3>1. lost'[x] = lost[x] /\ lost[x] \in Nat /\ mem_map[x] \in Nat
      BY <1>4, <1>5
    <3>2. ~Has(Held[c], x)
      <4>1. x # 0 /\ x \in 0 .. Pages
        BY Sizes
      <4> QED
        BY <4>1, <1>2, HeldNow
    <3>3. CASE x = q0 \/ x = q2 \/ (both /\ x = q1)
      <4>1. mem_map[x] = 0
        BY <3>3, <1>3
      <4>2. mem_map'[x] = 1 /\ Has(h, x)
        BY <3>3, <1>3, <1>7, <1>13
      <4> QED
        BY <4>1, <4>2, <3>1, <3>2
    <3>4. CASE ~(x = q0 \/ x = q2 \/ (both /\ x = q1)) /\ has(x)
      <4>1. mem_map'[x] = mem_map[x] + 1 /\ Has(h, x)
        BY <3>4, <1>7, <1>13
      <4> QED
        BY <4>1, <3>1, <3>2
    <3>5. CASE ~(x = q0 \/ x = q2 \/ (both /\ x = q1)) /\ ~has(x)
      <4>1. mem_map'[x] = mem_map[x] /\ ~Has(h, x)
        BY <3>5, <1>3, <1>7, <1>13
      <4> QED
        BY <4>1, <3>1, <3>2
    <3> QED
      BY <3>3, <3>4, <3>5
  <2> QED
    BY <2>1, <2>2, <1>1, <1>2, <1>12, <1>15, StepCounts DEF h
<1>17. Shape'
  <2>1. \A u \in Task \ {c} : /\ task'[u] = task[u] /\ dir'[u] = dir[u] /\ executable'[u] = executable[u]
                              /\ \A b \in Addr : pte'[u][b].page = pte[u][b].page
    <3>1. executable \in [Task -> Exe \cup {None}]
      BY TypeParts
    <3> QED
      BY <3>1, <1>4, <1>9, <1>10, <1>11
  <2>2. executable'[c] \in Exe
    <3>1. executable \in [Task -> Exe \cup {None}]
      BY TypeParts
    <3> QED
      BY <3>1, <1>1, <1>2, <1>4
  <2>3. q0 # 0 /\ q2 # 0 /\ (both => q1 # 0)
    BY <1>3
  <2>4. \A b \in Addr : pte'[c][b].page # 0 => dir'[c][DirOf(b)] # 0
    <3> SUFFICES ASSUME NEW b \in Addr, pte[t][b].page # 0
                 PROVE  row[DirOf(b)] # 0
      BY <1>9, <1>10
    <3>1. dir[t][DirOf(b)] # 0 /\ DirOf(b) \in {"top", "bottom"}
      BY <1>1 DEF Shape, DirOf
    <3> QED
      BY <3>1, <2>3, <1>8
  <2>5. dir'[c]["top"] # 0
    BY <2>3, <1>8, <1>9
  <2>6. \A u \in Task \ {c} :
           /\ task'[u].at = "none" <=> task'[u].struct = 0
           /\ task'[u].at \in {"read", "exec"} <=> task'[u].page # 0
           /\ task'[u].at \in {"none", "zombie"} =>
                (\A d \in Dir : dir'[u][d] = 0) /\ (\A a \in Addr : pte'[u][a].page = 0)
           /\ task'[u].at \in {"user", "read", "exec"} => dir'[u]["top"] # 0 /\ executable'[u] \in Exe
           /\ task'[u].at = "read" => task'[u].addr \in Text
           /\ \A a \in Addr : pte'[u][a].page # 0 => dir'[u][DirOf(a)] # 0
    BY <2>1, <1>1 DEF Shape
  <2>7. /\ task'[c].at = "none" <=> task'[c].struct = 0
        /\ task'[c].at \in {"read", "exec"} <=> task'[c].page # 0
        /\ task'[c].at \notin {"none", "zombie", "read"}
    BY <2>3, <1>11
  <2> QED
    BY <2>2, <2>4, <2>5, <2>6, <2>7 DEF Shape
<1>18. WritableAlone'
  <2> SUFFICES ASSUME NEW u \in Task, NEW b \in Addr, pte'[u][b].w
               PROVE  /\ pte'[u][b].page # 0
                      /\ \A v \in Task : \A a \in Addr : pte'[v][a].page = pte'[u][b].page => v = u /\ a = b
    BY DEF WritableAlone
  <2>1. u # c
    BY <1>10
  <2>2. pte[u][b].w /\ u # t /\ pte'[u][b].page = pte[u][b].page
    BY <2>1, <1>10
  <2>3. /\ pte[u][b].page # 0
        /\ \A v \in Task : \A a \in Addr : pte[v][a].page = pte[u][b].page => v = u /\ a = b
    BY <2>2, <1>1 DEF WritableAlone
  <2>4. ASSUME NEW v \in Task, NEW a \in Addr, pte'[v][a].page = pte[u][b].page
        PROVE  v = u /\ a = b
    <3>1. CASE v = c
      <4>1. pte[t][a].page = pte[u][b].page
        BY <3>1, <2>4, <1>10
      <4> QED
        BY <4>1, <2>2, <2>3
    <3>2. CASE v # c
      BY <3>2, <2>3, <2>4, <1>10
    <3> QED
      BY <3>1, <3>2
  <2> QED
    BY <2>2, <2>3, <2>4
<1>19. LostMapped'
  <2>1. lost' = lost /\ LostMapped
    BY <1>1, <1>4
  <2>2. lost[q0] = 0 /\ lost[q2] = 0 /\ (both => lost[q1] = 0)
    BY <1>3
  <2>3. \A d \in Dir : dir'[c][d] # 0 => lost[dir'[c][d]] = 0
    BY <2>2, <1>8, <1>9
  <2>4. \A u \in Task \ {c} : task'[u] = task[u] /\ dir'[u] = dir[u]
    BY <1>9, <1>11
  <2> QED
    BY <2>1, <2>2, <2>3, <2>4, <1>11 DEF LostMapped
<1> QED
  BY <1>1, <1>4, <1>12, <1>16, <1>17, <1>18, <1>19 DEF Good

----------------------------------------------------------------------------
\* The counts.

\* mem_init and the first task, with a page of arguments.
LEMMA InitGood ==
    ASSUME Init
    PROVE  TypeOK /\ halt = "no" /\ Good
<1> DEFINE e == CHOOSE x \in Exe : TRUE
           arg == [page |-> Pages - 2, w |-> TRUE, d |-> TRUE]
           one == [NoTask EXCEPT !.at = "user", !.struct = Pages]
<1>1. e \in Exe
  BY AddrAssumption
<1> HIDE DEF e
<1>2. /\ mem_map = [p \in Frame |-> IF p > Pages - 3 THEN 1 ELSE 0]
      /\ dir = [t \in Task |-> [d \in Dir |-> IF t = 1 /\ d = "top" THEN Pages - 1 ELSE 0]]
      /\ pte = [t \in Task |-> [a \in Addr |-> IF t = 1 /\ a = ArgPage THEN arg ELSE Absent]]
      /\ content = [p \in Frame |-> IF p = Pages - 2 THEN By(1) ELSE Zero]
      /\ executable = [t \in Task |-> IF t = 1 THEN e ELSE None]
      /\ task = [t \in Task |-> IF t = 1 THEN one ELSE NoTask]
      /\ images = 0 /\ halt = "no"
      /\ view = [t \in Task |-> [a \in Addr |-> IF t # 1 THEN Zero ELSE IF a = ArgPage THEN By(1) ELSE Fresh(e, a)]]
      /\ lost = [p \in Frame |-> 0]
  BY DEF Init, e
<1>3. 1 \in Task /\ {Pages, Pages - 1, Pages - 2} \subseteq Frame /\ {0, Pages, Pages - 1, Pages - 2} \subseteq 0 .. Pages
  BY Sizes DEF Task, Frame
<1>4. ArgPage \in Stack /\ ArgPage \in Addr /\ DirOf(ArgPage) = "top" /\ "top" \in Dir
  BY AddrAssumption DEF ArgPage, Addr, DirOf, Dir
<1>5. /\ arg \in EntryRec /\ arg.page = Pages - 2
      /\ Absent \in EntryRec /\ Absent.page = 0 /\ ~Absent.w
  BY <1>3 DEF EntryRec, Absent
<1>6. /\ one \in TaskRec /\ one.at = "user" /\ one.struct = Pages /\ one.page = 0
      /\ NoTask \in TaskRec /\ NoTask.at = "none" /\ NoTask.struct = 0 /\ NoTask.page = 0
  <2>1. one \in TaskRec
    BY <1>3 DEF TaskRec, NoTask
  <2>2. NoTask \in TaskRec
    BY <1>3 DEF TaskRec, NoTask
  <2>3. one.at = "user" /\ one.struct = Pages /\ one.page = 0
    BY DEF NoTask
  <2>4. NoTask.at = "none" /\ NoTask.struct = 0 /\ NoTask.page = 0
    BY DEF NoTask
  <2> QED
    BY <2>1, <2>2, <2>3, <2>4
<1> HIDE DEF arg, one
<1>7. TypeOK
  <2>1. mem_map \in [Frame -> 0 .. MAP_SIZE - 1] /\ lost \in [Frame -> Nat]
    <3>1. 0 \in 0 .. MAP_SIZE - 1 /\ 1 \in 0 .. MAP_SIZE - 1
      BY Sizes
    <3> QED
      BY <3>1, <1>2
  <2>2. dir \in DirSet
    BY <1>2, <1>3 DEF DirSet
  <2>3. pte \in PteSet
    BY <1>2, <1>5 DEF PteSet, EntryRec
  <2>4. task \in TaskSet
    BY <1>2, <1>6 DEF TaskSet, TaskRec
  <2>5. content \in [Frame -> Value] /\ view \in [Task -> [Addr -> Value]]
    <3>1. Zero \in Value /\ By(1) \in Value
      BY <1>3 DEF Value
    <3>2. \A a \in Addr : Fresh(e, a) \in Value
      BY <1>1, <3>1 DEF Fresh, Value
    <3> QED
      BY <3>1, <3>2, <1>2
  <2>6. executable \in [Task -> Exe \cup {None}] /\ images \in 0 .. MaxImages
    BY <1>1, <1>2, SizesAssumption
  <2> QED
    BY <2>1, <2>2, <2>3, <2>4, <2>5, <2>6, <1>2, TypeParts
<1>8. \A t \in Task : /\ \A d \in Dir : dir[t][d] = IF t = 1 /\ d = "top" THEN Pages - 1 ELSE 0
                      /\ \A a \in Addr : pte[t][a].page = IF t = 1 /\ a = ArgPage THEN Pages - 2 ELSE 0
                      /\ \A a \in Addr : pte[t][a].w => t = 1 /\ a = ArgPage
                      /\ task[t].struct = (IF t = 1 THEN Pages ELSE 0) /\ task[t].page = 0
                      /\ task[t].at = IF t = 1 THEN "user" ELSE "none"
  BY <1>2, <1>5, <1>6
<1>9. \A t \in Task : /\ \A d \in Dir : Held[t][<<"table", d>>] = dir[t][d]
                      /\ \A a \in Addr : Held[t][<<"entry", a>>] = pte[t][a].page
                      /\ Held[t][Struct] = task[t].struct /\ Held[t][Page] = task[t].page
  BY <1>7, HeldNow
<1>10. \A t \in Task : \A r \in Role : Held[t][r] # 0 =>
          /\ t = 1
          /\ \/ r = Struct /\ Held[t][r] = Pages
             \/ r = <<"table", "top">> /\ Held[t][r] = Pages - 1
             \/ r = <<"entry", ArgPage>> /\ Held[t][r] = Pages - 2
  BY <1>8, <1>9, RoleKinds
<1>11. Exclusive(Held)
  BY <1>10, Sizes DEF Exclusive
<1>12. Counted(Held, mem_map, lost)
  <2> SUFFICES ASSUME NEW p \in Frame
               PROVE  mem_map[p] = Cardinality(Holders(Held, p)) + lost[p]
    BY DEF Counted
  <2>0. p # 0 /\ p \in 0 .. Pages
    BY Sizes
  <2>1. lost[p] = 0 /\ mem_map[p] = IF p > Pages - 3 THEN 1 ELSE 0
    BY <1>2
  <2>2. \A t \in Task : Has(Held[t], p) => t = 1 /\ p \in {Pages, Pages - 1, Pages - 2}
    BY <2>0, <1>10 DEF Has
  <2>3. p \in {Pages, Pages - 1, Pages - 2} => Has(Held[1], p)
    BY <2>0, <1>3, <1>4, <1>8, <1>7, HeldNow
  <2>4. CASE p \in {Pages, Pages - 1, Pages - 2}
    <3>1. Holders(Held, p) = {1}
      BY <2>2, <2>3, <2>4, <1>3 DEF Holders
    <3>2. Cardinality(Holders(Held, p)) = 1
      BY <3>1, FS_Singleton
    <3> QED
      BY <3>2, <2>1, <2>4, Sizes
  <2>5. CASE p \notin {Pages, Pages - 1, Pages - 2}
    <3>1. Holders(Held, p) = {}
      BY <2>2, <2>5 DEF Holders
    <3>2. Cardinality(Holders(Held, p)) = 0
      BY <3>1, FS_EmptySet
    <3>3. ~(p > Pages - 3)
      BY <2>0, <2>5, Sizes
    <3> QED
      BY <3>2, <3>3, <2>1
  <2> QED
    BY <2>4, <2>5
<1>13. Shape
  <2>1. executable[1] \in Exe /\ Pages # 0 /\ Pages - 1 # 0
    BY <1>1, <1>2, <1>3, Sizes
  <2>2. ASSUME NEW t \in Task
        PROVE  /\ task[t].at = "none" <=> task[t].struct = 0
               /\ task[t].at \in {"read", "exec"} <=> task[t].page # 0
               /\ task[t].at \in {"none", "zombie"} =>
                    (\A d \in Dir : dir[t][d] = 0) /\ (\A a \in Addr : pte[t][a].page = 0)
               /\ task[t].at \in {"user", "read", "exec"} => dir[t]["top"] # 0 /\ executable[t] \in Exe
               /\ task[t].at = "read" => task[t].addr \in Text
               /\ \A a \in Addr : pte[t][a].page # 0 => dir[t][DirOf(a)] # 0
    <3>1. CASE t = 1
      <4>1. /\ task[t].at = "user" /\ task[t].struct # 0 /\ task[t].page = 0
            /\ dir[t]["top"] # 0 /\ executable[t] \in Exe
        BY <2>1, <3>1, <1>3, <1>4, <1>8
      <4>2. \A a \in Addr : pte[t][a].page # 0 => a = ArgPage
        BY <1>8
      <4> QED
        BY <4>1, <4>2, <1>4
    <3>2. CASE t # 1
      BY <3>2, <1>8
    <3> QED
      BY <3>1, <3>2
  <2> QED
    BY <2>2 DEF Shape
<1>14. WritableAlone
  BY <1>3, <1>8, Sizes DEF WritableAlone
<1>15. LostMapped
  BY <1>2, <1>3, <1>8 DEF LostMapped
<1> QED
  BY <1>2, <1>7, <1>11, <1>12, <1>13, <1>14, <1>15 DEF Good

\* The inductive invariant as long as LeaksFit holds: once the kernel has halted, nothing
\* more happens.
Sound == TypeOK /\ halt # "free free page" /\ (halt = "no" => Good)

\* Every step keeps it.
LEMMA SoundStep ==
    ASSUME Sound, LeaksFit, Next
    PROVE  Sound'
<1>1. TypeOK
  BY DEF Sound
<1>2. PICK t \in Task : \/ PutPage(t) \/ Fork(t) \/ ForkFails(t) \/ Exit(t) \/ Release(t) \/ ExecDone(t)
                        \/ \E a \in Addr : EmptyPage(t, a) \/ NoPage(t, a) \/ UnWpPage(t, a) \/ Write(t, a)
                        \/ \E e \in Exe : Exec(t, e)
  BY DEF Next
<1>3. halt = "no"
  BY <1>2 DEF PutPage, Fork, ForkFails, Exit, Release, ExecDone, EmptyPage, NoPage, UnWpPage, Write, Exec, Runs
<1>4. Good
  BY <1>3 DEF Sound
<1>5. CASE PutPage(t)
  BY <1>1, <1>3, <1>4, <1>5, PutPageGood DEF Sound
<1>6. CASE Fork(t)
  BY <1>1, <1>3, <1>4, <1>6, ForkGood DEF Sound
<1>7. CASE ForkFails(t)
  <2>1. halt' = halt
    BY <1>7 DEF ForkFails
  <2> QED
    BY <2>1, <1>1, <1>3, <1>4, <1>7, ForkFailsGood DEF Sound
<1>8. CASE Exit(t)
  BY <1>1, <1>3, <1>4, <1>8, ExitGood DEF Sound
<1>9. CASE Release(t)
  BY <1>1, <1>3, <1>4, <1>9, ReleaseGood DEF Sound
<1>10. CASE ExecDone(t)
  BY <1>1, <1>3, <1>4, <1>10, ExecDoneGood DEF Sound
<1>11. ASSUME NEW a \in Addr, EmptyPage(t, a)
       PROVE  Sound'
  <2>1. halt' = halt
    BY <1>11 DEF EmptyPage
  <2> QED
    BY <2>1, <1>1, <1>3, <1>4, <1>11, EmptyPageGood DEF Sound
<1>12. ASSUME NEW a \in Addr, NoPage(t, a)
       PROVE  Sound'
  BY <1>1, <1>3, <1>4, <1>12, NoPageGood DEF Sound
<1>13. ASSUME NEW a \in Addr, UnWpPage(t, a)
       PROVE  Sound'
  BY <1>1, <1>3, <1>4, <1>13, UnWpPageGood DEF Sound
<1>14. ASSUME NEW a \in Addr, Write(t, a)
       PROVE  Sound'
  <2>1. halt' = halt
    BY <1>14 DEF Write
  <2> QED
    BY <2>1, <1>1, <1>3, <1>4, <1>14, WriteGood DEF Sound
<1>15. ASSUME NEW e \in Exe, Exec(t, e)
       PROVE  Sound'
  <2>1. halt' = halt
    BY <1>15 DEF Exec
  <2> QED
    BY <2>1, <1>1, <1>3, <1>4, <1>15, ExecGood DEF Sound
<1> QED
  BY <1>2, <1>5, <1>6, <1>7, <1>8, <1>9, <1>10, <1>11, <1>12, <1>13, <1>14, <1>15

\* A step that changes nothing keeps it.
LEMMA SoundStutter ==
    ASSUME Sound, UNCHANGED vars
    PROVE  Sound'
<1>1. UNCHANGED <<mem_map, dir, pte, content, executable, task, images, halt, view, lost>>
  BY DEF vars, mem
<1>2. TypeOK /\ TypeOK'
  BY <1>1, TypeParts, TypePartsNext DEF Sound
<1>3. CASE halt = "no"
  <2>1. Good
    BY <1>3 DEF Sound
  <2>2. Good'
    BY <1>1, <1>2, <2>1, StillGood
  <2> QED
    BY <1>1, <1>2, <1>3, <2>2 DEF Sound
<1>4. CASE halt # "no"
  BY <1>1, <1>2, <1>4 DEF Sound
<1> QED
  BY <1>3, <1>4

\* It implies the property that the run checks.
LEMMA SoundCounts ==
    ASSUME Sound
    PROVE  MapCounts
<1>1. TypeOK /\ FreeNeverPanics
  BY DEF Sound, FreeNeverPanics
<1>2. ASSUME halt = "no", NEW p \in Frame
      PROVE  /\ mem_map[p] = (Users(p) + lost[p]) % MAP_SIZE
             /\ mem_map[p] = 0 => Users(p) = 0
  <2>1. Good
    BY <1>2 DEF Sound
  <2>2. Users(p) = Cardinality(Holders(Held, p)) /\ mem_map[p] = Cardinality(Holders(Held, p)) + lost[p]
    BY <1>1, <2>1, UsersAreHolders DEF Good, Counted
  <2>3. mem_map[p] \in 0 .. MAP_SIZE - 1 /\ lost[p] \in Nat /\ Cardinality(Holders(Held, p)) \in 0 .. NR_TASKS
    BY <1>1, MapType, HoldersCount
  <2>4. mem_map[p] % MAP_SIZE = mem_map[p]
    BY <2>3, Sizes
  <2>5. Users(p) + lost[p] = mem_map[p]
    BY <2>2
  <2>6. mem_map[p] = 0 => Users(p) = 0
    BY <2>2, <2>3, Sizes
  <2> QED
    BY <2>4, <2>5, <2>6
<1> QED
  BY <1>1, <1>2 DEF MapCounts, CountsRight, UsedNotFree, Free

\* For every number of tasks, frames and pages: as long as no frame has lost too many,
\* the count of each is the number of its users and of its losses, no frame in use is
\* free, and free_page never finds a count of zero (memory.c:15-55, swap.c:3-27).
LEMMA CountsWhileLeaksFit == Spec /\ []LeaksFit => []MapCounts
<1>1. Init => Sound
  BY InitGood DEF Sound
<1>2. Sound /\ LeaksFit /\ [Next]_vars => Sound'
  BY SoundStep, SoundStutter
<1>3. Sound => MapCounts
  BY SoundCounts
<1> QED
  BY <1>1, <1>2, <1>3, PTL DEF Spec

----------------------------------------------------------------------------
\* The contents of the pages.

\* What a task sees at an address, or will see once the page it waits for is there.
Sees(t, a) == IF task[t].at = "read" /\ task[t].addr = a THEN File(executable[t], a)
              ELSE IF pte[t][a].page = 0 THEN Fresh(executable[t], a) ELSE content[pte[t][a].page]

\* Each task sees what it has written and what its program has, across sharing, copying
\* and sleeping.
OwnOf(t) == /\ task[t].at \in {"user", "read"} => \A a \in Addr : view[t][a] = Sees(t, a)
            /\ task[t].at = "exec" => content[task[t].page] = By(t)
Own == \A t \in Task : OwnOf(t)

\* A task to which nothing happens, while the frames it has mapped keep their content.
LEMMA OwnKept ==
    ASSUME TypeOK, NEW u \in Task, OwnOf(u),
           task'[u] = task[u], executable'[u] = executable[u], view'[u] = view[u],
           \A a \in Addr : pte'[u][a].page = pte[u][a].page,
           \A x \in Frame : Has(Held[u], x) => content'[x] = content[x],
           Good
    PROVE  OwnOf(u)'
<1>1. ASSUME NEW a \in Addr, pte[u][a].page # 0
      PROVE  content'[pte[u][a].page] = content[pte[u][a].page]
  <2>1. pte[u][a].page \in 0 .. Pages
    BY HeldType DEF PteSet
  <2>2. pte[u][a].page \in Frame /\ Has(Held[u], pte[u][a].page)
    BY <2>1, <1>1, Sizes, HeldNow
  <2> QED
    BY <2>2
<1>2. task[u].at = "exec" => content'[task[u].page] = content[task[u].page]
  <2> SUFFICES ASSUME task[u].at = "exec" PROVE content'[task[u].page] = content[task[u].page]
    OBVIOUS
  <2>1. task[u].page \in 0 .. Pages /\ task[u].page # 0
    BY HeldType DEF TaskSet, Good, Shape
  <2>2. task[u].page \in Frame /\ Has(Held[u], task[u].page)
    BY <2>1, Sizes, HeldNow
  <2> QED
    BY <2>2
<1> QED
  BY <1>1, <1>2 DEF OwnOf, Sees

\* A new page is empty, and other tasks keep theirs (memory.c:187-193).
LEMMA EmptyPageOwn ==
    ASSUME TypeOK, halt = "no", Good, Own, NEW t \in Task, NEW a \in Addr, EmptyPage(t, a)
    PROVE  Own'
<1> DEFINE p == Get(mem_map)
<1>1. /\ content' = [content EXCEPT ![p] = Zero]
      /\ pte' = [pte EXCEPT ![t][a] = [page |-> p, w |-> TRUE, d |-> FALSE]]
      /\ UNCHANGED <<executable, task, view>>
      /\ task[t].at = "user" /\ a \in Stack /\ pte[t][a].page = 0 /\ Free(mem_map) # {}
  BY DEF EmptyPage, Runs
<1>2. /\ p \in Frame /\ p # 0 /\ \A u \in Task : ~Has(Held[u], p)
      /\ \A b \in Addr : pte[t][b].page # p
  BY <1>1, MapType, NewFrame DEF Good
<1>3. content \in [Frame -> Value] /\ pte \in PteSet
  BY TypeParts
<1> HIDE DEF p
<1>4. \A u \in Task : \A b \in Addr : pte'[u][b].page = IF u = t /\ b = a THEN p ELSE pte[u][b].page
  BY <1>1, <1>3 DEF PteSet
<1>5. \A x \in Frame : content'[x] = IF x = p THEN Zero ELSE content[x]
  BY <1>1, <1>3
<1>6. ASSUME NEW u \in Task \ {t}
      PROVE  OwnOf(u)'
  BY <1>1, <1>2, <1>4, <1>5, OwnKept DEF Own
<1>7. OwnOf(t)'
  <2>1. ASSUME NEW b \in Addr
        PROVE  view[t][b] = IF pte'[t][b].page = 0 THEN Fresh(executable[t], b) ELSE content'[pte'[t][b].page]
    <3>1. view[t][b] = IF pte[t][b].page = 0 THEN Fresh(executable[t], b) ELSE content[pte[t][b].page]
      BY <1>1 DEF Own, OwnOf, Sees
    <3>2. CASE b = a
      <4>1. Fresh(executable[t], a) = Zero
        BY <1>1, AddrAssumption DEF Fresh
      <4> QED
        BY <3>1, <3>2, <4>1, <1>1, <1>2, <1>4, <1>5
    <3>3. CASE b # a
      <4>1. pte[t][b].page # 0 => pte[t][b].page \in Frame
        BY <1>3, Sizes DEF PteSet
      <4> QED
        BY <3>1, <3>3, <4>1, <1>2, <1>4, <1>5
    <3> QED
      BY <3>2, <3>3
  <2> QED
    BY <2>1, <1>1 DEF OwnOf, Sees
<1> QED
  BY <1>6, <1>7 DEF Own

\* A user write goes to a page the task has alone (segment.c:3-14).
LEMMA WriteOwn ==
    ASSUME TypeOK, halt = "no", Good, Own, NEW t \in Task, NEW a \in Addr, Write(t, a), ~KernelWrites
    PROVE  Own'
<1> DEFINE p == pte[t][a].page
<1>1. /\ content' = [content EXCEPT ![p] = By(t)]
      /\ view' = [view EXCEPT ![t][a] = By(t)]
      /\ pte' = [pte EXCEPT ![t][a].d = TRUE]
      /\ UNCHANGED <<executable, task>>
      /\ task[t].at = "user" /\ p # 0 /\ pte[t][a].w
  BY DEF Write, Runs
<1>2. \A u \in Task : \A b \in Addr : pte[u][b].page = p => u = t /\ b = a
  BY <1>1 DEF Good, WritableAlone
<1>3. content \in [Frame -> Value] /\ pte \in PteSet /\ view \in [Task -> [Addr -> Value]]
  BY TypeParts
<1>4. p \in 0 .. Pages /\ p \in Frame
  BY <1>1, <1>3, Sizes DEF PteSet
<1>5. \A u \in Task \ {t} : ~Has(Held[u], p)
  <2>1. ASSUME NEW u \in Task \ {t}
        PROVE  ~Has(Held[u], p)
    <3>1. p \notin {task[u].struct, task[u].page} /\ \A d \in Dir : dir[u][d] # p
      BY <1>1, ExclusiveNow DEF Good
    <3> QED
      BY <3>1, <1>2, <1>4, HeldNow
  <2> QED
    BY <2>1
<1> HIDE DEF p
<1>6. \A u \in Task : \A b \in Addr : pte'[u][b].page = pte[u][b].page
  <2> DEFINE k == [pte[t][a] EXCEPT !.d = TRUE]
  <2>1. k.page = pte[t][a].page
    BY EntryType DEF EntryRec
  <2>2. pte' = [pte EXCEPT ![t][a] = k]
    BY <1>1, <1>3 DEF PteSet
  <2> HIDE DEF k
  <2> QED
    BY <2>1, <2>2, <1>3 DEF PteSet
<1>7. \A x \in Frame : content'[x] = IF x = p THEN By(t) ELSE content[x]
  BY <1>1, <1>3
<1>8. ASSUME NEW u \in Task \ {t}
      PROVE  OwnOf(u)'
  <2>1. view'[u] = view[u] /\ task'[u] = task[u] /\ executable'[u] = executable[u]
    BY <1>1, <1>3
  <2>2. \A x \in Frame : Has(Held[u], x) => content'[x] = content[x]
    BY <1>5, <1>7
  <2> QED
    BY <2>1, <2>2, <1>6, OwnKept DEF Own
<1>9. OwnOf(t)'
  <2>1. ASSUME NEW b \in Addr
        PROVE  view'[t][b] = IF pte'[t][b].page = 0 THEN Fresh(executable[t], b) ELSE content'[pte'[t][b].page]
    <3>1. view[t][b] = IF pte[t][b].page = 0 THEN Fresh(executable[t], b) ELSE content[pte[t][b].page]
      BY <1>1 DEF Own, OwnOf, Sees
    <3>2. CASE b = a
      <4>1. view'[t][b] = By(t) /\ pte'[t][b].page = p
        BY <3>2, <1>1, <1>3, <1>6 DEF p
      <4> QED
        BY <4>1, <1>1, <1>4, <1>7
    <3>3. CASE b # a
      <4>1. pte[t][b].page # 0 => pte[t][b].page \in Frame
        BY <1>3, Sizes DEF PteSet
      <4>2. view'[t][b] = view[t][b] /\ pte[t][b].page # p
        BY <3>3, <1>1, <1>2, <1>3
      <4> QED
        BY <3>1, <4>1, <4>2, <1>6, <1>7
    <3> QED
      BY <3>2, <3>3
  <2> QED
    BY <2>1, <1>1 DEF OwnOf, Sees
<1> QED
  BY <1>8, <1>9 DEF Own

\* The copy has what the shared page had (memory.c:108-145).
LEMMA UnWpPageOwn ==
    ASSUME TypeOK, halt = "no", Good, Own, NEW t \in Task, NEW a \in Addr, UnWpPage(t, a), halt' = "no"
    PROVE  Own'
<1> DEFINE old == pte[t][a].page
           p   == Get(mem_map)
<1>1. /\ UNCHANGED <<executable, task, view>> /\ task[t].at = "user" /\ old # 0
  BY DEF UnWpPage, Runs
<1>2. content \in [Frame -> Value] /\ pte \in PteSet
  BY TypeParts
<1>3. CASE pte' = [pte EXCEPT ![t][a].w = TRUE] /\ content' = content
  <2> DEFINE k == [pte[t][a] EXCEPT !.w = TRUE]
  <2>1. k.page = pte[t][a].page
    BY EntryType DEF EntryRec
  <2>2. pte' = [pte EXCEPT ![t][a] = k]
    BY <1>3, <1>2 DEF PteSet
  <2> HIDE DEF k
  <2>3. \A u \in Task : \A b \in Addr : pte'[u][b].page = pte[u][b].page
    BY <2>1, <2>2, <1>2 DEF PteSet
  <2> QED
    BY <2>3, <1>1, <1>3, OwnKept DEF Own
<1>4. CASE /\ Free(mem_map) # {}
           /\ content' = [content EXCEPT ![p] = content[old]]
           /\ pte' = [pte EXCEPT ![t][a] = [page |-> p, w |-> TRUE, d |-> FALSE]]
  <2>1. /\ p \in Frame /\ p # 0 /\ \A u \in Task : ~Has(Held[u], p)
        /\ \A b \in Addr : pte[t][b].page # p
    BY <1>4, MapType, NewFrame DEF Good
  <2> HIDE DEF p
  <2>2. \A u \in Task : \A b \in Addr : pte'[u][b].page = IF u = t /\ b = a THEN p ELSE pte[u][b].page
    BY <1>2, <1>4 DEF PteSet
  <2>3. \A x \in Frame : content'[x] = IF x = p THEN content[old] ELSE content[x]
    BY <1>2, <1>4
  <2>4. ASSUME NEW u \in Task \ {t}
        PROVE  OwnOf(u)'
    BY <2>1, <2>2, <2>3, <1>1, OwnKept DEF Own
  <2>5. OwnOf(t)'
    <3>1. ASSUME NEW b \in Addr
          PROVE  view[t][b] = IF pte'[t][b].page = 0 THEN Fresh(executable[t], b) ELSE content'[pte'[t][b].page]
      <4>1. view[t][b] = IF pte[t][b].page = 0 THEN Fresh(executable[t], b) ELSE content[pte[t][b].page]
        BY <1>1 DEF Own, OwnOf, Sees
      <4>2. CASE b = a
        BY <4>1, <4>2, <1>1, <2>1, <2>2, <2>3
      <4>3. CASE b # a
        <5>1. pte[t][b].page # 0 => pte[t][b].page \in Frame
          BY <1>2, Sizes DEF PteSet
        <5> QED
          BY <4>1, <4>3, <5>1, <2>1, <2>2, <2>3
      <4> QED
        BY <4>2, <4>3
    <3> QED
      BY <3>1, <1>1 DEF OwnOf, Sees
  <2> QED
    BY <2>4, <2>5 DEF Own
<1> QED
  BY <1>3, <1>4 DEF UnWpPage

\* The frames of other tasks stay in use when the tables of t go.
LEMMA OthersKeep ==
    ASSUME TypeOK, Good, NEW t \in Task, NEW u \in Task \ {t}, NEW x \in Frame, Has(Held[u], x)
    PROVE  mem_map[x] - Uses(t, x) # 0
<1>1. /\ Uses(t, x) \in {0, 1}
      /\ Uses(t, x) = 1 => (\E d \in Dir : dir[t][d] = x) \/ (\E a \in Addr : pte[t][a].page = x)
  BY TablesCounted
<1>2. mem_map[x] \in Nat /\ lost[x] \in Nat /\ mem_map[x] > lost[x]
  BY MapType, HeldCounts DEF Good
<1>3. CASE Uses(t, x) = 0
  BY <1>2, <1>3
<1>4. CASE Uses(t, x) = 1
  <2>1. Has(Held[t], x)
    BY <1>1, <1>4, HeldNow, Sizes
  <2>2. mem_map[x] # 1
    BY <2>1, SoleUser DEF Good
  <2> QED
    BY <1>2, <1>4, <2>2
<1> QED
  BY <1>1, <1>3, <1>4

\* The frames that do_exit frees are those that nobody else has (exit.c:137-154).
LEMMA ExitOwn ==
    ASSUME TypeOK, halt = "no", Good, Own, NEW t \in Task, Exit(t)
    PROVE  Own'
<1> DEFINE m == [p \in Frame |-> mem_map[p] - Uses(t, p)]
<1>1. \A p \in Frame : mem_map[p] >= Uses(t, p)
  BY TablesCounted
<1>2. /\ mem_map' = m /\ content' = Kept(mem_map')
      /\ dir' = [dir EXCEPT ![t] = [d \in Dir |-> 0]]
      /\ pte' = [pte EXCEPT ![t] = [a \in Addr |-> Absent]]
      /\ executable' = [executable EXCEPT ![t] = None]
      /\ task' = [task EXCEPT ![t].at = "zombie"]
      /\ view' = [view EXCEPT ![t] = [a \in Addr |-> Zero]]
  <2>1. ~\E p \in Frame : mem_map[p] < Uses(t, p)
    <3>1. \A p \in Frame : mem_map[p] \in Nat /\ Uses(t, p) \in {0, 1}
      BY MapType, TablesCounted
    <3> QED
      BY <1>1, <3>1
  <2> QED
    BY <2>1 DEF Exit, FreeTables
<1>3. task \in TaskSet /\ pte \in PteSet /\ view \in [Task -> [Addr -> Value]]
      /\ executable \in [Task -> Exe \cup {None}]
  BY TypeParts
<1>4. ASSUME NEW u \in Task \ {t}
      PROVE  OwnOf(u)'
  <2>1. task'[u] = task[u] /\ executable'[u] = executable[u] /\ view'[u] = view[u]
    BY <1>2, <1>3 DEF TaskSet
  <2>2. \A a \in Addr : pte'[u][a].page = pte[u][a].page
    BY <1>2, <1>3 DEF PteSet
  <2>3. \A x \in Frame : Has(Held[u], x) => content'[x] = content[x]
    <3> SUFFICES ASSUME NEW x \in Frame, Has(Held[u], x) PROVE content'[x] = content[x]
      OBVIOUS
    <3>1. mem_map'[x] # 0
      BY <1>2, OthersKeep
    <3> QED
      BY <3>1, <1>2 DEF Kept
  <2> QED
    BY <2>1, <2>2, <2>3, OwnKept DEF Own
<1>5. OwnOf(t)'
  <2>1. task'[t].at = "zombie"
    BY <1>2, <1>3 DEF TaskSet
  <2> QED
    BY <2>1 DEF OwnOf
<1> QED
  BY <1>4, <1>5 DEF Own

\* A zombie's structure is nobody's page (exit.c:19-30).
LEMMA ReleaseOwn ==
    ASSUME TypeOK, halt = "no", Good, Own, NEW t \in Task, Release(t)
    PROVE  Own'
<1>1. task' = [task EXCEPT ![t] = NoTask] /\ UNCHANGED <<dir, pte, content, executable, view>>
  BY DEF Release
<1>2. task \in TaskSet
  BY TypeParts
<1>3. ASSUME NEW u \in Task \ {t}
      PROVE  OwnOf(u)'
  <2>1. task'[u] = task[u]
    BY <1>1, <1>2 DEF TaskSet
  <2> QED
    BY <2>1, <1>1, OwnKept DEF Own
<1>4. OwnOf(t)'
  <2>1. task'[t].at = "none"
    BY <1>1, <1>2 DEF TaskSet, NoTask
  <2> QED
    BY <2>1 DEF OwnOf
<1> QED
  BY <1>3, <1>4 DEF Own

\* The frames that do_execve frees are those that nobody else has (exec.c:192-208).
LEMMA ExecOwn ==
    ASSUME TypeOK, halt = "no", Good, Own, NEW t \in Task, NEW e \in Exe, Exec(t, e)
    PROVE  Own'
<1> DEFINE p == Get(mem_map)
           k == [task[t] EXCEPT !.at = "exec", !.page = p]
<1>1. /\ content' = [content EXCEPT ![p] = By(t)]
      /\ task' = [task EXCEPT ![t] = k]
      /\ executable' = [executable EXCEPT ![t] = e]
      /\ UNCHANGED <<dir, pte, view>> /\ Free(mem_map) # {}
  BY DEF Exec
<1>2. p \in Frame /\ \A u \in Task : ~Has(Held[u], p)
  BY <1>1, MapType, NewFrame DEF Good
<1>3. content \in [Frame -> Value] /\ task \in TaskSet /\ executable \in [Task -> Exe \cup {None}]
  BY TypeParts
<1>4. k.at = "exec" /\ k.page = p
  <2>1. task[t] \in TaskRec /\ p \in 0 .. Pages
    BY <1>2, TaskType, Sizes
  <2> HIDE DEF p
  <2> QED
    BY <2>1, TaskUpdate
<1> HIDE DEF p, k
<1>5. \A x \in Frame : content'[x] = IF x = p THEN By(t) ELSE content[x]
  BY <1>1, <1>3
<1>6. ASSUME NEW u \in Task \ {t}
      PROVE  OwnOf(u)'
  <2>1. task'[u] = task[u] /\ executable'[u] = executable[u]
    BY <1>1, <1>3 DEF TaskSet
  <2> QED
    BY <2>1, <1>1, <1>2, <1>5, OwnKept DEF Own
<1>7. OwnOf(t)'
  <2>1. task'[t].at = "exec" /\ task'[t].page = p
    BY <1>1, <1>3, <1>4 DEF TaskSet
  <2> QED
    BY <2>1, <1>2, <1>5 DEF OwnOf
<1> QED
  BY <1>6, <1>7 DEF Own

\* The new program starts with its arguments only (exec.c:109-214).
LEMMA ExecDoneOwn ==
    ASSUME TypeOK, halt = "no", Good, Own, NEW t \in Task, ExecDone(t)
    PROVE  Own'
<1> DEFINE m == [p \in Frame |-> mem_map[p] - Uses(t, p)]
           g == task[t].page
           entry == [page |-> g, w |-> TRUE, d |-> TRUE]
           k == [task[t] EXCEPT !.at = "user", !.page = 0]
<1>1. ~\E p \in Frame : m[p] < 0
  <2>1. \A p \in Frame : mem_map[p] \in Nat /\ Uses(t, p) \in {0, 1} /\ mem_map[p] >= Uses(t, p)
    BY MapType, TablesCounted
  <2> QED
    BY <2>1
<1>2. /\ pte' = [pte EXCEPT ![t] = [a \in Addr |-> IF a = ArgPage THEN entry ELSE Absent]]
      /\ content' = Kept(m)
      /\ task' = [task EXCEPT ![t] = k]
      /\ view' = [view EXCEPT ![t] = [a \in Addr |-> IF a = ArgPage THEN By(t) ELSE Fresh(executable[t], a)]]
      /\ executable' = executable /\ task[t].at = "exec"
  BY <1>1 DEF ExecDone
<1>3. /\ task \in TaskSet /\ pte \in PteSet /\ view \in [Task -> [Addr -> Value]]
      /\ content \in [Frame -> Value]
  BY TypeParts
<1>4. g \in Frame /\ g # 0 /\ content[g] = By(t) /\ Has(Held[t], g)
  <2>1. g # 0 /\ content[g] = By(t)
    BY <1>2 DEF Good, Shape, Own, OwnOf
  <2>2. g \in 0 .. Pages
    BY <1>3 DEF TaskSet
  <2> QED
    BY <2>1, <2>2, HeldNow, Sizes
<1>5. m[g] # 0
  <2>1. /\ Uses(t, g) \in {0, 1}
        /\ Uses(t, g) = 1 => (\E d \in Dir : dir[t][d] = g) \/ (\E a \in Addr : pte[t][a].page = g)
    BY <1>4, TablesCounted
  <2>2. Uses(t, g) = 0
    BY <1>4, <2>1, ExclusiveNow DEF Good
  <2>3. mem_map[g] \in Nat /\ lost[g] \in Nat /\ mem_map[g] > lost[g]
    BY <1>4, MapType, HeldCounts DEF Good
  <2> QED
    BY <2>2, <2>3, <1>4
<1>6. k.at = "user" /\ k.page = 0
  <2>1. task[t] \in TaskRec /\ 0 \in 0 .. Pages
    BY TaskType, Sizes
  <2> QED
    BY <2>1, TaskUpdate
<1>7. entry.page = g /\ Absent.page = 0
  BY DEF Absent
<1> HIDE DEF g, entry, k
<1>8. ASSUME NEW u \in Task \ {t}
      PROVE  OwnOf(u)'
  <2>1. task'[u] = task[u] /\ view'[u] = view[u]
    BY <1>2, <1>3 DEF TaskSet
  <2>2. \A a \in Addr : pte'[u][a].page = pte[u][a].page
    BY <1>2, <1>3 DEF PteSet
  <2>3. \A x \in Frame : Has(Held[u], x) => content'[x] = content[x]
    BY <1>2, OthersKeep DEF Kept
  <2> QED
    BY <2>1, <2>2, <2>3, <1>2, OwnKept DEF Own
<1>9. OwnOf(t)'
  <2>1. task'[t].at = "user"
    BY <1>2, <1>3, <1>6 DEF TaskSet
  <2>2. content'[g] = By(t)
    BY <1>2, <1>4, <1>5 DEF Kept
  <2>3. ASSUME NEW a \in Addr
        PROVE  view'[t][a] = IF pte'[t][a].page = 0 THEN Fresh(executable[t], a) ELSE content'[pte'[t][a].page]
    <3>1. /\ pte'[t][a] = IF a = ArgPage THEN entry ELSE Absent
          /\ view'[t][a] = IF a = ArgPage THEN By(t) ELSE Fresh(executable[t], a)
      BY <1>2, <1>3 DEF PteSet
    <3> QED
      BY <3>1, <2>2, <1>4, <1>7
  <2> QED
    BY <2>1, <2>3, <1>2 DEF OwnOf, Sees
<1> QED
  BY <1>8, <1>9 DEF Own

\* A page is shared with a task of the same program only while it is clean, so it has
\* what the file has (memory.c:195-299).
LEMMA NoPageOwn ==
    ASSUME TypeOK, halt = "no", Good, LeaksFit, Own, NEW t \in Task, NEW a \in Addr, NoPage(t, a), halt' = "no"
    PROVE  Own'
<1> DEFINE shares == Sharers(t, a) # {}
           from   == Max(Sharers(t, a))
           e      == [pte[from][a] EXCEPT !.w = FALSE]
           page   == Get(IF shares THEN [(IF shares /\ dir[t][DirOf(a)] = 0 THEN Got(mem_map) ELSE mem_map)
                                             EXCEPT ![pte[from][a].page] = Plus(@, 1)]
                         ELSE IF shares /\ dir[t][DirOf(a)] = 0 THEN Got(mem_map) ELSE mem_map)
           k      == [task[t] EXCEPT !.at = "read", !.addr = a, !.page = page]
<1>1. /\ pte' = (IF shares THEN [pte EXCEPT ![from][a].w = FALSE, ![t][a] = e] ELSE pte)
      /\ task' = [task EXCEPT ![t].at = "read", ![t].addr = a, ![t].page = page]
      /\ UNCHANGED <<content, executable, view>>
      /\ task[t].at = "user" /\ a \in Text /\ pte[t][a].page = 0
  BY DEF NoPage, Halts, Runs
<1> HIDE DEF page
<1>2. task \in TaskSet /\ pte \in [Task -> [Addr -> EntryRec]]
  BY TypeParts DEF PteSet, EntryRec
<1>3. task' = [task EXCEPT ![t] = k] /\ k.at = "read" /\ k.addr = a
  <2>1. task[t] \in TaskRec
    BY TaskType
  <2>2. k.at = "read" /\ k.addr = a
    BY <2>1 DEF TaskRec
  <2> QED
    BY <2>2, <1>1, <1>2, ThreeFields DEF TaskSet
<1>4. shares => from \in Task \ {t}
  BY <1>1, Shared
<1> HIDE DEF k, from
<1>5. \A u \in Task : \A b \in Addr : u # t \/ b # a => pte'[u][b].page = pte[u][b].page
  <2>1. CASE shares
    <3>1. e \in EntryRec /\ e.page = pte[from][a].page
      <4>1. pte[from][a] \in EntryRec
        BY <2>1, <1>2, <1>4
      <4> QED
        BY <4>1, EntryUpdates
    <3> DEFINE f == [pte EXCEPT ![from][a] = e]
    <3>2. pte' = [f EXCEPT ![t][a] = e]
      BY <2>1, <1>1, <1>2, <1>4
    <3> HIDE DEF e
    <3>3. f \in [Task -> [Addr -> EntryRec]] /\ \A u \in Task : \A b \in Addr :
             f[u][b] = IF u = from /\ b = a THEN e ELSE pte[u][b]
      BY <2>1, <3>1, <1>2, <1>4
    <3> HIDE DEF f
    <3>4. \A u \in Task : \A b \in Addr : u # t \/ b # a => pte'[u][b] = f[u][b]
      BY <3>2, <3>3
    <3> QED
      BY <3>1, <3>3, <3>4
  <2>2. CASE ~shares
    BY <2>2, <1>1
  <2> QED
    BY <2>1, <2>2
<1>6. ASSUME NEW u \in Task \ {t}
      PROVE  OwnOf(u)'
  <2>1. task'[u] = task[u]
    BY <1>2, <1>3 DEF TaskSet
  <2> QED
    BY <2>1, <1>1, <1>5, OwnKept DEF Own
<1>7. OwnOf(t)'
  <2>1. task'[t].at = "read" /\ task'[t].addr = a
    BY <1>2, <1>3 DEF TaskSet
  <2>2. ASSUME NEW b \in Addr
        PROVE  view[t][b] = IF b = a THEN File(executable[t], a)
                            ELSE IF pte'[t][b].page = 0 THEN Fresh(executable[t], b) ELSE content[pte'[t][b].page]
    <3>1. view[t][b] = IF pte[t][b].page = 0 THEN Fresh(executable[t], b) ELSE content[pte[t][b].page]
      BY <1>1 DEF Own, OwnOf, Sees
    <3>2. Fresh(executable[t], a) = File(executable[t], a)
      BY <1>1 DEF Fresh
    <3> QED
      BY <3>1, <3>2, <1>1, <1>5
  <2> QED
    BY <2>1, <2>2, <1>1 DEF OwnOf, Sees
<1> QED
  BY <1>6, <1>7 DEF Own

\* What do_no_page has read is put where nobody else looks (memory.c:147-165).
LEMMA PutPageOwn ==
    ASSUME TypeOK, halt = "no", Good, Own, NEW t \in Task, PutPage(t)
    PROVE  Own'
<1> DEFINE a     == task[t].addr
           p     == task[t].page
           table == dir[t][DirOf(a)] = 0
           new   == [page |-> p, w |-> TRUE, d |-> FALSE]
<1>1. /\ task[t].at = "read" /\ p # 0 /\ a \in Text /\ a \in Addr
      /\ task' = [task EXCEPT ![t].at = "user", ![t].addr = None, ![t].page = 0]
      /\ UNCHANGED <<executable, view>>
  BY DEF Good, PutPage, Shape, Addr
<1>2. /\ task' \in TaskSet
      /\ \A u \in Task \ {t} : task'[u] = task[u]
      /\ task'[t].at = "user"
  <2>1. "user" \in {"none", "user", "read", "exec", "zombie"} /\ None \in Addr \cup {None} /\ 0 \in 0 .. Pages
    BY Sizes
  <2> QED
    BY <2>1, <1>1, TaskMoved
<1>3. content \in [Frame -> Value] /\ pte \in PteSet
  BY TypeParts
<1>4. /\ p \in Frame
      /\ \A b \in Addr : pte[t][b].page # p
      /\ \A u \in Task \ {t} : ~Has(Held[u], p)
  <2>1. p \in 0 .. Pages
    BY HeldType DEF TaskSet
  <2>2. p \in Frame
    BY <2>1, <1>1, Sizes
  <2>3. ASSUME NEW u \in Task
        PROVE  /\ \A x \in Dir : dir[u][x] # p
               /\ \A b \in Addr : pte[u][b].page # p
               /\ task[u].struct # p
               /\ u # t => task[u].page # p
    <3>1. \A x \in Dir : dir[u][x] # p
      BY <1>1, ExclusiveNow DEF Good
    <3>2. \A b \in Addr : pte[u][b].page # p
      BY <1>1, ExclusiveNow DEF Good
    <3>3. task[u].struct # p
      BY <1>1, ExclusiveNow DEF Good
    <3>4. u # t => task[u].page # p
      BY <1>1, ExclusiveNow DEF Good
    <3> QED
      BY <3>1, <3>2, <3>3, <3>4
  <2> QED
    BY <2>1, <2>2, <2>3, HeldNow
<1>5. \A b \in Addr : view[t][b] = IF b = a THEN File(executable[t], a)
                                   ELSE IF pte[t][b].page = 0 THEN Fresh(executable[t], b)
                                   ELSE content[pte[t][b].page]
  <2>1. \A b \in Addr : view[t][b] = Sees(t, b)
    BY <1>1 DEF Own, OwnOf
  <2> QED
    BY <2>1, <1>1 DEF Sees
<1>6. CASE table /\ Free(mem_map) = {}
  <2>1. UNCHANGED <<pte, content>>
    BY <1>6 DEF PutPage
  <2>2. pte[t][a].page = 0
    BY <1>1, <1>6 DEF Good, Shape
  <2>3. Fresh(executable[t], a) = File(executable[t], a)
    BY <1>1 DEF Fresh
  <2>4. ASSUME NEW u \in Task \ {t}
        PROVE  OwnOf(u)'
    BY <2>1, <1>1, <1>2, OwnKept DEF Own
  <2>5. OwnOf(t)'
    <3> HIDE DEF a
    <3> QED
      BY <2>1, <2>2, <2>3, <1>1, <1>2, <1>5 DEF OwnOf, Sees
  <2> QED
    BY <2>4, <2>5 DEF Own
<1>7. CASE ~(table /\ Free(mem_map) = {})
  <2>1. /\ pte' = [pte EXCEPT ![t][a] = new]
        /\ content' = [content EXCEPT ![p] = File(executable[t], a)]
    BY <1>7 DEF PutPage
  <2> HIDE DEF p, a
  <2>2. \A u \in Task : \A b \in Addr : pte'[u][b].page = IF u = t /\ b = a THEN p ELSE pte[u][b].page
    BY <2>1, <1>1, <1>3 DEF PteSet
  <2>3. \A x \in Frame : content'[x] = IF x = p THEN File(executable[t], a) ELSE content[x]
    BY <2>1, <1>3
  <2>4. ASSUME NEW u \in Task \ {t}
        PROVE  OwnOf(u)'
    <3>1. \A b \in Addr : pte'[u][b].page = pte[u][b].page
      BY <2>2
    <3>2. \A x \in Frame : Has(Held[u], x) => content'[x] = content[x]
      BY <2>3, <1>4
    <3> QED
      BY <3>1, <3>2, <1>1, <1>2, OwnKept DEF Own
  <2>5. OwnOf(t)'
    <3>1. ASSUME NEW b \in Addr
          PROVE  view[t][b] = IF pte'[t][b].page = 0 THEN Fresh(executable[t], b) ELSE content'[pte'[t][b].page]
      <4>1. CASE b = a
        BY <4>1, <2>2, <2>3, <1>1, <1>4, <1>5
      <4>2. CASE b # a
        <5>1. pte[t][b].page # 0 => pte[t][b].page \in Frame
          BY <1>3, Sizes DEF PteSet
        <5> QED
          BY <5>1, <4>2, <2>2, <2>3, <1>4, <1>5
      <4> QED
        BY <4>1, <4>2
    <3> QED
      BY <3>1, <1>1, <1>2 DEF OwnOf, Sees
  <2> QED
    BY <2>4, <2>5 DEF Own
<1> QED
  BY <1>6, <1>7

\* A fork without room changes nobody's pages (fork.c:26-102).
LEMMA ForkFailsOwn ==
    ASSUME TypeOK, Good, Own, NEW t \in Task, ForkFails(t)
    PROVE  Own'
<1>1. PICK ds : pte' = Protect(t, ds, pte)
  BY DEF ForkFails
<1>2. UNCHANGED <<content, executable, task, view>>
  BY DEF ForkFails
<1>3. \A u \in Task : \A a \in Addr : pte'[u][a].page = pte[u][a].page
  BY <1>1, Protected
<1> QED
  BY <1>2, <1>3, OwnKept DEF Own

\* The child sees what its parent has at the fork (memory.c:57-106).
LEMMA ForkOwn ==
    ASSUME TypeOK, halt = "no", Good, Own, NEW t \in Task, Fork(t)
    PROVE  Own'
<1> DEFINE ps  == Protect(t, Tables(t), pte)
           row == [a \in Addr |-> [pte[t][a] EXCEPT !.w = FALSE]]
           k   == [NoTask EXCEPT !.at = "user", !.struct = Get(mem_map)]
<1>2. PICK c \in Task : c = Min(Unused) /\ c # t
  <2>1. Unused \in SUBSET Nat /\ Unused # {}
    BY Sizes DEF Fork, Unused, Task
  <2>2. Min(Unused) \in Unused
    BY <2>1, MinOf
  <2>3. task[t].at = "user"
    BY DEF Fork, Runs
  <2> QED
    BY <2>2, <2>3 DEF Unused
<1>1. /\ pte' = [ps EXCEPT ![c] = row]
      /\ executable' = [executable EXCEPT ![c] = executable[t]]
      /\ task' = [task EXCEPT ![c] = k]
      /\ view' = [view EXCEPT ![c] = view[t]]
      /\ content' = content /\ task[t].at = "user"
  BY <1>2 DEF Fork, Runs
<1>3. /\ task \in TaskSet /\ view \in [Task -> [Addr -> Value]]
      /\ executable \in [Task -> Exe \cup {None}]
  BY TypeParts
<1>4. ps \in PteSet /\ \A u \in Task : \A a \in Addr : ps[u][a].page = pte[u][a].page
  BY Protected
<1>5. k.at = "user"
  BY DEF NoTask
<1>6. \A a \in Addr : row[a].page = pte[t][a].page
  BY EntryType, EntryUpdates
<1> HIDE DEF ps, row, k
<1>7. \A u \in Task \ {c} : \A a \in Addr : pte'[u][a].page = pte[u][a].page
  BY <1>1, <1>4 DEF PteSet
<1>8. \A a \in Addr : pte'[c][a].page = pte[t][a].page
  BY <1>1, <1>2, <1>4, <1>6 DEF PteSet
<1>9. ASSUME NEW u \in Task \ {c}
      PROVE  OwnOf(u)'
  <2>1. task'[u] = task[u] /\ view'[u] = view[u] /\ executable'[u] = executable[u]
    BY <1>1, <1>3 DEF TaskSet
  <2> QED
    BY <2>1, <1>1, <1>7, OwnKept DEF Own
<1>10. OwnOf(c)'
  <2>1. task'[c].at = "user"
    BY <1>1, <1>2, <1>3, <1>5 DEF TaskSet
  <2>a. view'[c] = view[t]
    BY <1>1, <1>2, <1>3
  <2>b. executable'[c] = executable[t]
    BY <1>1, <1>2, <1>3
  <2>2. \A a \in Addr : view[t][a] = IF pte[t][a].page = 0 THEN Fresh(executable[t], a) ELSE content[pte[t][a].page]
    BY <1>1 DEF Own, OwnOf, Sees
  <2> QED
    BY <2>1, <2>a, <2>b, <2>2, <1>1, <1>8 DEF OwnOf, Sees
<1> QED
  BY <1>2, <1>9, <1>10 DEF Own

\* The first task has its arguments, and nothing else.
LEMMA InitOwn ==
    ASSUME Init
    PROVE  Own
<1> DEFINE e   == CHOOSE x \in Exe : TRUE
           arg == [page |-> Pages - 2, w |-> TRUE, d |-> TRUE]
           one == [NoTask EXCEPT !.at = "user", !.struct = Pages]
<1> HIDE DEF e
<1>1. /\ pte = [t \in Task |-> [a \in Addr |-> IF t = 1 /\ a = ArgPage THEN arg ELSE Absent]]
      /\ content = [p \in Frame |-> IF p = Pages - 2 THEN By(1) ELSE Zero]
      /\ executable = [t \in Task |-> IF t = 1 THEN e ELSE None]
      /\ task = [t \in Task |-> IF t = 1 THEN one ELSE NoTask]
      /\ view = [t \in Task |-> [a \in Addr |-> IF t # 1 THEN Zero ELSE IF a = ArgPage THEN By(1) ELSE Fresh(e, a)]]
  BY DEF Init, e
<1>2. Pages - 2 \in Frame /\ Pages - 2 # 0
  BY Sizes DEF Frame
<1>3. arg.page = Pages - 2 /\ Absent.page = 0 /\ one.at = "user" /\ NoTask.at = "none"
  BY DEF Absent, NoTask
<1> HIDE DEF arg, one
<1>4. ASSUME NEW t \in Task
      PROVE  OwnOf(t)
  <2>1. CASE t = 1
    <3>1. task[t].at = "user"
      BY <2>1, <1>1, <1>3
    <3>2. ASSUME NEW a \in Addr
          PROVE  view[t][a] = IF pte[t][a].page = 0 THEN Fresh(executable[t], a) ELSE content[pte[t][a].page]
      BY <2>1, <1>1, <1>2, <1>3
    <3> QED
      BY <3>1, <3>2 DEF OwnOf, Sees
  <2>2. CASE t # 1
    <3>1. task[t].at = "none"
      BY <2>2, <1>1, <1>3
    <3> QED
      BY <3>1 DEF OwnOf
  <2> QED
    BY <2>1, <2>2
<1> QED
  BY <1>4 DEF Own

\* The inductive invariant of the contents as long as LeaksFit holds.
Apart == Sound /\ (halt = "no" => Own)

\* Every step keeps it, unless the kernel writes to shared pages.
LEMMA ApartStep ==
    ASSUME Apart, LeaksFit, ~KernelWrites, Next
    PROVE  Apart'
<1>1. TypeOK /\ Sound
  BY DEF Apart, Sound
<1>2. Sound'
  BY <1>1, SoundStep
<1>3. PICK t \in Task : \/ PutPage(t) \/ Fork(t) \/ ForkFails(t) \/ Exit(t) \/ Release(t) \/ ExecDone(t)
                        \/ \E a \in Addr : EmptyPage(t, a) \/ NoPage(t, a) \/ UnWpPage(t, a) \/ Write(t, a)
                        \/ \E e \in Exe : Exec(t, e)
  BY DEF Next
<1>4. halt = "no"
  BY <1>3 DEF PutPage, Fork, ForkFails, Exit, Release, ExecDone, EmptyPage, NoPage, UnWpPage, Write, Exec, Runs
<1>5. Good /\ Own
  BY <1>4 DEF Apart, Sound
<1> SUFFICES ASSUME halt' = "no" PROVE Own'
  BY <1>2 DEF Apart
<1>6. CASE PutPage(t)
  BY <1>1, <1>4, <1>5, <1>6, PutPageOwn
<1>7. CASE Fork(t)
  BY <1>1, <1>4, <1>5, <1>7, ForkOwn
<1>8. CASE ForkFails(t)
  BY <1>1, <1>5, <1>8, ForkFailsOwn
<1>9. CASE Exit(t)
  BY <1>1, <1>4, <1>5, <1>9, ExitOwn
<1>10. CASE Release(t)
  BY <1>1, <1>4, <1>5, <1>10, ReleaseOwn
<1>11. CASE ExecDone(t)
  BY <1>1, <1>4, <1>5, <1>11, ExecDoneOwn
<1>12. ASSUME NEW a \in Addr, EmptyPage(t, a)
       PROVE  Own'
  BY <1>1, <1>4, <1>5, <1>12, EmptyPageOwn
<1>13. ASSUME NEW a \in Addr, NoPage(t, a)
       PROVE  Own'
  BY <1>1, <1>4, <1>5, <1>13, NoPageOwn
<1>14. ASSUME NEW a \in Addr, UnWpPage(t, a)
       PROVE  Own'
  BY <1>1, <1>4, <1>5, <1>14, UnWpPageOwn
<1>15. ASSUME NEW a \in Addr, Write(t, a)
       PROVE  Own'
  BY <1>1, <1>4, <1>5, <1>15, WriteOwn
<1>16. ASSUME NEW e \in Exe, Exec(t, e)
       PROVE  Own'
  BY <1>1, <1>4, <1>5, <1>16, ExecOwn
<1> QED
  BY <1>3, <1>6, <1>7, <1>8, <1>9, <1>10, <1>11, <1>12, <1>13, <1>14, <1>15, <1>16

\* A step that changes nothing keeps it.
LEMMA ApartStutter ==
    ASSUME Apart, UNCHANGED vars
    PROVE  Apart'
<1>1. UNCHANGED <<mem_map, dir, pte, content, executable, task, images, halt, view, lost>>
  BY DEF vars, mem
<1>2. TypeOK /\ Sound /\ Sound'
  BY SoundStutter DEF Apart, Sound
<1>3. ASSUME halt = "no" PROVE Own'
  BY <1>1, <1>2, <1>3, OwnKept DEF Apart, Sound, Own
<1> QED
  BY <1>1, <1>2, <1>3 DEF Apart

\* It implies the property that the run checks.
LEMMA ApartIsolates ==
    ASSUME Apart
    PROVE  Isolation
<1>1. TypeOK
  BY DEF Apart, Sound
<1>2. ASSUME halt = "no"
      PROVE  Good /\ Own
  BY <1>2 DEF Apart, Sound
<1>3. SharedProtected
  <2> SUFFICES ASSUME halt = "no", NEW t \in Task, NEW a \in Addr
               PROVE  /\ pte[t][a].w => \A u \in Task : \A b \in Addr :
                                           pte[u][b].page = pte[t][a].page => <<u, b>> = <<t, a>>
                      /\ pte[t][a].page # 0 =>
                           \A u \in Task : /\ pte[t][a].page \notin {task[u].struct, task[u].page}
                                           /\ \A d \in Dir : dir[u][d] # pte[t][a].page
    BY DEF SharedProtected
  <2>1. pte[t][a].w => \A u \in Task : \A b \in Addr :
                          pte[u][b].page = pte[t][a].page => <<u, b>> = <<t, a>>
    BY <1>2 DEF Good, WritableAlone
  <2>2. pte[t][a].page # 0 =>
          \A u \in Task : /\ pte[t][a].page \notin {task[u].struct, task[u].page}
                          /\ \A d \in Dir : dir[u][d] # pte[t][a].page
    BY <1>1, <1>2, ExclusiveNow DEF Good
  <2> QED
    BY <2>1, <2>2
<1>4. OwnContent
  <2> SUFFICES ASSUME halt = "no", NEW t \in Task, task[t].at = "user", NEW a \in Addr
               PROVE  view[t][a] = IF pte[t][a].page = 0 THEN Fresh(executable[t], a) ELSE content[pte[t][a].page]
    BY DEF OwnContent
  <2> QED
    BY <1>2 DEF Own, OwnOf, Sees
<1> QED
  BY <1>3, <1>4 DEF Isolation

\* For every number of tasks, frames and pages: as long as no frame has lost too many, and
\* only user code writes, a shared page is writable for none of its users, and each task
\* finds in its pages what it has written or its file has (memory.c:57-299).
LEMMA IsolationWhileLeaksFit == ~KernelWrites => (Spec /\ []LeaksFit => []Isolation)
<1> SUFFICES ASSUME ~KernelWrites
             PROVE  Spec /\ []LeaksFit => []Isolation
  OBVIOUS
<1>1. Init => Apart
  BY InitGood, InitOwn DEF Apart, Sound
<1>2. Apart /\ LeaksFit /\ [Next]_vars => Apart'
  BY ApartStep, ApartStutter
<1>3. Apart => Isolation
  BY ApartIsolates
<1> QED
  BY <1>1, <1>2, <1>3, PTL DEF Spec

----------------------------------------------------------------------------
\* How often a frame can be lost.

\* The tasks that have or load a program; those of them that may still come to sleep in
\* do_no_page for an address, and so to overwrite an entry; an address that maps a frame.
Live == {t \in Task : task[t].at \in {"user", "read", "exec"}}
Losers(a) == {t \in Live : \/ task[t].at = "exec"
                           \/ pte[t][a].page = 0
                           \/ task[t].at = "read" /\ task[t].addr = a}
MappedAt(p, a) == \E t \in Task : pte[t][a].page = p

\* How many have been lost: one by each task that has ever read a page and found it mapped
\* on return.  A frame that is mapped may lose one more to each task that has not yet.
Tally == /\ Cardinality(Live) <= images + 1
         /\ \A p \in Frame : /\ lost[p] <= images + 1
                             /\ \A a \in Addr : MappedAt(p, a) => lost[p] + Cardinality(Losers(a)) <= images + 1

\* Sets of tasks are finite.
LEMMA SomeTasks ==
    ASSUME NEW S, S \subseteq Task
    PROVE  IsFiniteSet(S) /\ Cardinality(S) \in Nat
<1>1. IsFiniteSet(Task)
  BY Sizes, FS_Interval DEF Task
<1> QED
  BY <1>1, FS_Subset, FS_CardinalityType

\* A set of tasks with one more.
LEMMA OneMore ==
    ASSUME NEW S, NEW T, S \subseteq Task, T \subseteq Task, NEW c, T \subseteq S \cup {c}
    PROVE  Cardinality(T) <= Cardinality(S) + 1
<1>1. IsFiniteSet(S) /\ Cardinality(S) \in Nat /\ Cardinality(T) \in Nat
  BY SomeTasks
<1>2. IsFiniteSet(S \cup {c}) /\ Cardinality(S \cup {c}) <= Cardinality(S) + 1 /\ Cardinality(S \cup {c}) \in Nat
  <2>1. IsFiniteSet(S \cup {c})
    BY <1>1, FS_AddElement
  <2>2. Cardinality(S \cup {c}) = IF c \in S THEN Cardinality(S) ELSE Cardinality(S) + 1
    BY <1>1, FS_AddElement
  <2> QED
    BY <2>1, <2>2, <1>1
<1>3. Cardinality(T) <= Cardinality(S \cup {c})
  BY <1>2, FS_Subset
<1> QED
  BY <1>1, <1>2, <1>3

\* A step that loses nothing, and adds a task at most for one more fork or exec.
LEMMA TallyKept ==
    ASSUME TypeOK, TypeOK', Tally, lost' = lost,
           \A u \in Task : \A a \in Addr : pte'[u][a].page # 0 =>
              \/ \E v \in Task : pte[v][a].page = pte'[u][a].page
              \/ lost[pte'[u][a].page] = 0,
           \/ images' = images /\ Live' \subseteq Live /\ \A a \in Addr : Losers(a)' \subseteq Losers(a)
           \/ images' = images + 1 /\ \E c : Live' \subseteq Live \cup {c}
                                             /\ \A a \in Addr : Losers(a)' \subseteq Losers(a) \cup {c}
    PROVE  Tally'
<1>1. Live \subseteq Task /\ Live' \subseteq Task
      /\ \A a \in Addr : Losers(a) \subseteq Live /\ Losers(a)' \subseteq Live'
  BY DEF Live, Losers
<1>2. /\ Cardinality(Live) \in Nat /\ Cardinality(Live') \in Nat /\ IsFiniteSet(Live) /\ IsFiniteSet(Live')
      /\ \A a \in Addr : /\ Cardinality(Losers(a)) \in Nat /\ Cardinality(Losers(a)') \in Nat
                         /\ IsFiniteSet(Losers(a))
  <2>1. \A a \in Addr : Losers(a) \subseteq Task /\ Losers(a)' \subseteq Task
    BY <1>1
  <2> QED
    BY <2>1, <1>1, SomeTasks
<1>3. images \in Nat /\ images' \in Nat /\ lost \in [Frame -> Nat]
  <2>1. images \in 0 .. MaxImages /\ lost \in [Frame -> Nat]
    BY TypeParts
  <2>2. images' \in 0 .. MaxImages
    BY TypePartsNext
  <2> QED
    BY <2>1, <2>2, SizesAssumption
<1>4. /\ images' >= images
      /\ Cardinality(Live') - Cardinality(Live) <= images' - images
      /\ \A a \in Addr : Cardinality(Losers(a)') - Cardinality(Losers(a)) <= images' - images
  <2>1. CASE images' = images /\ Live' \subseteq Live /\ \A a \in Addr : Losers(a)' \subseteq Losers(a)
    <3>1. Cardinality(Live') <= Cardinality(Live)
      BY <2>1, <1>2, FS_Subset
    <3>2. \A a \in Addr : Cardinality(Losers(a)') <= Cardinality(Losers(a))
      BY <2>1, <1>2, FS_Subset
    <3> QED
      BY <2>1, <3>1, <3>2, <1>2, <1>3
  <2>2. CASE images' = images + 1 /\ \E c : Live' \subseteq Live \cup {c}
                                            /\ \A a \in Addr : Losers(a)' \subseteq Losers(a) \cup {c}
    <3>1. PICK c : /\ Live' \subseteq Live \cup {c}
                   /\ \A a \in Addr : Losers(a)' \subseteq Losers(a) \cup {c}
      BY <2>2
    <3>2. Cardinality(Live') <= Cardinality(Live) + 1
      BY <3>1, <1>1, OneMore
    <3>3. ASSUME NEW a \in Addr
          PROVE  Cardinality(Losers(a)') <= Cardinality(Losers(a)) + 1
      <4>1. Losers(a) \subseteq Task /\ Losers(a)' \subseteq Task /\ Losers(a)' \subseteq Losers(a) \cup {c}
        BY <3>1, <1>1
      <4> QED
        BY <4>1, OneMore
    <3> QED
      BY <2>2, <3>2, <3>3, <1>2, <1>3
  <2> QED
    BY <2>1, <2>2
<1>5. Cardinality(Live') <= images' + 1
  BY <1>2, <1>3, <1>4 DEF Tally
<1>6. ASSUME NEW p \in Frame
      PROVE  lost'[p] <= images' + 1
  <2>1. lost[p] <= images + 1 /\ lost[p] \in Nat /\ lost'[p] = lost[p]
    BY <1>3 DEF Tally
  <2> QED
    BY <2>1, <1>3, <1>4
<1>7. ASSUME NEW p \in Frame, NEW a \in Addr, MappedAt(p, a)'
      PROVE  lost'[p] + Cardinality(Losers(a)') <= images' + 1
  <2>1. PICK u \in Task : pte'[u][a].page = p
    BY <1>7 DEF MappedAt
  <2>2. lost[p] \in Nat /\ lost'[p] = lost[p] /\ p # 0
    BY <1>3, Sizes
  <2>3. CASE lost[p] = 0
    <3>1. Cardinality(Losers(a)') <= Cardinality(Live')
      BY <1>1, <1>2, FS_Subset
    <3> QED
      BY <3>1, <2>2, <2>3, <1>2, <1>3, <1>5
  <2>4. CASE MappedAt(p, a)
    <3>1. lost[p] + Cardinality(Losers(a)) <= images + 1
      BY <2>4 DEF Tally
    <3> QED
      BY <3>1, <2>2, <1>2, <1>3, <1>4
  <2> QED
    BY <2>1, <2>2, <2>3, <2>4 DEF MappedAt
<1> QED
  BY <1>5, <1>6, <1>7 DEF Tally

\* Where the tasks are, and which entries are empty, decide who may still lose a frame.
LEMMA SameTasks ==
    ASSUME NEW t \in Task,
           \A u \in Task \ {t} : /\ task'[u] = task[u]
                                 /\ \A a \in Addr : pte[u][a].page # 0 => pte'[u][a].page # 0,
           t \in Live' => t \in Live,
           \A a \in Addr : t \in Losers(a)' => t \in Losers(a)
    PROVE  Live' \subseteq Live /\ \A a \in Addr : Losers(a)' \subseteq Losers(a)
BY DEF Live, Losers

\* get_empty_page maps a frame that has lost none.
LEMMA EmptyPageTally ==
    ASSUME TypeOK, TypeOK', halt = "no", Good, Tally, NEW t \in Task, NEW a \in Addr, EmptyPage(t, a)
    PROVE  Tally'
<1> DEFINE p == Get(mem_map)
<1>1. /\ pte' = [pte EXCEPT ![t][a] = [page |-> p, w |-> TRUE, d |-> FALSE]]
      /\ UNCHANGED <<task, images, lost>>
      /\ Free(mem_map) # {}
  BY DEF EmptyPage
<1>2. p # 0 /\ lost[p] = 0
  BY <1>1, MapType, NewFrame DEF Good
<1>3. pte \in PteSet
  BY TypeParts
<1> HIDE DEF p
<1>4. \A u \in Task : \A b \in Addr : pte'[u][b].page = IF u = t /\ b = a THEN p ELSE pte[u][b].page
  BY <1>1, <1>3 DEF PteSet
<1>5. Live' \subseteq Live /\ \A b \in Addr : Losers(b)' \subseteq Losers(b)
  BY <1>1, <1>2, <1>4 DEF Live, Losers
<1> QED
  BY <1>1, <1>2, <1>4, <1>5, TallyKept

\* do_no_page counts a task that sleeps among those who may overwrite an entry.
LEMMA NoPageTally ==
    ASSUME TypeOK, TypeOK', halt = "no", Good, LeaksFit, Tally, NEW t \in Task, NEW a \in Addr,
           NoPage(t, a), halt' = "no"
    PROVE  Tally'
<1> DEFINE shares == Sharers(t, a) # {}
           from   == Max(Sharers(t, a))
           e      == [pte[from][a] EXCEPT !.w = FALSE]
           page   == Get(IF shares THEN [(IF shares /\ dir[t][DirOf(a)] = 0 THEN Got(mem_map) ELSE mem_map)
                                             EXCEPT ![pte[from][a].page] = Plus(@, 1)]
                         ELSE IF shares /\ dir[t][DirOf(a)] = 0 THEN Got(mem_map) ELSE mem_map)
           k      == [task[t] EXCEPT !.at = "read", !.addr = a, !.page = page]
<1>1. /\ pte' = (IF shares THEN [pte EXCEPT ![from][a].w = FALSE, ![t][a] = e] ELSE pte)
      /\ task' = [task EXCEPT ![t].at = "read", ![t].addr = a, ![t].page = page]
      /\ UNCHANGED <<images, lost>>
      /\ task[t].at = "user" /\ pte[t][a].page = 0
  BY DEF NoPage, Halts, Runs
<1> HIDE DEF page
<1>2. task \in TaskSet /\ pte \in [Task -> [Addr -> EntryRec]]
  BY TypeParts DEF PteSet, EntryRec
<1>3. task' = [task EXCEPT ![t] = k] /\ k.at = "read" /\ k.addr = a
  <2>1. task[t] \in TaskRec
    BY TaskType
  <2>2. k.at = "read" /\ k.addr = a
    BY <2>1 DEF TaskRec
  <2> QED
    BY <2>2, <1>1, <1>2, ThreeFields DEF TaskSet
<1>4. shares => from \in Task \ {t}
  BY <1>1, Shared
<1> HIDE DEF k, from
<1>5. \A u \in Task : \A b \in Addr : \/ pte'[u][b].page = pte[u][b].page
                                      \/ u = t /\ b = a /\ shares /\ pte'[u][b].page = pte[from][a].page
  <2>1. CASE shares
    <3>1. e \in EntryRec /\ e.page = pte[from][a].page
      <4>1. pte[from][a] \in EntryRec
        BY <2>1, <1>2, <1>4
      <4> QED
        BY <4>1, EntryUpdates
    <3> DEFINE f == [pte EXCEPT ![from][a] = e]
    <3>2. pte' = [f EXCEPT ![t][a] = e]
      BY <2>1, <1>1, <1>2, <1>4
    <3> HIDE DEF e
    <3>3. f \in [Task -> [Addr -> EntryRec]] /\ \A u \in Task : \A b \in Addr :
             f[u][b] = IF u = from /\ b = a THEN e ELSE pte[u][b]
      BY <2>1, <3>1, <1>2, <1>4
    <3> HIDE DEF f
    <3>4. \A u \in Task : \A b \in Addr : pte'[u][b] = IF u = t /\ b = a THEN e ELSE f[u][b]
      BY <3>1, <3>2, <3>3
    <3> QED
      BY <2>1, <3>1, <3>3, <3>4
  <2>2. CASE ~shares
    BY <2>2, <1>1
  <2> QED
    BY <2>1, <2>2
<1>6. task'[t].at = "read" /\ task'[t].addr = a /\ \A u \in Task \ {t} : task'[u] = task[u]
  BY <1>2, <1>3 DEF TaskSet
<1> HIDE DEF shares
<1>7. Live' \subseteq Live /\ \A b \in Addr : Losers(b)' \subseteq Losers(b)
  <2>1. t \in Live
    BY <1>1 DEF Live
  <2>2. \A u \in Task \ {t} : \A b \in Addr : pte'[u][b].page = pte[u][b].page
    BY <1>5
  <2>3. ASSUME NEW b \in Addr, t \in Losers(b)'
        PROVE  t \in Losers(b)
    <3>1. b = a \/ pte'[t][b].page = 0
      BY <2>3, <1>6 DEF Losers
    <3>2. pte[t][b].page = 0
      BY <3>1, <1>1, <1>5
    <3> QED
      BY <3>2, <2>1 DEF Losers
  <2> QED
    BY <2>1, <2>2, <2>3, <1>6, SameTasks
<1>8. ASSUME NEW u \in Task, NEW b \in Addr, pte'[u][b].page # 0
      PROVE  \E v \in Task : pte[v][b].page = pte'[u][b].page
  BY <1>4, <1>5
<1> QED
  BY <1>1, <1>7, <1>8, TallyKept

\* put_page loses a frame, and its task may not lose another one there.
LEMMA PutPageTally ==
    ASSUME TypeOK, TypeOK', halt = "no", Good, Tally, NEW t \in Task, PutPage(t)
    PROVE  Tally'
<1>1. PICK a \in Addr, p \in Frame, old \in 0 .. Pages :
         a = task[t].addr /\ p = task[t].page /\ old = pte[t][a].page
  <2>1. task[t].at = "read"
    BY DEF PutPage
  <2>2. task[t].addr \in Addr /\ task[t].page # 0
    BY <2>1 DEF Good, Shape, Addr
  <2>3. task[t].page \in 0 .. Pages /\ pte[t][task[t].addr].page \in 0 .. Pages
    BY <2>2, HeldType DEF TaskSet, PteSet
  <2> QED
    BY <2>2, <2>3, Sizes
<1> DEFINE table == dir[t][DirOf(a)] = 0
           new   == [page |-> p, w |-> TRUE, d |-> FALSE]
<1>2. /\ task[t].at = "read" /\ images' = images
      /\ task' = [task EXCEPT ![t].at = "user", ![t].addr = None, ![t].page = 0]
      /\ lost[p] = 0 /\ p # 0
  <2>1. task[t].at = "read"
    BY DEF PutPage
  <2>2. task[t].page # 0
    BY <2>1 DEF Good, Shape
  <2>3. lost[task[t].page] = 0
    BY <2>2 DEF Good, LostMapped
  <2> QED
    BY <2>1, <2>2, <2>3, <1>1 DEF PutPage
<1>3. /\ \A u \in Task \ {t} : task'[u] = task[u]
      /\ task'[t].at = "user"
  <2>1. "user" \in {"none", "user", "read", "exec", "zombie"} /\ None \in Addr \cup {None} /\ 0 \in 0 .. Pages
    BY Sizes
  <2> QED
    BY <2>1, <1>2, TaskMoved
<1>4. CASE table /\ Free(mem_map) = {}
  <2>1. UNCHANGED <<pte, lost>>
    BY <1>1, <1>4 DEF PutPage
  <2>2. old = 0
    BY <1>1, <1>4 DEF Good, Shape
  <2>3. Live' \subseteq Live /\ \A b \in Addr : Losers(b)' \subseteq Losers(b)
    BY <2>1, <2>2, <1>1, <1>2, <1>3, SameTasks DEF Live, Losers
  <2> QED
    BY <2>1, <2>3, <1>2, TallyKept
<1>5. CASE ~(table /\ Free(mem_map) = {})
  <2>1. /\ pte' = [pte EXCEPT ![t][a] = new]
        /\ lost' = IF old = 0 THEN lost ELSE [lost EXCEPT ![old] = @ + 1]
    BY <1>1, <1>5 DEF PutPage
  <2>2. pte \in PteSet /\ lost \in [Frame -> Nat]
    BY TypeParts
  <2>3. \A u \in Task : \A b \in Addr : pte'[u][b].page = IF u = t /\ b = a THEN p ELSE pte[u][b].page
    BY <2>1, <2>2 DEF PteSet
  <2>4. /\ Live' \subseteq Live
        /\ \A b \in Addr \ {a} : Losers(b)' \subseteq Losers(b)
        /\ Losers(a)' \subseteq Losers(a) \ {t} /\ t \in Losers(a)
    <3>1. Live' \subseteq Live
      BY <1>2, <1>3 DEF Live
    <3>2. t \in Losers(a)
      BY <1>1, <1>2 DEF Losers, Live
    <3>3. ASSUME NEW b \in Addr, NEW u \in Losers(b)'
          PROVE  u \in Losers(b) /\ (b = a => u # t)
      <4>1. u \in Live /\ u \in Task
        BY <3>1, <3>3 DEF Losers, Live
      <4>2. CASE u = t
        BY <4>1, <4>2, <3>3, <2>3, <1>2, <1>3 DEF Losers
      <4>3. CASE u # t
        BY <4>1, <4>3, <3>3, <2>3, <1>3 DEF Losers
      <4> QED
        BY <4>2, <4>3
    <3> QED
      BY <3>1, <3>2, <3>3
  <2>5. CASE old = 0
    <3>1. \A b \in Addr : Losers(b)' \subseteq Losers(b)
      BY <2>4
    <3>2. lost' = lost
      BY <2>1, <2>5
    <3>3. \A u \in Task : \A b \in Addr : pte'[u][b].page # 0 =>
             (\E v \in Task : pte[v][b].page = pte'[u][b].page) \/ lost[pte'[u][b].page] = 0
      BY <2>3, <1>2
    <3> QED
      BY <3>1, <3>2, <3>3, <2>4, <1>2, TallyKept
  <2>6. CASE old # 0
    <3>1. old \in Frame /\ \A x \in Frame : lost'[x] = IF x = old THEN lost[x] + 1 ELSE lost[x]
      BY <2>1, <2>2, <2>6, Sizes
    <3>2. MappedAt(old, a)
      BY <1>1 DEF MappedAt
    <3>3. images \in Nat
      <4>1. images \in 0 .. MaxImages
        BY TypeParts
      <4> QED
        BY <4>1, SizesAssumption
    <3>4. Live \subseteq Task /\ Live' \subseteq Task
          /\ \A b \in Addr : Losers(b) \subseteq Live /\ Losers(b)' \subseteq Live'
      BY DEF Live, Losers
    <3>5. /\ Cardinality(Live) \in Nat /\ Cardinality(Live') \in Nat /\ IsFiniteSet(Live) /\ IsFiniteSet(Live')
          /\ \A b \in Addr : /\ Cardinality(Losers(b)) \in Nat /\ Cardinality(Losers(b)') \in Nat
                             /\ IsFiniteSet(Losers(b)) /\ IsFiniteSet(Losers(b)')
      <4>1. \A b \in Addr : Losers(b) \subseteq Task /\ Losers(b)' \subseteq Task
        BY <3>4
      <4> QED
        BY <4>1, <3>4, SomeTasks
    <3>6. Cardinality(Live') <= images' + 1
      <4>1. Cardinality(Live') <= Cardinality(Live)
        BY <2>4, <3>5, FS_Subset
      <4> QED
        BY <4>1, <3>3, <3>5, <1>2 DEF Tally
    <3>7. Cardinality(Losers(a)') <= Cardinality(Losers(a)) - 1
      <4>1. /\ IsFiniteSet(Losers(a) \ {t}) /\ Cardinality(Losers(a) \ {t}) = Cardinality(Losers(a)) - 1
        BY <2>4, <3>5, FS_RemoveElement
      <4> QED
        BY <4>1, <2>4, FS_Subset
    <3>8. lost[old] + Cardinality(Losers(a)) <= images + 1
      BY <3>1, <3>2 DEF Tally
    <3>9. ASSUME NEW x \in Frame
          PROVE  lost'[x] <= images' + 1
      <4>1. lost[x] <= images + 1 /\ lost[x] \in Nat
        BY <2>2 DEF Tally
      <4> QED
        BY <4>1, <3>1, <3>3, <3>5, <3>7, <3>8, <1>2
    <3>10. ASSUME NEW x \in Frame, NEW b \in Addr, MappedAt(x, b)'
           PROVE  lost'[x] + Cardinality(Losers(b)') <= images' + 1
      <4>1. PICK u \in Task : pte'[u][b].page = x
        BY <3>10 DEF MappedAt
      <4>2. lost[x] \in Nat /\ lost[old] \in Nat
        BY <2>2, <3>1
      <4>3. CASE x = p /\ x # old
        <5>1. lost'[x] = 0
          BY <4>3, <3>1, <1>2
        <5>2. Cardinality(Losers(b)') <= Cardinality(Live')
          BY <3>4, <3>5, FS_Subset
        <5> QED
          BY <5>1, <5>2, <3>3, <3>5, <3>6, <1>2
      <4>4. CASE x = old
        <5>1. old # p
          <6>1. task[t].page = p /\ p # 0
            BY <1>1, <1>2
          <6> QED
            BY <6>1, <2>6, <1>1, ExclusiveNow DEF Good
        <5>2. pte[u][b].page = pte[t][a].page /\ pte[u][b].page # 0
          BY <4>1, <4>4, <5>1, <2>3, <2>6, <1>1
        <5>3. b = a
          BY <5>2, ExclusiveNow DEF Good
        <5> QED
          BY <5>3, <4>2, <4>4, <3>1, <3>3, <3>5, <3>7, <3>8, <1>2
      <4>5. CASE x # old /\ x # p
        <5>1. MappedAt(x, b)
          BY <4>1, <4>5, <2>3 DEF MappedAt
        <5>2. lost[x] + Cardinality(Losers(b)) <= images + 1
          BY <5>1 DEF Tally
        <5>3. Cardinality(Losers(b)') <= Cardinality(Losers(b))
          <6>1. Losers(b)' \subseteq Losers(b)
            BY <2>4
          <6> QED
            BY <6>1, <3>5, FS_Subset
        <5> QED
          BY <5>2, <5>3, <4>2, <4>5, <3>1, <3>3, <3>5, <1>2
      <4> QED
        BY <4>3, <4>4, <4>5
    <3> QED
      BY <3>6, <3>9, <3>10 DEF Tally
  <2> QED
    BY <2>5, <2>6
<1> QED
  BY <1>4, <1>5

\* un_wp_page maps a frame that has lost none.
LEMMA UnWpPageTally ==
    ASSUME TypeOK, TypeOK', halt = "no", Good, Tally, NEW t \in Task, NEW a \in Addr,
           UnWpPage(t, a), halt' = "no"
    PROVE  Tally'
<1> DEFINE p == Get(mem_map)
<1>1. UNCHANGED <<task, images, lost>> /\ pte[t][a].page # 0
  BY DEF UnWpPage
<1>2. pte \in PteSet
  BY TypeParts
<1>3. \A u \in Task : \A b \in Addr : \/ pte'[u][b].page = pte[u][b].page
                                      \/ pte'[u][b].page # 0 /\ lost[pte'[u][b].page] = 0
  <2>1. CASE pte' = [pte EXCEPT ![t][a].w = TRUE]
    <3> DEFINE k == [pte[t][a] EXCEPT !.w = TRUE]
    <3>1. k.page = pte[t][a].page
      BY EntryType DEF EntryRec
    <3>2. pte' = [pte EXCEPT ![t][a] = k]
      BY <2>1, <1>2 DEF PteSet
    <3> HIDE DEF k
    <3> QED
      BY <3>1, <3>2, <1>2 DEF PteSet
  <2>2. CASE /\ Free(mem_map) # {}
             /\ pte' = [pte EXCEPT ![t][a] = [page |-> p, w |-> TRUE, d |-> FALSE]]
    <3>1. p # 0 /\ lost[p] = 0
      BY <2>2, MapType, NewFrame DEF Good
    <3> HIDE DEF p
    <3> QED
      BY <2>2, <3>1, <1>2 DEF PteSet
  <2> QED
    BY <2>1, <2>2 DEF UnWpPage
<1>4. Live' \subseteq Live /\ \A b \in Addr : Losers(b)' \subseteq Losers(b)
  BY <1>1, <1>3 DEF Live, Losers
<1> QED
  BY <1>1, <1>3, <1>4, TallyKept

\* A step that moves no task and no page.
LEMMA StillTally ==
    ASSUME TypeOK, TypeOK', Tally, UNCHANGED <<task, images, lost>>,
           \A u \in Task : \A a \in Addr : pte'[u][a].page = pte[u][a].page
    PROVE  Tally'
<1>1. Live' \subseteq Live /\ \A b \in Addr : Losers(b)' \subseteq Losers(b)
  BY DEF Live, Losers
<1> QED
  BY <1>1, TallyKept

\* A write moves no frame.
LEMMA WriteTally ==
    ASSUME TypeOK, TypeOK', Tally, NEW t \in Task, NEW a \in Addr, Write(t, a)
    PROVE  Tally'
<1> DEFINE k == [pte[t][a] EXCEPT !.d = TRUE]
<1>1. pte' = [pte EXCEPT ![t][a].d = TRUE] /\ UNCHANGED <<task, images, lost>>
  BY DEF Write
<1>2. pte \in PteSet
  BY TypeParts
<1>3. k.page = pte[t][a].page
  BY EntryType DEF EntryRec
<1>4. pte' = [pte EXCEPT ![t][a] = k]
  BY <1>1, <1>2 DEF PteSet
<1> HIDE DEF k
<1>5. \A u \in Task : \A b \in Addr : pte'[u][b].page = pte[u][b].page
  BY <1>2, <1>3, <1>4 DEF PteSet
<1> QED
  BY <1>1, <1>5, StillTally

\* A fork without room adds no task.
LEMMA ForkFailsTally ==
    ASSUME TypeOK, TypeOK', Tally, NEW t \in Task, ForkFails(t)
    PROVE  Tally'
<1>1. PICK ds : pte' = Protect(t, ds, pte)
  BY DEF ForkFails
<1>2. UNCHANGED <<task, images, lost>>
  BY DEF ForkFails
<1>3. \A u \in Task : \A a \in Addr : pte'[u][a].page = pte[u][a].page
  BY <1>1, Protected
<1> QED
  BY <1>2, <1>3, StillTally

\* A fork adds a task, and an image.
LEMMA ForkTally ==
    ASSUME TypeOK, TypeOK', Tally, NEW t \in Task, Fork(t)
    PROVE  Tally'
<1>1. PICK c \in Task : c = Min(Unused) /\ c # t
  <2>1. Unused \in SUBSET Nat /\ Unused # {}
    BY Sizes DEF Fork, Unused, Task
  <2>2. Min(Unused) \in Unused
    BY <2>1, MinOf
  <2>3. task[t].at = "user"
    BY DEF Fork, Runs
  <2> QED
    BY <2>2, <2>3 DEF Unused
<1> DEFINE ps  == Protect(t, Tables(t), pte)
           row == [a \in Addr |-> [pte[t][a] EXCEPT !.w = FALSE]]
           k   == [NoTask EXCEPT !.at = "user", !.struct = Get(mem_map)]
<1>2. /\ pte' = [ps EXCEPT ![c] = row]
      /\ task' = [task EXCEPT ![c] = k]
      /\ images' = images + 1 /\ lost' = lost
  BY <1>1 DEF Fork
<1>3. task \in TaskSet
  BY TypeParts
<1>4. ps \in PteSet /\ \A u \in Task : \A a \in Addr : ps[u][a].page = pte[u][a].page
  BY Protected
<1>5. \A a \in Addr : row[a].page = pte[t][a].page
  BY EntryType, EntryUpdates
<1> HIDE DEF ps, row, k
<1>6. \A u \in Task \ {c} : \A a \in Addr : pte'[u][a].page = pte[u][a].page
  BY <1>2, <1>4 DEF PteSet
<1>7. \A a \in Addr : pte'[c][a].page = pte[t][a].page
  BY <1>1, <1>2, <1>4, <1>5 DEF PteSet
<1>8. \A u \in Task \ {c} : task'[u] = task[u]
  BY <1>2, <1>3 DEF TaskSet
<1>9. Live' \subseteq Live \cup {c} /\ \A a \in Addr : Losers(a)' \subseteq Losers(a) \cup {c}
  BY <1>6, <1>8 DEF Live, Losers
<1>10. \A u \in Task : \A a \in Addr : \E v \in Task : pte[v][a].page = pte'[u][a].page
  BY <1>6, <1>7
<1> QED
  BY <1>2, <1>9, <1>10, TallyKept

\* An exit leaves fewer tasks.
LEMMA ExitTally ==
    ASSUME TypeOK, TypeOK', Good, Tally, NEW t \in Task, Exit(t), halt' = halt
    PROVE  Tally'
<1>1. /\ pte' = [pte EXCEPT ![t] = [a \in Addr |-> Absent]] \/ pte' = pte
      /\ task' = [task EXCEPT ![t].at = "zombie"]
      /\ UNCHANGED <<images, lost>>
  BY DEF Exit, FreeTables, mem
<1>2. task \in TaskSet /\ pte \in PteSet
  BY TypeParts
<1>3. \A u \in Task \ {t} : task'[u] = task[u] /\ \A a \in Addr : pte'[u][a].page = pte[u][a].page
  <2>1. \A u \in Task \ {t} : task'[u] = task[u]
    BY <1>1, <1>2 DEF TaskSet
  <2>2. \A u \in Task \ {t} : \A a \in Addr : pte'[u][a].page = pte[u][a].page
    BY <1>1, <1>2 DEF PteSet
  <2> QED
    BY <2>1, <2>2
<1>4. \A a \in Addr : pte'[t][a].page \in {0, pte[t][a].page}
  BY <1>1, <1>2 DEF PteSet, Absent
<1>5. task'[t].at = "zombie"
  BY <1>1, <1>2 DEF TaskSet
<1>6. t \notin Live' /\ \A a \in Addr : t \notin Losers(a)'
  BY <1>5 DEF Live, Losers
<1>7. Live' \subseteq Live /\ \A a \in Addr : Losers(a)' \subseteq Losers(a)
  BY <1>3, <1>6, SameTasks
<1>8. ASSUME NEW u \in Task, NEW a \in Addr, pte'[u][a].page # 0
      PROVE  pte'[u][a].page = pte[u][a].page
  BY <1>3, <1>4, <1>8
<1> QED
  BY <1>1, <1>7, <1>8, TallyKept

\* So does the end of a zombie.
LEMMA ReleaseTally ==
    ASSUME TypeOK, TypeOK', Tally, NEW t \in Task, Release(t)
    PROVE  Tally'
<1>1. task' = [task EXCEPT ![t] = NoTask] /\ UNCHANGED <<pte, images, lost>>
  BY DEF Release
<1>2. task \in TaskSet
  BY TypeParts
<1>3. task'[t].at = "none" /\ \A u \in Task \ {t} : task'[u] = task[u]
  BY <1>1, <1>2 DEF TaskSet, NoTask
<1>4. t \notin Live' /\ \A a \in Addr : t \notin Losers(a)'
  BY <1>3 DEF Live, Losers
<1>5. Live' \subseteq Live /\ \A a \in Addr : Losers(a)' \subseteq Losers(a)
  BY <1>1, <1>3, <1>4, SameTasks
<1> QED
  BY <1>1, <1>5, TallyKept

\* An exec makes a task one that may lose again, and adds an image.
LEMMA ExecTally ==
    ASSUME TypeOK, TypeOK', Tally, NEW t \in Task, NEW e \in Exe, Exec(t, e)
    PROVE  Tally'
<1>1. /\ task' = [task EXCEPT ![t] = [task[t] EXCEPT !.at = "exec", !.page = Get(mem_map)]]
      /\ images' = images + 1 /\ UNCHANGED <<pte, lost>>
  BY DEF Exec
<1>2. task \in TaskSet
  BY TypeParts
<1>3. \A u \in Task \ {t} : task'[u] = task[u]
  BY <1>1, <1>2 DEF TaskSet
<1>4. Live' \subseteq Live \cup {t} /\ \A a \in Addr : Losers(a)' \subseteq Losers(a) \cup {t}
  BY <1>1, <1>3 DEF Live, Losers
<1> QED
  BY <1>1, <1>4, TallyKept

\* The page of arguments has lost none.
LEMMA ExecDoneTally ==
    ASSUME TypeOK, TypeOK', Good, Tally, NEW t \in Task, ExecDone(t), halt' = halt
    PROVE  Tally'
<1> DEFINE g == task[t].page
           entry == [page |-> g, w |-> TRUE, d |-> TRUE]
           k == [task[t] EXCEPT !.at = "user", !.page = 0]
<1>1. /\ \/ pte' = [pte EXCEPT ![t] = [a \in Addr |-> IF a = ArgPage THEN entry ELSE Absent]]
            /\ task' = [task EXCEPT ![t] = k]
         \/ pte' = pte /\ task' = task
      /\ UNCHANGED <<images, lost>> /\ task[t].at = "exec"
  BY DEF ExecDone, mem
<1>2. task \in TaskSet /\ pte \in PteSet
  BY TypeParts
<1>3. g # 0 /\ lost[g] = 0
  BY <1>1 DEF Good, Shape, LostMapped
<1>4. entry.page = g /\ Absent.page = 0
  BY DEF Absent
<1> HIDE DEF g, entry, k
<1>5. \A u \in Task \ {t} : task'[u] = task[u] /\ \A a \in Addr : pte'[u][a].page = pte[u][a].page
  <2>1. \A u \in Task \ {t} : task'[u] = task[u]
    BY <1>1, <1>2 DEF TaskSet
  <2>2. \A u \in Task \ {t} : \A a \in Addr : pte'[u][a].page = pte[u][a].page
    BY <1>1, <1>2 DEF PteSet
  <2> QED
    BY <2>1, <2>2
<1>6. \A a \in Addr : pte'[t][a].page \in {0, g, pte[t][a].page}
  BY <1>1, <1>2, <1>4 DEF PteSet
<1>7. t \in Live /\ \A a \in Addr : t \in Losers(a)
  BY <1>1 DEF Live, Losers
<1>8. Live' \subseteq Live /\ \A a \in Addr : Losers(a)' \subseteq Losers(a)
  BY <1>5, <1>7, SameTasks
<1>9. ASSUME NEW u \in Task, NEW a \in Addr, pte'[u][a].page # 0
      PROVE  pte'[u][a].page = pte[u][a].page \/ lost[pte'[u][a].page] = 0
  BY <1>3, <1>5, <1>6, <1>9
<1> QED
  BY <1>1, <1>8, <1>9, TallyKept

\* At first nothing is lost.
LEMMA InitTally ==
    ASSUME Init
    PROVE  Tally
<1> DEFINE one == [NoTask EXCEPT !.at = "user", !.struct = Pages]
<1>1. /\ task = [t \in Task |-> IF t = 1 THEN one ELSE NoTask]
      /\ images = 0 /\ lost = [p \in Frame |-> 0] /\ 1 \in Task
  BY Sizes DEF Init, Task
<1>2. one.at = "user" /\ NoTask.at = "none"
  BY DEF NoTask
<1> HIDE DEF one
<1>3. Live = {1}
  BY <1>1, <1>2 DEF Live
<1>4. Cardinality(Live) = 1 /\ IsFiniteSet(Live)
  BY <1>3, FS_Singleton
<1>5. \A a \in Addr : Cardinality(Losers(a)) \in Nat /\ Cardinality(Losers(a)) <= 1
  <2> SUFFICES ASSUME NEW a \in Addr
               PROVE  Cardinality(Losers(a)) \in Nat /\ Cardinality(Losers(a)) <= 1
    OBVIOUS
  <2>1. Losers(a) \subseteq Live
    BY DEF Losers
  <2>2. Cardinality(Losers(a)) <= Cardinality(Live) /\ IsFiniteSet(Losers(a))
    BY <2>1, <1>4, FS_Subset
  <2> QED
    BY <2>2, <1>4, FS_CardinalityType
<1> QED
  BY <1>1, <1>4, <1>5 DEF Tally

\* A bound on forks and execs for which a count has room: each of them can lose a frame
\* once, besides its users.
Room == MAP_SIZE > NR_TASKS + MaxImages + 1

\* Then no frame can have lost too many.
LEMMA TallyFits ==
    ASSUME Room, TypeOK, Tally
    PROVE  LeaksFit
<1> SUFFICES ASSUME NEW p \in Frame
             PROVE  lost[p] + NR_TASKS < MAP_SIZE
  BY DEF LeaksFit
<1>1. images \in 0 .. MaxImages /\ lost[p] \in Nat
  BY TypeParts
<1>2. lost[p] <= images + 1
  BY DEF Tally
<1> QED
  BY <1>1, <1>2, SizesAssumption, Sizes DEF Room

\* The inductive invariant of the losses.
Fits == Sound /\ Tally

\* Every step keeps it.
LEMMA FitsStep ==
    ASSUME Room, Fits, Next
    PROVE  Fits'
<1>1. TypeOK /\ Sound /\ Tally
  BY DEF Fits, Sound
<1>2. LeaksFit
  BY <1>1, TallyFits
<1>3. Sound' /\ TypeOK'
  BY <1>1, <1>2, SoundStep DEF Sound
<1>4. PICK t \in Task : \/ PutPage(t) \/ Fork(t) \/ ForkFails(t) \/ Exit(t) \/ Release(t) \/ ExecDone(t)
                        \/ \E a \in Addr : EmptyPage(t, a) \/ NoPage(t, a) \/ UnWpPage(t, a) \/ Write(t, a)
                        \/ \E e \in Exe : Exec(t, e)
  BY DEF Next
<1>5. halt = "no"
  BY <1>4 DEF PutPage, Fork, ForkFails, Exit, Release, ExecDone, EmptyPage, NoPage, UnWpPage, Write, Exec, Runs
<1>6. Good
  BY <1>1, <1>5 DEF Sound
<1> SUFFICES Tally'
  BY <1>3 DEF Fits
<1>7. CASE PutPage(t)
  BY <1>1, <1>3, <1>5, <1>6, <1>7, PutPageTally
<1>8. CASE Fork(t)
  BY <1>1, <1>3, <1>8, ForkTally
<1>9. CASE ForkFails(t)
  BY <1>1, <1>3, <1>9, ForkFailsTally
<1>10. CASE Exit(t)
  BY <1>1, <1>3, <1>5, <1>6, <1>10, ExitGood, ExitTally
<1>11. CASE Release(t)
  BY <1>1, <1>3, <1>11, ReleaseTally
<1>12. CASE ExecDone(t)
  BY <1>1, <1>3, <1>5, <1>6, <1>12, ExecDoneGood, ExecDoneTally
<1>13. ASSUME NEW a \in Addr, EmptyPage(t, a)
       PROVE  Tally'
  BY <1>1, <1>3, <1>5, <1>6, <1>13, EmptyPageTally
<1>14. ASSUME NEW a \in Addr, NoPage(t, a)
       PROVE  Tally'
  <2>1. CASE halt' = "no"
    BY <2>1, <1>1, <1>2, <1>3, <1>5, <1>6, <1>14, NoPageTally
  <2>2. CASE halt' # "no"
    <3>1. Halts("no frame")
      BY <2>2, <1>5, <1>14 DEF NoPage
    <3>2. UNCHANGED <<pte, task, images, lost>>
      BY <3>1 DEF Halts, mem
    <3> QED
      BY <3>2, <1>1, <1>3, StillTally
  <2> QED
    BY <2>1, <2>2
<1>15. ASSUME NEW a \in Addr, UnWpPage(t, a)
       PROVE  Tally'
  <2>1. CASE halt' = "no"
    BY <2>1, <1>1, <1>3, <1>5, <1>6, <1>15, UnWpPageTally
  <2>2. CASE halt' # "no"
    <3>1. UNCHANGED <<pte, task, images, lost>>
      BY <2>2, <1>5, <1>15 DEF UnWpPage
    <3> QED
      BY <3>1, <1>1, <1>3, StillTally
  <2> QED
    BY <2>1, <2>2
<1>16. ASSUME NEW a \in Addr, Write(t, a)
       PROVE  Tally'
  BY <1>1, <1>3, <1>16, WriteTally
<1>17. ASSUME NEW e \in Exe, Exec(t, e)
       PROVE  Tally'
  BY <1>1, <1>3, <1>17, ExecTally
<1> QED
  BY <1>4, <1>7, <1>8, <1>9, <1>10, <1>11, <1>12, <1>13, <1>14, <1>15, <1>16, <1>17

\* A step that changes nothing keeps it.
LEMMA FitsStutter ==
    ASSUME Fits, UNCHANGED vars
    PROVE  Fits'
<1>1. UNCHANGED <<pte, task, images, lost>>
  BY DEF vars, mem
<1>2. TypeOK /\ Sound'
  BY SoundStutter DEF Fits, Sound
<1>3. TypeOK' /\ Tally
  BY <1>2 DEF Fits, Sound
<1> QED
  BY <1>1, <1>2, <1>3, StillTally DEF Fits

\* The premise of the two facts above, for every behaviour with so many forks and execs:
\* in a boot, do_no_page may lose a count of a frame once for each image at most, so the
\* counts of unsigned char do not wrap (memory.c:195-299, mm.h:19).
THEOREM LeaksFitTheorem == Room => (Spec => []LeaksFit)
<1> SUFFICES ASSUME Room
             PROVE  Spec => []LeaksFit
  OBVIOUS
<1>1. Init => Fits
  BY InitGood, InitTally DEF Fits, Sound
<1>2. Fits /\ [Next]_vars => Fits'
  BY FitsStep, FitsStutter
<1>3. Fits => LeaksFit
  BY TallyFits DEF Fits, Sound
<1> QED
  BY <1>1, <1>2, <1>3, PTL DEF Spec

\* For every number of tasks, frames and pages with room in the byte for the forks and
\* execs: the count of each frame is the number of its users and losses, no frame in use
\* is free, and free_page never finds a count of zero (memory.c:15-55, swap.c:3-27).
THEOREM MapCountsTheorem == Room => (Spec => []MapCounts)
BY LeaksFitTheorem, CountsWhileLeaksFit, PTL

\* For the same, while only user code writes: a shared page is writable for none of its
\* users, and each task finds in its pages what it has written or its file has, though
\* others share them, fork, exec and exit (memory.c:57-299).
THEOREM IsolationTheorem == Room /\ ~KernelWrites => (Spec => []Isolation)
BY LeaksFitTheorem, IsolationWhileLeaksFit, PTL
=============================================================================
