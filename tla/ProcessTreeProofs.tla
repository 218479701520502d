-------------------------- MODULE ProcessTreeProofs --------------------------
(***************************************************************************)
(* Theorems about ProcessTree for every size of the task table and every   *)
(* greatest pid: the links between the task structures hold each child     *)
(* once, in order, and what fork, exit and waitpid do to them is what      *)
(* Family promises.                                                        *)
(***************************************************************************)
EXTENDS ProcessTree, CommonLemmas

\* The walk along p_osptr through the table tb.
Longer(tb, f, n) == [c \in Link |-> IF c = Nil \/ n = 0 THEN <<>> ELSE <<c>> \o f[n - 1][tb[c].p_osptr]]

Walk(tb) == CHOOSE f : f = [n \in 0 .. NR_TASKS |-> Longer(tb, f, n)]

\* A walk of any length is defined.
LEMMA WalkExists ==
    ASSUME NEW tb, NEW N \in Nat
    PROVE  \E f : f = [n \in 0 .. N |-> Longer(tb, f, n)]
<1> DEFINE Is(f, m) == f = [n \in 0 .. m |-> Longer(tb, f, n)]
           bad == {m \in Nat : ~ \E f : Is(f, m)}
<1> SUFFICES ASSUME bad # {} PROVE FALSE
  OBVIOUS
<1>1. PICK m \in bad : \A k \in bad : m <= k
  <2> HIDE DEF Is
  <2> QED
    BY LeastNumber
<1>2. m \in Nat /\ ~ \E f : Is(f, m)
  BY <1>1
<1>3. m # 0
  <2> DEFINE f == [n \in 0 .. 0 |-> [c \in Link |-> <<>>]]
  <2>1. \A n \in 0 .. 0 : Longer(tb, f, n) = [c \in Link |-> <<>>]
    <3>1. TAKE n \in 0 .. 0
    <3>2. n = 0
      BY <3>1
    <3> HIDE DEF f
    <3> QED
      BY <3>2 DEF Longer
  <2>2. Is(f, 0)
    <3> HIDE DEF f
    <3> QED
      BY <2>1 DEF f
  <2> HIDE DEF f
  <2> QED
    BY <1>2, <2>2
<1>4. m - 1 \in Nat /\ m - 1 \notin bad
  <2> HIDE DEF bad
  <2> QED
    BY <1>1, <1>2, <1>3
<1>5. PICK f : Is(f, m - 1)
  <2> HIDE DEF Is
  <2> QED
    BY <1>4
<1> DEFINE g == [n \in 0 .. m |-> Longer(tb, f, n)]
<1>6. ASSUME NEW n \in 0 .. m - 1 PROVE g[n] = f[n]
  <2>1. f[n] = Longer(tb, f, n)
    BY <1>5, <1>6
  <2>2. g[n] = Longer(tb, f, n)
    BY <1>2, <1>4, <1>6
  <2> QED
    BY <2>1, <2>2
<1> HIDE DEF g
<1>7. ASSUME NEW n \in 0 .. m PROVE Longer(tb, f, n) = Longer(tb, g, n)
  <2>1. CASE n = 0
    BY <2>1 DEF Longer
  <2>2. CASE n # 0
    <3>1. n - 1 \in 0 .. m - 1
      BY <1>2, <1>7, <2>2
    <3>2. g[n - 1] = f[n - 1]
      BY <1>6, <3>1
    <3> QED
      BY <3>2 DEF Longer
  <2> QED
    BY <2>1, <2>2
<1>8. Is(g, m)
  BY <1>7 DEF g
<1> HIDE DEF Is
<1> QED
  BY <1>2, <1>8

\* So the walk is what its recursion says.
LEMMA WalkDef ==
    ASSUME NEW tb, NEW c \in Link, NEW n \in 0 .. NR_TASKS
    PROVE  Walk(tb)[n][c] = IF c = Nil \/ n = 0 THEN <<>> ELSE <<c>> \o Walk(tb)[n - 1][tb[c].p_osptr]
<1>1. NR_TASKS \in Nat
  BY TasksAssumption
<1>2. \E f : f = [k \in 0 .. NR_TASKS |-> Longer(tb, f, k)]
  BY <1>1, WalkExists
<1> DEFINE W == Walk(tb)
<1>3. W = [k \in 0 .. NR_TASKS |-> Longer(tb, W, k)]
  BY <1>2 DEF Walk
<1> HIDE DEF W
<1>4. W[n] = Longer(tb, W, n)
  BY <1>3
<1>5. W[n][c] = IF c = Nil \/ n = 0 THEN <<>> ELSE <<c>> \o W[n - 1][tb[c].p_osptr]
  BY <1>4 DEF Longer
<1> QED
  BY <1>5 DEF W

\* The children of a task (sys_waitpid's loop along p_osptr) are the walk from its p_cptr.
LEMMA ChildrenWalk == \A s : Children(s) = Walk(task)[NR_TASKS][task[s].p_cptr]
BY DEF Children, Walk, Longer

----------------------------------------------------------------------------
\* The neighbours in a list of children, the youngest first.
ElderIn(q, k) == IF k = Len(q) THEN Nil ELSE q[k + 1]
YoungerIn(q, k) == IF k = 1 THEN Nil ELSE q[k - 1]

\* In the table tb the links of s are those of the list q of children.
ListOf(tb, s, q) ==
    /\ q \in Seq(Slot) /\ EachOnce(q)
    /\ tb[s].p_cptr = IF q = <<>> THEN Nil ELSE q[1]
    /\ \A k \in 1 .. Len(q) :
          /\ tb[q[k]].p_pptr = s /\ tb[q[k]].state # "none" /\ q[k] # 0
          /\ tb[q[k]].p_osptr = ElderIn(q, k)
          /\ tb[q[k]].p_ysptr = YoungerIn(q, k)

\* L has the list of each slot, and every task but task 0 is in its parent's.
Lists(tb, L) ==
    /\ L \in [Slot -> Seq(Slot)]
    /\ \A s \in Slot : ListOf(tb, s, L[s])
    /\ \A c \in Slot \ {0} : tb[c].state # "none" => tb[c].p_pptr \in Slot /\ Holds(L[tb[c].p_pptr], c)

\* A list without repetition is not longer than the table.
LEMMA ListFits ==
    ASSUME NEW q \in Seq(Slot), EachOnce(q)
    PROVE  Len(q) \in 0 .. NR_TASKS
<1>1. Cardinality(ToSet(q)) = Len(q) /\ Len(q) \in Nat
  BY OnceCounts
<1>2. IsFiniteSet(Slot) /\ Cardinality(Slot) = NR_TASKS
  BY TasksAssumption, FS_Interval DEF Slot
<1>3. ToSet(q) \subseteq Slot
  <2>1. q \in [1 .. Len(q) -> Slot] /\ DOMAIN q = 1 .. Len(q)
    BY LenProperties
  <2> QED
    BY <2>1 DEF ToSet
<1>4. Cardinality(ToSet(q)) <= Cardinality(Slot)
  BY <1>2, <1>3, FS_Subset
<1> QED
  BY <1>1, <1>2, <1>4, TasksAssumption

\* The walk finds the list.
LEMMA WalkFinds ==
    ASSUME NEW tb, NEW s \in Slot, NEW q \in Seq(Slot), ListOf(tb, s, q)
    PROVE  Walk(tb)[NR_TASKS][tb[s].p_cptr] = q
<1>1. Len(q) \in 0 .. NR_TASKS /\ NR_TASKS \in Nat
  BY ListFits, TasksAssumption DEF ListOf
<1>2. \A k \in 1 .. Len(q) : q[k] \in Slot /\ q[k] \in Link /\ q[k] # Nil
  <2> SUFFICES ASSUME NEW k \in 1 .. Len(q) PROVE q[k] \in Slot /\ q[k] \in Link /\ q[k] # Nil
    OBVIOUS
  <2>1. q[k] \in Slot
    BY ElementOfSeq
  <2>2. \A x \in Slot : x # Nil
    BY TasksAssumption DEF Slot, Nil
  <2> QED
    BY <2>1, <2>2 DEF Link
<1>3. Nil \in Link
  BY DEF Link
<1>4. ASSUME NEW n \in 0 .. NR_TASKS PROVE Walk(tb)[n][Nil] = <<>>
  BY <1>3, WalkDef
<1> DEFINE From(j) == \A n \in 0 .. NR_TASKS :
                         j <= n => Walk(tb)[n][q[Len(q) - j + 1]] = SubSeq(q, Len(q) - j + 1, Len(q))
           bad == {j \in 1 .. Len(q) : ~From(j)}
<1>5. bad = {}
  <2> SUFFICES ASSUME bad # {} PROVE FALSE
    OBVIOUS
  <2>1. PICK j \in bad : \A i \in bad : j <= i
    <3>1. bad \in SUBSET Nat
      BY <1>1
    <3> HIDE DEF bad
    <3> QED
      BY <3>1, LeastNumber
  <2>2. j \in 1 .. Len(q) /\ ~From(j)
    BY <2>1
  <2>3. PICK n \in 0 .. NR_TASKS : j <= n /\ Walk(tb)[n][q[Len(q) - j + 1]] # SubSeq(q, Len(q) - j + 1, Len(q))
    BY <2>2
  <2>0. PICK l \in Nat : l = Len(q) /\ j \in 1 .. l /\ l <= NR_TASKS
    BY <1>1, <2>2
  <2>a. n \in 0 .. NR_TASKS /\ n # 0 /\ n - 1 \in 0 .. NR_TASKS /\ j - 1 <= n - 1
    <3> HIDE DEF bad, From
    <3> QED
      BY <1>1, <2>0, <2>3
  <2>4. PICK k \in 1 .. Len(q) : k = Len(q) - j + 1
    BY <2>2, <1>1
  <2>5. Walk(tb)[n][q[k]] = <<q[k]>> \o Walk(tb)[n - 1][tb[q[k]].p_osptr]
    BY <1>2, <2>a, WalkDef
  <2>6. n - 1 \in 0 .. NR_TASKS /\ j - 1 <= n - 1
    BY <2>a
  <2>7. Walk(tb)[n - 1][tb[q[k]].p_osptr] = SubSeq(q, k + 1, Len(q))
    <3>1. CASE k = Len(q)
      <4>1. tb[q[k]].p_osptr = Nil
        BY <3>1 DEF ListOf, ElderIn
      <4>2. SubSeq(q, k + 1, Len(q)) = <<>>
        BY <3>1, <1>1, SubSeqEmpty
      <4> QED
        BY <4>1, <4>2, <1>4, <2>6
    <3>2. CASE k # Len(q)
      <4>1. tb[q[k]].p_osptr = q[k + 1]
        BY <3>2 DEF ListOf, ElderIn
      <4>2. j - 1 \in 1 .. Len(q) /\ j - 1 < j /\ Len(q) - (j - 1) + 1 = k + 1
        <5> HIDE DEF bad, From
        <5>1. PICK i \in Nat : i = j
          BY <2>0
        <5>2. i \in 1 .. l /\ k = l - i + 1 /\ k # l /\ Len(q) = l
          BY <5>1, <2>0, <2>4, <3>2
        <5>3. i - 1 \in 1 .. l /\ i - 1 < i /\ l - (i - 1) + 1 = k + 1
          BY <5>2
        <5> QED
          BY <5>1, <5>2, <5>3
      <4>3. From(j - 1)
        <5> HIDE DEF From
        <5> QED
          BY <4>2, <2>1, <2>2
      <4> QED
        BY <4>1, <4>2, <4>3, <2>6
    <3> QED
      BY <3>1, <3>2
  <2>8. SubSeq(q, k, Len(q)) = <<q[k]>> \o SubSeq(q, k + 1, Len(q))
    <3>1. Len(q) \in k .. Len(q)
      BY <1>1, <2>4
    <3> QED
      BY <3>1, SubSeqRecursiveFirst
  <2> QED
    BY <2>3, <2>4, <2>5, <2>7, <2>8
<1>6. CASE q = <<>>
  BY <1>1, <1>4, <1>6 DEF ListOf
<1>7. CASE q # <<>>
  <2>1. Len(q) \in 1 .. Len(q) /\ Len(q) <= NR_TASKS
    BY <1>1, <1>7, EmptySeq
  <2>2. From(Len(q))
    <3> HIDE DEF From
    <3> QED
      BY <2>1, <1>5
  <2>3. Walk(tb)[NR_TASKS][q[Len(q) - Len(q) + 1]] = SubSeq(q, Len(q) - Len(q) + 1, Len(q))
    BY <2>1, <2>2, <1>1
  <2>4. Len(q) - Len(q) + 1 = 1
    BY <1>1
  <2>5. SubSeq(q, 1, Len(q)) = q
    BY SubSeqFull
  <2> QED
    BY <2>3, <2>4, <2>5, <1>7 DEF ListOf
<1> QED
  BY <1>6, <1>7

\* So the children of a task are those of its list.
ChildrenFit == \A L \in [Slot -> Seq(Slot)] : Lists(task, L) => \A s \in Slot : Children(s) = L[s]

\* When the links are those of lists L, the walk along p_osptr finds for each task its list of L.
LEMMA ChildrenFound == ChildrenFit
<1> SUFFICES ASSUME NEW L \in [Slot -> Seq(Slot)], Lists(task, L), NEW s \in Slot
             PROVE  Children(s) = L[s]
  BY DEF ChildrenFit
<1>1. L[s] \in Seq(Slot) /\ ListOf(task, s, L[s])
  BY DEF Lists
<1> QED
  BY <1>1, WalkFinds, ChildrenWalk

----------------------------------------------------------------------------
\* Lists with a member more or less.

\* A list with a new first member.
PushedOn(q, c, r) ==
    /\ r \in Seq(Slot) /\ EachOnce(r) /\ Len(q) \in Nat /\ Len(r) = Len(q) + 1
    /\ DOMAIN r = 1 .. Len(r) /\ r # <<>>
    /\ r[1] = c /\ ElderIn(r, 1) = (IF q = <<>> THEN Nil ELSE q[1]) /\ YoungerIn(r, 1) = Nil
    /\ \A k \in 1 .. Len(q) : /\ k + 1 \in 1 .. Len(r)
                              /\ r[k + 1] = q[k] /\ ElderIn(r, k + 1) = ElderIn(q, k)
                              /\ YoungerIn(r, k + 1) = IF k = 1 THEN c ELSE YoungerIn(q, k)
    /\ \A j \in 1 .. Len(r) : j # 1 => \E k \in 1 .. Len(q) : j = k + 1

\* A new youngest child in front of a list moves every other member one place up.
LEMMA Pushed ==
    ASSUME NEW q \in Seq(Slot), EachOnce(q), NEW c \in Slot, ~Holds(q, c), NEW r, r = <<c>> \o q
    PROVE  PushedOn(q, c, r)
<1>1. Len(q) \in Nat /\ DOMAIN q = 1 .. Len(q) /\ (q = <<>> <=> Len(q) = 0)
  BY LenProperties, EmptySeq
<1> DEFINE one == <<c>>
<1>2. one \in Seq(Slot) /\ Len(one) = 1 /\ one[1] = c /\ EachOnce(one) /\ DOMAIN one = 1 .. 1
  BY DEF EachOnce
<1> HIDE DEF one
<1>3. r = one \o q
  BY DEF one
<1>4. /\ r \in Seq(Slot) /\ Len(r) = 1 + Len(q)
      /\ \A i \in 1 .. 1 + Len(q) : r[i] = IF i <= 1 THEN one[i] ELSE q[i - 1]
  BY <1>2, <1>3, ConcatProperties
<1>5. EachOnce(r)
  <2>1. \A i \in DOMAIN one : \A j \in DOMAIN q : one[i] # q[j]
    BY <1>2 DEF Holds
  <2> QED
    BY <1>2, <1>3, <2>1, JoinedOnce
<1>6. DOMAIN r = 1 .. Len(r) /\ r # <<>>
  BY <1>1, <1>4, LenProperties, EmptySeq
<1>7. r[1] = c /\ YoungerIn(r, 1) = Nil
  BY <1>1, <1>2, <1>4 DEF YoungerIn
<1>8. ASSUME NEW k \in 1 .. Len(q) PROVE k + 1 \in 1 .. Len(r) /\ r[k + 1] = q[k]
  <2>1. k + 1 \in 1 .. 1 + Len(q) /\ ~(k + 1 <= 1) /\ k + 1 - 1 = k
    BY <1>1
  <2> QED
    BY <1>4, <2>1
<1>9. ElderIn(r, 1) = IF q = <<>> THEN Nil ELSE q[1]
  <2>1. CASE q = <<>>
    BY <1>1, <1>4, <2>1 DEF ElderIn
  <2>2. CASE q # <<>>
    <3>1. 1 \in 1 .. Len(q) /\ 1 # Len(r)
      BY <1>1, <1>4, <2>2
    <3>2. r[1 + 1] = q[1]
      BY <1>8, <3>1
    <3> QED
      BY <2>2, <3>1, <3>2 DEF ElderIn
  <2> QED
    BY <2>1, <2>2
<1>10. ASSUME NEW k \in 1 .. Len(q) PROVE ElderIn(r, k + 1) = ElderIn(q, k)
  <2>1. CASE k = Len(q)
    BY <1>1, <1>4, <2>1 DEF ElderIn
  <2>2. CASE k # Len(q)
    <3>1. PICK m \in 1 .. Len(q) : m = k + 1
      <4>1. k + 1 \in 1 .. Len(q)
        <5>1. PICK l \in Nat : l = Len(q)
          BY <1>1
        <5>2. k \in 1 .. l /\ k # l
          BY <5>1, <2>2
        <5>3. k + 1 \in 1 .. l
          BY <5>2
        <5> QED
          BY <5>1, <5>3
      <4> QED
        BY <4>1
    <3>2. r[m + 1] = q[m] /\ m # Len(r)
      BY <1>1, <1>4, <1>8, <3>1
    <3> QED
      BY <2>2, <3>1, <3>2 DEF ElderIn
  <2> QED
    BY <2>1, <2>2
<1>11. ASSUME NEW k \in 1 .. Len(q) PROVE YoungerIn(r, k + 1) = IF k = 1 THEN c ELSE YoungerIn(q, k)
  <2>1. k + 1 # 1 /\ k + 1 - 1 = k
    BY <1>1
  <2>2. YoungerIn(r, k + 1) = r[k]
    BY <2>1 DEF YoungerIn
  <2>3. CASE k = 1
    BY <1>7, <2>2, <2>3
  <2>4. CASE k # 1
    <3>1. PICK m \in 1 .. Len(q) : k = m + 1 /\ k - 1 = m
      <4>1. k - 1 \in 1 .. Len(q) /\ k = (k - 1) + 1
        BY <1>1, <2>4
      <4> QED
        BY <4>1
    <3>2. r[k] = q[m]
      BY <1>8, <3>1
    <3> QED
      BY <2>2, <2>4, <3>1, <3>2 DEF YoungerIn
  <2> QED
    BY <2>3, <2>4
<1>12. ASSUME NEW j \in 1 .. Len(r), j # 1 PROVE \E k \in 1 .. Len(q) : j = k + 1
  <2>1. j - 1 \in 1 .. Len(q) /\ j = (j - 1) + 1
    BY <1>1, <1>4, <1>12
  <2> QED
    BY <2>1
<1> QED
  BY <1>1, <1>4, <1>5, <1>6, <1>7, <1>8, <1>9, <1>10, <1>11, <1>12 DEF PushedOn

\* Two lists that are not empty and have no common member, behind each other.
JoinedOn(q, o, r) ==
    /\ r \in Seq(Slot) /\ EachOnce(r) /\ DOMAIN r = 1 .. Len(r) /\ r # <<>> /\ r[1] = q[1]
    /\ \A k \in 1 .. Len(q) : /\ k \in 1 .. Len(r) /\ r[k] = q[k] /\ YoungerIn(r, k) = YoungerIn(q, k)
                              /\ ElderIn(r, k) = IF k = Len(q) THEN o[1] ELSE ElderIn(q, k)
    /\ \A k \in 1 .. Len(o) : /\ Len(q) + k \in 1 .. Len(r) /\ r[Len(q) + k] = o[k]
                              /\ ElderIn(r, Len(q) + k) = ElderIn(o, k)
                              /\ YoungerIn(r, Len(q) + k) = IF k = 1 THEN q[Len(q)] ELSE YoungerIn(o, k)
    /\ \A j \in 1 .. Len(r) : j \in 1 .. Len(q) \/ \E k \in 1 .. Len(o) : j = Len(q) + k

\* What concatenation does to the neighbours.
LEMMA Joined ==
    ASSUME NEW q \in Seq(Slot), NEW o \in Seq(Slot), EachOnce(q), EachOnce(o), q # <<>>, o # <<>>,
           \A i \in DOMAIN q : \A j \in DOMAIN o : q[i] # o[j], NEW r, r = q \o o
    PROVE  JoinedOn(q, o, r)
<1>1. PICK m \in Nat : m = Len(q) /\ DOMAIN q = 1 .. m /\ m # 0
  BY LenProperties, EmptySeq
<1>2. PICK n \in Nat : n = Len(o) /\ DOMAIN o = 1 .. n /\ n # 0
  BY LenProperties, EmptySeq
<1>3. r \in Seq(Slot) /\ Len(r) = m + n /\ \A i \in 1 .. m + n : r[i] = IF i <= m THEN q[i] ELSE o[i - m]
  BY <1>1, <1>2, ConcatProperties
<1>4. EachOnce(r)
  BY JoinedOnce
<1>5. DOMAIN r = 1 .. m + n /\ r # <<>>
  BY <1>1, <1>2, <1>3, LenProperties, EmptySeq
<1>6. ASSUME NEW k \in 1 .. m PROVE k \in 1 .. m + n /\ r[k] = q[k]
  BY <1>3
<1>7. ASSUME NEW k \in 1 .. n PROVE m + k \in 1 .. m + n /\ r[m + k] = o[k]
  <2>1. m + k \in 1 .. m + n /\ ~(m + k <= m) /\ m + k - m = k
    OBVIOUS
  <2> QED
    BY <1>3, <2>1
<1>8. ASSUME NEW k \in 1 .. m PROVE ElderIn(r, k) = IF k = m THEN o[1] ELSE ElderIn(q, k)
  <2>1. k # m + n
    BY <1>2
  <2>2. ElderIn(r, k) = r[k + 1]
    BY <1>3, <2>1 DEF ElderIn
  <2>0. k = m \/ k # m
    OBVIOUS
  <2>3. CASE k = m
    <3>1. 1 \in 1 .. n
      BY <1>2
    <3>2. r[m + 1] = o[1]
      BY <1>7, <3>1
    <3> QED
      BY <2>2, <2>3, <3>2
  <2>4. CASE k # m
    <3>1. k + 1 \in 1 .. m
      BY <2>4
    <3> QED
      BY <1>1, <1>6, <2>2, <2>4, <3>1 DEF ElderIn
  <2> QED
    BY <2>0, <2>3, <2>4
<1>9. ASSUME NEW k \in 1 .. m PROVE YoungerIn(r, k) = YoungerIn(q, k)
  <2>1. k # 1 => k - 1 \in 1 .. m
    OBVIOUS
  <2> QED
    BY <1>6, <2>1 DEF YoungerIn
<1>10. ASSUME NEW k \in 1 .. n PROVE ElderIn(r, m + k) = ElderIn(o, k)
  <2>1. CASE k = n
    BY <1>2, <1>3, <2>1 DEF ElderIn
  <2>2. CASE k # n
    <3>1. k + 1 \in 1 .. n /\ m + (k + 1) = m + k + 1 /\ m + k # m + n
      BY <2>2
    <3>2. r[m + (k + 1)] = o[k + 1]
      BY <1>7, <3>1
    <3> QED
      BY <1>2, <1>3, <2>2, <3>1, <3>2 DEF ElderIn
  <2> QED
    BY <2>1, <2>2
<1>11. ASSUME NEW k \in 1 .. n PROVE YoungerIn(r, m + k) = IF k = 1 THEN q[m] ELSE YoungerIn(o, k)
  <2>0. PICK j \in Nat : j = m + k /\ j # 1 /\ j - 1 = m + (k - 1)
    <3>1. m + k \in Nat /\ m + k # 1 /\ (m + k) - 1 = m + (k - 1)
      BY <1>1
    <3> QED
      BY <3>1
  <2>1. YoungerIn(r, m + k) = r[m + (k - 1)]
    BY <2>0 DEF YoungerIn
  <2>2. CASE k = 1
    <3>1. m + (k - 1) = m /\ m \in 1 .. m
      BY <1>1, <2>2
    <3> QED
      BY <1>6, <2>1, <2>2, <3>1
  <2>3. CASE k # 1
    <3>1. k - 1 \in 1 .. n
      BY <2>3
    <3>2. r[m + (k - 1)] = o[k - 1]
      BY <1>7, <3>1
    <3> QED
      BY <2>1, <2>3, <3>2 DEF YoungerIn
  <2> QED
    BY <2>2, <2>3
<1>12. ASSUME NEW j \in 1 .. m + n PROVE j \in 1 .. m \/ \E k \in 1 .. n : j = m + k
  <2>1. CASE j > m
    <3>1. j - m \in 1 .. n /\ j = m + (j - m)
      BY <2>1
    <3> QED
      BY <3>1
  <2> QED
    BY <2>1
<1>13. r[1] = q[1]
  BY <1>1, <1>6
<1> QED
  BY <1>1, <1>2, <1>3, <1>4, <1>5, <1>6, <1>7, <1>8, <1>9, <1>10, <1>11, <1>12, <1>13 DEF JoinedOn

\* A list without its i-th member.
CutFrom(q, i, r) ==
    /\ r \in Seq(Slot) /\ EachOnce(r) /\ DOMAIN r = 1 .. Len(r)
    /\ (IF r = <<>> THEN Nil ELSE r[1]) = (IF i = 1 THEN ElderIn(q, 1) ELSE q[1])
    /\ \A k \in 1 .. Len(q) : k < i =>
          /\ k \in 1 .. Len(r) /\ r[k] = q[k] /\ YoungerIn(r, k) = YoungerIn(q, k)
          /\ ElderIn(r, k) = IF k = i - 1 THEN ElderIn(q, i) ELSE ElderIn(q, k)
    /\ \A k \in 1 .. Len(q) : k > i =>
          /\ k - 1 \in 1 .. Len(r) /\ r[k - 1] = q[k] /\ ElderIn(r, k - 1) = ElderIn(q, k)
          /\ YoungerIn(r, k - 1) = IF k = i + 1 THEN YoungerIn(q, i) ELSE YoungerIn(q, k)
    /\ \A j \in 1 .. Len(r) : \E k \in 1 .. Len(q) : (k < i /\ j = k) \/ (k > i /\ j = k - 1)

\* What RemoveFirst does to the neighbours.
LEMMA Cut ==
    ASSUME NEW q \in Seq(Slot), EachOnce(q), NEW i \in 1 .. Len(q), NEW r, r = RemoveFirst(q, q[i])
    PROVE  CutFrom(q, i, r)
<1>1. PICK l \in Nat : l = Len(q) /\ DOMAIN q = 1 .. l /\ i \in 1 .. l
  BY LenProperties
<1>2. Holds(q, q[i])
  BY <1>1 DEF Holds
<1>3. PICK p \in 1 .. l :
           /\ q[p] = q[i]
           /\ r \in Seq(Slot) /\ Len(r) = l - 1 /\ DOMAIN r = 1 .. l - 1
           /\ \A k \in 1 .. l - 1 : r[k] = IF k < p THEN q[k] ELSE q[k + 1]
  <2>1. \E p \in 1 .. Len(q) :
              /\ q[p] = q[i]
              /\ r \in Seq(Slot) /\ Len(r) = Len(q) - 1 /\ DOMAIN r = 1 .. Len(q) - 1
              /\ \A k \in 1 .. Len(q) - 1 : r[k] = IF k < p THEN q[k] ELSE q[k + 1]
    <3>1. PICK x : x = q[i]
      OBVIOUS
    <3>2. Holds(q, x) /\ r = RemoveFirst(q, x)
      BY <1>2, <3>1
    <3>3. \E k \in 1 .. Len(q) :
              /\ q[k] = x
              /\ RemoveFirst(q, x) \in Seq(Slot) /\ Len(RemoveFirst(q, x)) = Len(q) - 1
              /\ DOMAIN RemoveFirst(q, x) = 1 .. Len(q) - 1
              /\ \A j \in 1 .. Len(q) - 1 : RemoveFirst(q, x)[j] = IF j < k THEN q[j] ELSE q[j + 1]
      BY <3>2, RemovedPlaces
    <3> QED
      BY <3>1, <3>2, <3>3
  <2> QED
    BY <1>1, <2>1
<1>4. p = i
  BY <1>1, <1>3 DEF EachOnce
<1>5. EachOnce(r)
  BY RemovedOnce
<1>6. ASSUME NEW k \in 1 .. l, k < i PROVE k \in 1 .. l - 1 /\ r[k] = q[k]
  <2>1. k \in 1 .. l - 1
    BY <1>1, <1>6
  <2> QED
    BY <1>3, <1>4, <1>6, <2>1
<1>7. ASSUME NEW k \in 1 .. l, k > i PROVE k - 1 \in 1 .. l - 1 /\ r[k - 1] = q[k]
  <2>1. k - 1 \in 1 .. l - 1 /\ ~(k - 1 < i) /\ k - 1 + 1 = k
    BY <1>1, <1>7
  <2> QED
    BY <1>3, <1>4, <2>1
<1>8. ASSUME NEW k \in 1 .. l, k < i PROVE YoungerIn(r, k) = YoungerIn(q, k)
  <2>1. k # 1 => k - 1 \in 1 .. l /\ k - 1 < i
    BY <1>1, <1>8
  <2> QED
    BY <1>6, <2>1 DEF YoungerIn
<1>9. ASSUME NEW k \in 1 .. l, k < i
      PROVE  ElderIn(r, k) = IF k = i - 1 THEN ElderIn(q, i) ELSE ElderIn(q, k)
  <2>1. CASE k = i - 1 /\ i = l
    <3>1. k = l - 1
      BY <2>1
    <3> QED
      BY <1>1, <1>3, <2>1, <3>1 DEF ElderIn
  <2>2. CASE k = i - 1 /\ i # l
    <3>1. i + 1 \in 1 .. l /\ i + 1 > i /\ i + 1 - 1 = i /\ k + 1 = i /\ k # l - 1
      BY <1>1, <2>2
    <3>2. r[k + 1] = q[i + 1]
      BY <1>7, <3>1
    <3> QED
      BY <1>1, <1>3, <2>2, <3>1, <3>2 DEF ElderIn
  <2>3. CASE k # i - 1
    <3>1. k + 1 \in 1 .. l /\ k + 1 < i /\ k # l - 1 /\ k # l
      BY <1>1, <1>9, <2>3
    <3>2. r[k + 1] = q[k + 1]
      BY <1>6, <3>1
    <3> QED
      BY <1>1, <1>3, <2>3, <3>1, <3>2 DEF ElderIn
  <2> QED
    BY <2>1, <2>2, <2>3
<1>10. ASSUME NEW k \in 1 .. l, k > i PROVE ElderIn(r, k - 1) = ElderIn(q, k)
  <2>1. CASE k = l
    BY <1>1, <1>3, <2>1 DEF ElderIn
  <2>2. CASE k # l
    <3>1. k + 1 \in 1 .. l /\ k + 1 > i /\ k + 1 - 1 = k /\ k - 1 # l - 1 /\ k - 1 + 1 = k
      BY <1>1, <1>10, <2>2
    <3>2. r[k] = q[k + 1]
      BY <1>7, <3>1
    <3> QED
      BY <1>1, <1>3, <2>2, <3>1, <3>2 DEF ElderIn
  <2> QED
    BY <2>1, <2>2
<1>11. ASSUME NEW k \in 1 .. l, k > i
       PROVE  YoungerIn(r, k - 1) = IF k = i + 1 THEN YoungerIn(q, i) ELSE YoungerIn(q, k)
  <2>1. CASE k = i + 1
    <3>1. k - 1 = i /\ (i # 1 => i - 1 \in 1 .. l /\ i - 1 < i)
      BY <1>1, <2>1
    <3>2. i # 1 => r[i - 1] = q[i - 1]
      BY <1>6, <3>1
    <3> QED
      BY <2>1, <3>1, <3>2 DEF YoungerIn
  <2>2. CASE k # i + 1
    <3>1. k - 1 \in 1 .. l /\ k - 1 > i /\ k - 1 # 1 /\ k # 1
      BY <1>1, <1>11, <2>2
    <3>2. r[k - 1 - 1] = q[k - 1]
      BY <1>7, <3>1
    <3> QED
      BY <2>2, <3>1, <3>2 DEF YoungerIn
  <2> QED
    BY <2>1, <2>2
<1>12. ASSUME NEW j \in 1 .. l - 1 PROVE \E k \in 1 .. l : (k < i /\ j = k) \/ (k > i /\ j = k - 1)
  <2>1. CASE j < i
    BY <1>1, <2>1
  <2>2. CASE j >= i
    <3>1. j + 1 \in 1 .. l /\ j + 1 > i /\ j = j + 1 - 1
      BY <1>1, <2>2
    <3> QED
      BY <3>1
  <2>3. j < i \/ j >= i
    BY <1>1
  <2> QED
    BY <2>1, <2>2, <2>3
<1>13. (IF r = <<>> THEN Nil ELSE r[1]) = (IF i = 1 THEN ElderIn(q, 1) ELSE q[1])
  <2>0. r = <<>> <=> l = 1
    BY <1>1, <1>3, EmptySeq
  <2>1. CASE i # 1
    <3>1. 1 \in 1 .. l /\ 1 < i /\ l # 1
      BY <1>1, <2>1
    <3> QED
      BY <1>6, <2>0, <2>1, <3>1
  <2>2. CASE i = 1 /\ l = 1
    BY <1>1, <2>0, <2>2 DEF ElderIn
  <2>3. CASE i = 1 /\ l # 1
    <3>1. 2 \in 1 .. l /\ 2 > i
      BY <1>1, <2>3
    <3>2. r[2 - 1] = q[2]
      BY <1>7, <3>1
    <3> QED
      BY <1>1, <2>0, <2>3, <3>2 DEF ElderIn
  <2> QED
    BY <2>1, <2>2, <2>3
<1> QED
  BY <1>1, <1>3, <1>5, <1>6, <1>7, <1>8, <1>9, <1>10, <1>11, <1>12, <1>13 DEF CutFrom

\* The members of a list in the table.
LEMMA Member ==
    ASSUME NEW tb, NEW L, Lists(tb, L), NEW s \in Slot
    PROVE  /\ L[s] \in Seq(Slot) /\ EachOnce(L[s]) /\ Len(L[s]) \in Nat /\ DOMAIN L[s] = 1 .. Len(L[s])
           /\ tb[s].p_cptr = IF L[s] = <<>> THEN Nil ELSE L[s][1]
           /\ L[s] # <<>> => 1 \in 1 .. Len(L[s])
           /\ \A k \in 1 .. Len(L[s]) :
                 /\ L[s] # <<>> /\ L[s][k] \in Slot \ {0} /\ L[s][k] # Nil
                 /\ tb[L[s][k]].p_pptr = s /\ tb[L[s][k]].state # "none"
                 /\ tb[L[s][k]].p_osptr = ElderIn(L[s], k)
                 /\ tb[L[s][k]].p_ysptr = YoungerIn(L[s], k)
<1>0. PICK q : q = L[s]
  OBVIOUS
<1>1. q \in Seq(Slot) /\ ListOf(tb, s, q)
  BY <1>0 DEF Lists
<1>2. Len(q) \in Nat /\ DOMAIN q = 1 .. Len(q) /\ (q # <<>> => Len(q) >= 1) /\ (q = <<>> => Len(q) = 0)
  BY <1>1, LenProperties, EmptySeq
<1>3. ASSUME NEW k \in 1 .. Len(q)
      PROVE  q # <<>> /\ q[k] \in Slot \ {0} /\ q[k] # Nil
  <2>1. q[k] \in Slot /\ q[k] # 0
    BY <1>1, <1>3, ElementOfSeq DEF ListOf
  <2>2. \A x \in Slot : x # Nil
    BY TasksAssumption DEF Slot, Nil
  <2>3. Len(q) # 0
    BY <1>2, <1>3
  <2> QED
    BY <2>1, <2>2, <2>3, <1>2
<1>4. q # <<>> => 1 \in 1 .. Len(q)
  BY <1>2
<1> QED
  BY <1>0, <1>1, <1>2, <1>3, <1>4 DEF ListOf

----------------------------------------------------------------------------
\* What fork, exit and release do to the lists.

\* Steps that leave the links alone.
SameLinks(tb, tb2) ==
    \A s \in Slot : /\ tb2[s].p_pptr = tb[s].p_pptr /\ tb2[s].p_cptr = tb[s].p_cptr
                    /\ tb2[s].p_osptr = tb[s].p_osptr /\ tb2[s].p_ysptr = tb[s].p_ysptr
                    /\ (tb2[s].state = "none") <=> (tb[s].state = "none")

\* A step that leaves the links alone leaves the lists alone.
LEMMA ListsSame ==
    ASSUME NEW tb, NEW tb2, NEW L, Lists(tb, L), SameLinks(tb, tb2)
    PROVE  Lists(tb2, L)
<1>1. ASSUME NEW s \in Slot PROVE ListOf(tb2, s, L[s])
  <2>1. PICK p : p = L[s]
    OBVIOUS
  <2>2. /\ p \in Seq(Slot) /\ EachOnce(p)
        /\ tb[s].p_cptr = IF p = <<>> THEN Nil ELSE p[1]
        /\ \A k \in 1 .. Len(p) :
              /\ p[k] \in Slot \ {0}
              /\ tb[p[k]].p_pptr = s /\ tb[p[k]].state # "none"
              /\ tb[p[k]].p_osptr = ElderIn(p, k)
              /\ tb[p[k]].p_ysptr = YoungerIn(p, k)
    BY <2>1, Member
  <2> QED
    BY <2>1, <2>2 DEF ListOf, SameLinks
<1> QED
  BY <1>1 DEF Lists, SameLinks

\* copy_process links a child in front of its parent's list (fork.c).
Born(tb, tb2, t, c) ==
    /\ tb[t].state # "none" /\ tb[c].state = "none" /\ tb[c].p_cptr = Nil
    /\ tb2[c].state # "none" /\ tb2[c].p_pptr = t /\ tb2[c].p_cptr = Nil
    /\ tb2[c].p_ysptr = Nil /\ tb2[c].p_osptr = tb[t].p_cptr
    /\ \A s \in Slot \ {c} :
          /\ tb2[s].p_pptr = tb[s].p_pptr /\ tb2[s].p_osptr = tb[s].p_osptr
          /\ tb2[s].p_cptr = IF s = t THEN c ELSE tb[s].p_cptr
          /\ tb2[s].p_ysptr = IF s = tb[t].p_cptr THEN c ELSE tb[s].p_ysptr
          /\ (tb2[s].state = "none") <=> (tb[s].state = "none")

\* After a fork by t (SET_LINKS) the links are those of the lists with the child c in front of t's.
LEMMA ListsBorn ==
    ASSUME NEW tb, NEW tb2, NEW L, Lists(tb, L), NEW t \in Slot, NEW c \in Slot \ {0}, Born(tb, tb2, t, c)
    PROVE  Lists(tb2, [L EXCEPT ![t] = <<c>> \o L[t]])
<1>1. L \in [Slot -> Seq(Slot)] /\ t # c
  BY DEF Lists, Born
<1>2. PICK q : q = L[t]
  OBVIOUS
<1>3. PICK r : r = <<c>> \o q
  OBVIOUS
<1>4. PICK M : M = [L EXCEPT ![t] = r]
  OBVIOUS
<1>5. /\ q \in Seq(Slot) /\ EachOnce(q) /\ Len(q) \in Nat /\ DOMAIN q = 1 .. Len(q)
      /\ tb[t].p_cptr = IF q = <<>> THEN Nil ELSE q[1]
      /\ q # <<>> => 1 \in 1 .. Len(q)
      /\ \A k \in 1 .. Len(q) :
            /\ q # <<>> /\ q[k] \in Slot \ {0} /\ q[k] # Nil
            /\ tb[q[k]].p_pptr = t /\ tb[q[k]].state # "none"
            /\ tb[q[k]].p_osptr = ElderIn(q, k)
            /\ tb[q[k]].p_ysptr = YoungerIn(q, k)
  BY <1>2, Member
<1>6. \A k \in 1 .. Len(q) : q[k] # c
  BY <1>5 DEF Born
<1>7. ~Holds(q, c) /\ c \in Slot
  BY <1>5, <1>6 DEF Holds
<1>a. PushedOn(q, c, r)
  BY <1>3, <1>5, <1>7, Pushed
<1>8. /\ r \in Seq(Slot) /\ EachOnce(r) /\ Len(q) \in Nat /\ Len(r) = Len(q) + 1
      /\ DOMAIN r = 1 .. Len(r) /\ r # <<>>
      /\ r[1] = c /\ ElderIn(r, 1) = (IF q = <<>> THEN Nil ELSE q[1]) /\ YoungerIn(r, 1) = Nil
      /\ \A k \in 1 .. Len(q) : /\ k + 1 \in 1 .. Len(r)
                                /\ r[k + 1] = q[k] /\ ElderIn(r, k + 1) = ElderIn(q, k)
                                /\ YoungerIn(r, k + 1) = IF k = 1 THEN c ELSE YoungerIn(q, k)
      /\ \A j \in 1 .. Len(r) : j # 1 => \E k \in 1 .. Len(q) : j = k + 1
  BY <1>a DEF PushedOn
<1>9. ListOf(tb2, t, r)
  <2>1. tb2[t].p_cptr = r[1]
    BY <1>1, <1>8 DEF Born
  <2>2. ASSUME NEW j \in 1 .. Len(r)
        PROVE  /\ tb2[r[j]].p_pptr = t /\ tb2[r[j]].state # "none" /\ r[j] # 0
               /\ tb2[r[j]].p_osptr = ElderIn(r, j) /\ tb2[r[j]].p_ysptr = YoungerIn(r, j)
    <3>1. CASE j = 1
      <4>1. tb[t].p_cptr = ElderIn(r, 1)
        BY <1>5, <1>8
      <4> QED
        BY <3>1, <4>1, <1>8 DEF Born
    <3>2. CASE j # 1
      <4>1. PICK k \in 1 .. Len(q) : j = k + 1
        BY <3>2, <1>8
      <4>2. /\ r[j] = q[k] /\ ElderIn(r, j) = ElderIn(q, k) /\ q[k] \in Slot \ {c} /\ q[k] # 0
            /\ YoungerIn(r, j) = IF k = 1 THEN c ELSE YoungerIn(q, k)
        BY <4>1, <1>5, <1>6, <1>8
      <4>3. q[k] = tb[t].p_cptr <=> k = 1
        BY <1>5 DEF EachOnce
      <4>4. /\ tb2[q[k]].p_pptr = t /\ tb2[q[k]].state # "none" /\ tb2[q[k]].p_osptr = ElderIn(q, k)
            /\ tb2[q[k]].p_ysptr = IF k = 1 THEN c ELSE YoungerIn(q, k)
        BY <1>5, <4>2, <4>3 DEF Born
      <4> QED
        BY <4>2, <4>4
    <3> QED
      BY <3>1, <3>2
  <2> QED
    BY <2>1, <2>2, <1>8 DEF ListOf
<1>10. ASSUME NEW s \in Slot, s # t PROVE ListOf(tb2, s, L[s])
  <2>1. PICK p : p = L[s]
    OBVIOUS
  <2>2. /\ p \in Seq(Slot) /\ EachOnce(p) /\ Len(p) \in Nat /\ DOMAIN p = 1 .. Len(p)
        /\ tb[s].p_cptr = IF p = <<>> THEN Nil ELSE p[1]
        /\ p # <<>> => 1 \in 1 .. Len(p)
        /\ \A k \in 1 .. Len(p) :
              /\ p # <<>> /\ p[k] \in Slot \ {0} /\ p[k] # Nil
              /\ tb[p[k]].p_pptr = s /\ tb[p[k]].state # "none"
              /\ tb[p[k]].p_osptr = ElderIn(p, k)
              /\ tb[p[k]].p_ysptr = YoungerIn(p, k)
    BY <2>1, Member
  <2>3. \A k \in 1 .. Len(p) : p[k] \in Slot \ {c} /\ p[k] # tb[t].p_cptr
    BY <2>2, <1>5, <1>10 DEF Born
  <2>4. tb2[s].p_cptr = IF p = <<>> THEN Nil ELSE p[1]
    <3>1. CASE s = c
      <4>1. p = <<>>
        BY <3>1, <2>2 DEF Born
      <4> QED
        BY <3>1, <4>1 DEF Born
    <3>2. CASE s # c
      BY <3>2, <1>10, <2>2 DEF Born
    <3> QED
      BY <3>1, <3>2
  <2>5. ASSUME NEW k \in 1 .. Len(p)
        PROVE  /\ tb2[p[k]].p_pptr = s /\ tb2[p[k]].state # "none" /\ p[k] # 0
               /\ tb2[p[k]].p_osptr = ElderIn(p, k) /\ tb2[p[k]].p_ysptr = YoungerIn(p, k)
    BY <2>2, <2>3 DEF Born
  <2> QED
    BY <2>1, <2>2, <2>4, <2>5 DEF ListOf
<1>11. M \in [Slot -> Seq(Slot)] /\ M[t] = r /\ \A s \in Slot \ {t} : M[s] = L[s]
  BY <1>1, <1>4, <1>8
<1>12. ASSUME NEW d \in Slot \ {0}, tb2[d].state # "none"
       PROVE  tb2[d].p_pptr \in Slot /\ Holds(M[tb2[d].p_pptr], d)
  <2>1. CASE d = c
    <3>1. Holds(r, c)
      <4>1. 1 \in DOMAIN r /\ r[1] = c
        BY <1>8
      <4> QED
        BY <4>1 DEF Holds
    <3> QED
      BY <3>1, <2>1, <1>11 DEF Born
  <2>2. CASE d # c
    <3>1. PICK p \in Slot : p = tb[d].p_pptr /\ Holds(L[p], d) /\ tb2[d].p_pptr = p
      BY <2>2, <1>12 DEF Lists, Born
    <3>2. CASE p # t
      BY <3>1, <3>2, <1>11
    <3>3. CASE p = t
      <4>1. PICK k \in 1 .. Len(q) : q[k] = d
        BY <3>1, <3>3, <1>2, <1>5 DEF Holds
      <4>2. k + 1 \in DOMAIN r /\ r[k + 1] = d
        BY <4>1, <1>8
      <4>3. Holds(r, d)
        BY <4>2 DEF Holds
      <4> QED
        BY <3>1, <3>3, <4>3, <1>11
    <3> QED
      BY <3>2, <3>3
  <2> QED
    BY <2>1, <2>2
<1>13. Lists(tb2, M)
  BY <1>9, <1>10, <1>11, <1>12 DEF Lists
<1> QED
  BY <1>2, <1>3, <1>4, <1>13

\* do_exit puts the children of t in front of init's.
Inherited(tb, tb2, t, q, o) ==
    /\ tb2[1].p_cptr = q[1] /\ tb2[t].p_cptr = Nil
    /\ \A s \in Slot :
          /\ tb2[s].p_pptr = IF Holds(q, s) THEN 1 ELSE tb[s].p_pptr
          /\ tb2[s].p_osptr = IF s = q[Len(q)] THEN o[1] ELSE tb[s].p_osptr
          /\ tb2[s].p_ysptr = IF s = o[1] THEN q[Len(q)] ELSE tb[s].p_ysptr
          /\ s \notin {1, t} => tb2[s].p_cptr = tb[s].p_cptr
          /\ (tb2[s].state = "none") <=> (tb[s].state = "none")

\* The lists after it.
LEMMA ListsInherited ==
    ASSUME NEW tb, NEW tb2, NEW L, Lists(tb, L), NEW t \in Slot \ {1}, L[t] # <<>>, L[1] # <<>>,
           Inherited(tb, tb2, t, L[t], L[1])
    PROVE  Lists(tb2, [L EXCEPT ![1] = L[t] \o L[1], ![t] = <<>>])
<1>0. 1 \in Slot /\ t \in Slot /\ t # 1 /\ L \in [Slot -> Seq(Slot)]
  BY TasksAssumption DEF Slot, Lists
<1>1. PICK q : q = L[t]
  OBVIOUS
<1>2. PICK o : o = L[1]
  OBVIOUS
<1>3. PICK r : r = q \o o
  OBVIOUS
<1>4. PICK M : M = [L EXCEPT ![1] = r, ![t] = <<>>]
  OBVIOUS
<1>5. Inherited(tb, tb2, t, q, o) /\ q # <<>> /\ o # <<>>
  BY <1>1, <1>2
<1>6. /\ q \in Seq(Slot) /\ EachOnce(q) /\ Len(q) \in Nat /\ DOMAIN q = 1 .. Len(q)
      /\ 1 \in 1 .. Len(q)
      /\ \A k \in 1 .. Len(q) :
            /\ q[k] \in Slot \ {0} /\ q[k] # Nil
            /\ tb[q[k]].p_pptr = t /\ tb[q[k]].state # "none"
            /\ tb[q[k]].p_osptr = ElderIn(q, k)
            /\ tb[q[k]].p_ysptr = YoungerIn(q, k)
  BY <1>0, <1>1, <1>5, Member
<1>7. /\ o \in Seq(Slot) /\ EachOnce(o) /\ Len(o) \in Nat /\ DOMAIN o = 1 .. Len(o)
      /\ 1 \in 1 .. Len(o)
      /\ \A k \in 1 .. Len(o) :
            /\ o[k] \in Slot \ {0} /\ o[k] # Nil
            /\ tb[o[k]].p_pptr = 1 /\ tb[o[k]].state # "none"
            /\ tb[o[k]].p_osptr = ElderIn(o, k)
            /\ tb[o[k]].p_ysptr = YoungerIn(o, k)
  BY <1>0, <1>2, <1>5, Member
<1>8. \A i \in 1 .. Len(q) : \A j \in 1 .. Len(o) : q[i] # o[j]
  BY <1>0, <1>6, <1>7
<1>9. JoinedOn(q, o, r)
  <2>1. q \in Seq(Slot) /\ o \in Seq(Slot) /\ EachOnce(q) /\ EachOnce(o) /\ q # <<>> /\ o # <<>>
    BY <1>5, <1>6, <1>7
  <2>2. \A i \in DOMAIN q : \A j \in DOMAIN o : q[i] # o[j]
    BY <1>6, <1>7, <1>8
  <2> QED
    BY <1>3, <2>1, <2>2, Joined
<1>10. Len(q) \in 1 .. Len(q)
  BY <1>6
<1>11. ListOf(tb2, 1, r)
  <2>1. ASSUME NEW k \in 1 .. Len(q)
        PROVE  /\ tb2[q[k]].p_pptr = 1 /\ tb2[q[k]].state # "none" /\ q[k] # 0
               /\ tb2[q[k]].p_osptr = IF k = Len(q) THEN o[1] ELSE ElderIn(q, k)
               /\ tb2[q[k]].p_ysptr = YoungerIn(q, k)
    <3>1. Holds(q, q[k]) /\ q[k] # o[1] /\ (q[k] = q[Len(q)] <=> k = Len(q))
      BY <1>6, <1>7, <1>8, <1>10 DEF Holds, EachOnce
    <3>2. PICK c \in Slot \ {0} : c = q[k]
      BY <1>6
    <3>3. /\ tb2[c].p_pptr = 1 /\ tb2[c].p_osptr = (IF c = q[Len(q)] THEN o[1] ELSE tb[c].p_osptr)
          /\ tb2[c].p_ysptr = tb[c].p_ysptr /\ (tb2[c].state = "none" <=> tb[c].state = "none")
      BY <1>5, <3>1, <3>2 DEF Inherited
    <3>4. tb[c].state # "none" /\ tb[c].p_osptr = ElderIn(q, k) /\ tb[c].p_ysptr = YoungerIn(q, k)
      BY <1>6, <3>2
    <3> QED
      BY <3>1, <3>2, <3>3, <3>4
  <2>2. ASSUME NEW k \in 1 .. Len(o)
        PROVE  /\ tb2[o[k]].p_pptr = 1 /\ tb2[o[k]].state # "none" /\ o[k] # 0
               /\ tb2[o[k]].p_osptr = ElderIn(o, k)
               /\ tb2[o[k]].p_ysptr = IF k = 1 THEN q[Len(q)] ELSE YoungerIn(o, k)
    <3>1. ~Holds(q, o[k]) /\ o[k] # q[Len(q)] /\ (o[k] = o[1] <=> k = 1)
      BY <1>6, <1>7, <1>8, <1>10 DEF Holds, EachOnce
    <3> QED
      BY <1>5, <1>7, <3>1 DEF Inherited
  <2>3. ASSUME NEW j \in 1 .. Len(r)
        PROVE  /\ tb2[r[j]].p_pptr = 1 /\ tb2[r[j]].state # "none" /\ r[j] # 0
               /\ tb2[r[j]].p_osptr = ElderIn(r, j) /\ tb2[r[j]].p_ysptr = YoungerIn(r, j)
    <3>1. CASE j \in 1 .. Len(q)
      BY <1>9, <2>1, <3>1 DEF JoinedOn
    <3>2. CASE j \notin 1 .. Len(q)
      <4>1. PICK k \in 1 .. Len(o) : j = Len(q) + k
        BY <1>9, <3>2 DEF JoinedOn
      <4> QED
        BY <1>9, <2>2, <4>1 DEF JoinedOn
    <3> QED
      BY <3>1, <3>2
  <2> QED
    BY <1>5, <1>9, <2>3 DEF ListOf, JoinedOn, Inherited
<1>12. ListOf(tb2, t, <<>>)
  <2>1. <<>> \in Seq(Slot) /\ Len(<<>>) = 0 /\ EachOnce(<<>>)
    BY DEF EachOnce
  <2> QED
    BY <1>5, <2>1 DEF ListOf, Inherited
<1>13. ASSUME NEW s \in Slot, s # 1, s # t PROVE ListOf(tb2, s, L[s])
  <2>1. PICK p : p = L[s]
    OBVIOUS
  <2>2. /\ p \in Seq(Slot) /\ EachOnce(p) /\ Len(p) \in Nat /\ DOMAIN p = 1 .. Len(p)
        /\ tb[s].p_cptr = IF p = <<>> THEN Nil ELSE p[1]
        /\ \A k \in 1 .. Len(p) :
              /\ p[k] \in Slot \ {0} /\ p[k] # Nil
              /\ tb[p[k]].p_pptr = s /\ tb[p[k]].state # "none"
              /\ tb[p[k]].p_osptr = ElderIn(p, k)
              /\ tb[p[k]].p_ysptr = YoungerIn(p, k)
    BY <2>1, Member
  <2>3. ASSUME NEW k \in 1 .. Len(p)
        PROVE  ~Holds(q, p[k]) /\ p[k] # q[Len(q)] /\ p[k] # o[1]
    <3>1. tb[p[k]].p_pptr = s
      BY <2>2, <2>3
    <3>2. \A i \in 1 .. Len(q) : p[k] # q[i]
      BY <1>6, <1>13, <3>1
    <3>3. p[k] # o[1]
      BY <1>7, <1>13, <3>1
    <3> QED
      BY <1>6, <1>10, <3>2, <3>3 DEF Holds
  <2>4. ASSUME NEW k \in 1 .. Len(p)
        PROVE  /\ tb2[p[k]].p_pptr = s /\ tb2[p[k]].state # "none" /\ p[k] # 0
               /\ tb2[p[k]].p_osptr = ElderIn(p, k) /\ tb2[p[k]].p_ysptr = YoungerIn(p, k)
    BY <1>5, <2>2, <2>3 DEF Inherited
  <2>5. tb2[s].p_cptr = IF p = <<>> THEN Nil ELSE p[1]
    BY <1>5, <1>13, <2>2 DEF Inherited
  <2> QED
    BY <2>1, <2>2, <2>4, <2>5 DEF ListOf
<1>14. /\ M \in [Slot -> Seq(Slot)] /\ M[1] = r /\ M[t] = <<>>
       /\ \A s \in Slot : s # 1 /\ s # t => M[s] = L[s]
  <2>1. <<>> \in Seq(Slot) /\ r \in Seq(Slot)
    BY <1>9 DEF JoinedOn
  <2> QED
    BY <1>0, <1>4, <2>1
<1>15. ASSUME NEW d \in Slot \ {0}, tb2[d].state # "none"
       PROVE  tb2[d].p_pptr \in Slot /\ Holds(M[tb2[d].p_pptr], d)
  <2>1. PICK p \in Slot : p = tb[d].p_pptr /\ Holds(L[p], d)
    BY <1>5, <1>15 DEF Lists, Inherited
  <2>2. ASSUME Holds(q, d) \/ Holds(o, d) PROVE Holds(r, d)
    <3>1. CASE Holds(q, d)
      <4>1. PICK k \in 1 .. Len(q) : q[k] = d
        BY <1>6, <3>1 DEF Holds
      <4>2. k \in DOMAIN r /\ r[k] = d
        BY <1>9, <4>1 DEF JoinedOn
      <4> QED
        BY <4>2 DEF Holds
    <3>2. CASE Holds(o, d)
      <4>1. PICK k \in 1 .. Len(o) : o[k] = d
        BY <1>7, <3>2 DEF Holds
      <4>2. Len(q) + k \in DOMAIN r /\ r[Len(q) + k] = d
        BY <1>9, <4>1 DEF JoinedOn
      <4> QED
        BY <4>2 DEF Holds
    <3> QED
      BY <2>2, <3>1, <3>2
  <2>3. CASE Holds(q, d)
    BY <1>0, <1>5, <1>14, <2>2, <2>3 DEF Inherited
  <2>4. CASE ~Holds(q, d)
    <3>1. p # t /\ tb2[d].p_pptr = p
      BY <1>1, <1>5, <2>1, <2>4 DEF Inherited
    <3>2. p = 1 => Holds(r, d)
      BY <1>2, <2>1, <2>2
    <3> QED
      BY <1>14, <2>1, <3>1, <3>2
  <2> QED
    BY <2>3, <2>4
<1>16. Lists(tb2, M)
  BY <1>0, <1>11, <1>12, <1>13, <1>14, <1>15 DEF Lists
<1> QED
  BY <1>1, <1>2, <1>3, <1>4, <1>16

\* release takes the i-th child of t out of its list.
Released(tb, tb2, t, q, i) ==
    /\ tb[q[i]].p_cptr = Nil /\ tb2[q[i]].p_cptr = Nil /\ tb2[q[i]].state = "none"
    /\ \A s \in Slot : s # q[i] =>
          /\ tb2[s].p_pptr = tb[s].p_pptr
          /\ tb2[s].p_osptr = IF s = YoungerIn(q, i) THEN ElderIn(q, i) ELSE tb[s].p_osptr
          /\ tb2[s].p_ysptr = IF s = ElderIn(q, i) THEN YoungerIn(q, i) ELSE tb[s].p_ysptr
          /\ tb2[s].p_cptr = IF s = t /\ i = 1 THEN ElderIn(q, i) ELSE tb[s].p_cptr
          /\ (tb2[s].state = "none") <=> (tb[s].state = "none")

\* The lists after it.
LEMMA ListsReleased ==
    ASSUME NEW tb, NEW tb2, NEW L, Lists(tb, L), NEW t \in Slot, NEW i \in 1 .. Len(L[t]),
           t # L[t][i], Released(tb, tb2, t, L[t], i)
    PROVE  Lists(tb2, [L EXCEPT ![t] = RemoveFirst(L[t], L[t][i])])
<1>0. L \in [Slot -> Seq(Slot)]
  BY DEF Lists
<1>1. PICK q : q = L[t]
  OBVIOUS
<1>2. PICK c : c = q[i]
  OBVIOUS
<1>3. PICK r : r = RemoveFirst(q, c)
  OBVIOUS
<1>4. PICK M : M = [L EXCEPT ![t] = r]
  OBVIOUS
<1>5. /\ q \in Seq(Slot) /\ EachOnce(q) /\ Len(q) \in Nat /\ DOMAIN q = 1 .. Len(q)
      /\ tb[t].p_cptr = IF q = <<>> THEN Nil ELSE q[1]
      /\ \A k \in 1 .. Len(q) :
            /\ q # <<>> /\ q[k] \in Slot \ {0} /\ q[k] # Nil
            /\ tb[q[k]].p_pptr = t /\ tb[q[k]].state # "none"
            /\ tb[q[k]].p_osptr = ElderIn(q, k)
            /\ tb[q[k]].p_ysptr = YoungerIn(q, k)
  BY <1>1, Member
<1>6. /\ i \in 1 .. Len(q) /\ q[i] = c /\ c \in Slot \ {0} /\ tb[c].p_pptr = t
      /\ Released(tb, tb2, t, q, i) /\ t # c
  BY <1>1, <1>2, <1>5
<1>7. CutFrom(q, i, r)
  BY <1>2, <1>3, <1>5, <1>6, Cut
<1>8. /\ tb[c].p_cptr = Nil /\ tb2[c].p_cptr = Nil /\ tb2[c].state = "none"
      /\ \A s \in Slot : s # c =>
          /\ tb2[s].p_pptr = tb[s].p_pptr
          /\ tb2[s].p_osptr = IF s = YoungerIn(q, i) THEN ElderIn(q, i) ELSE tb[s].p_osptr
          /\ tb2[s].p_ysptr = IF s = ElderIn(q, i) THEN YoungerIn(q, i) ELSE tb[s].p_ysptr
          /\ tb2[s].p_cptr = IF s = t /\ i = 1 THEN ElderIn(q, i) ELSE tb[s].p_cptr
          /\ (tb2[s].state = "none") <=> (tb[s].state = "none")
  BY <1>6 DEF Released
\* Which member is next to the released one.
<1>9. ASSUME NEW k \in 1 .. Len(q)
      PROVE  /\ q[k] = c <=> k = i
             /\ q[k] = YoungerIn(q, i) <=> k = i - 1
             /\ q[k] = ElderIn(q, i) <=> k = i + 1
  <2>0. PICK l \in Nat : l = Len(q) /\ i \in 1 .. l /\ k \in 1 .. l
    BY <1>5, <1>6, <1>9
  <2>1. q[k] = c <=> k = i
    BY <1>5, <1>6 DEF EachOnce
  <2>2. q[k] = YoungerIn(q, i) <=> k = i - 1
    <3>1. i # 1 => i - 1 \in 1 .. l
      BY <2>0
    <3>2. i = 1 => k # i - 1
      BY <2>0
    <3> QED
      BY <1>5, <2>0, <3>1, <3>2 DEF EachOnce, YoungerIn
  <2>3. q[k] = ElderIn(q, i) <=> k = i + 1
    <3>1. i # l => i + 1 \in 1 .. l
      BY <2>0
    <3>2. i = l => k # i + 1
      BY <2>0
    <3> QED
      BY <1>5, <2>0, <3>1, <3>2 DEF EachOnce, ElderIn
  <2> QED
    BY <2>1, <2>2, <2>3
<1>10. YoungerIn(q, i) = Nil \/ \E k \in 1 .. Len(q) : YoungerIn(q, i) = q[k]
  <2>1. i # 1 => i - 1 \in 1 .. Len(q)
    BY <1>5, <1>6
  <2> QED
    BY <2>1 DEF YoungerIn
<1>11. ElderIn(q, i) = Nil \/ \E k \in 1 .. Len(q) : ElderIn(q, i) = q[k]
  <2>1. i # Len(q) => i + 1 \in 1 .. Len(q)
    <3>1. PICK l \in Nat : l = Len(q) /\ i \in 1 .. l
      BY <1>5, <1>6
    <3>2. i # l => i + 1 \in 1 .. l
      BY <3>1
    <3> QED
      BY <3>1, <3>2
  <2> QED
    BY <2>1 DEF ElderIn
<1>12. ListOf(tb2, t, r)
  <2>1. ASSUME NEW j \in 1 .. Len(r)
        PROVE  /\ tb2[r[j]].p_pptr = t /\ tb2[r[j]].state # "none" /\ r[j] # 0
               /\ tb2[r[j]].p_osptr = ElderIn(r, j) /\ tb2[r[j]].p_ysptr = YoungerIn(r, j)
    <3>1. PICK k \in 1 .. Len(q) : (k < i /\ j = k) \/ (k > i /\ j = k - 1)
      BY <1>7 DEF CutFrom
    <3>2. PICK l \in Nat : l = Len(q) /\ i \in 1 .. l /\ k \in 1 .. l
      BY <1>5, <1>6, <3>1
    <3>3. CASE k < i /\ j = k
      <4>1. /\ r[j] = q[k] /\ YoungerIn(r, j) = YoungerIn(q, k)
            /\ ElderIn(r, j) = IF k = i - 1 THEN ElderIn(q, i) ELSE ElderIn(q, k)
        BY <1>7, <3>1, <3>3 DEF CutFrom
      <4>2. k # i /\ k # i + 1
        BY <3>2, <3>3
      <4>3. /\ tb2[q[k]].p_pptr = t /\ tb2[q[k]].state # "none" /\ q[k] # 0
            /\ tb2[q[k]].p_osptr = IF k = i - 1 THEN ElderIn(q, i) ELSE ElderIn(q, k)
            /\ tb2[q[k]].p_ysptr = YoungerIn(q, k)
        BY <1>5, <1>8, <1>9, <4>2
      <4> QED
        BY <4>1, <4>3
    <3>4. CASE k > i /\ j = k - 1
      <4>1. /\ r[j] = q[k] /\ ElderIn(r, j) = ElderIn(q, k)
            /\ YoungerIn(r, j) = IF k = i + 1 THEN YoungerIn(q, i) ELSE YoungerIn(q, k)
        BY <1>7, <3>1, <3>4 DEF CutFrom
      <4>2. k # i /\ k # i - 1
        BY <3>2, <3>4
      <4>3. /\ tb2[q[k]].p_pptr = t /\ tb2[q[k]].state # "none" /\ q[k] # 0
            /\ tb2[q[k]].p_osptr = ElderIn(q, k)
            /\ tb2[q[k]].p_ysptr = IF k = i + 1 THEN YoungerIn(q, i) ELSE YoungerIn(q, k)
        BY <1>5, <1>8, <1>9, <4>2
      <4> QED
        BY <4>1, <4>3
    <3> QED
      BY <3>1, <3>3, <3>4
  <2>2. tb2[t].p_cptr = IF r = <<>> THEN Nil ELSE r[1]
    <3>1. tb2[t].p_cptr = IF i = 1 THEN ElderIn(q, i) ELSE q[1]
      <4>1. q # <<>>
        BY <1>5, <1>6
      <4> QED
        BY <1>5, <1>6, <1>8, <4>1
    <3> QED
      BY <1>7, <3>1 DEF CutFrom
  <2> QED
    BY <1>7, <2>1, <2>2 DEF ListOf, CutFrom
<1>13. ASSUME NEW s \in Slot, s # t PROVE ListOf(tb2, s, L[s])
  <2>1. PICK p : p = L[s]
    OBVIOUS
  <2>2. /\ p \in Seq(Slot) /\ EachOnce(p) /\ Len(p) \in Nat /\ DOMAIN p = 1 .. Len(p)
        /\ tb[s].p_cptr = IF p = <<>> THEN Nil ELSE p[1]
        /\ p # <<>> => 1 \in 1 .. Len(p)
        /\ \A k \in 1 .. Len(p) :
              /\ p # <<>> /\ p[k] \in Slot \ {0} /\ p[k] # Nil
              /\ tb[p[k]].p_pptr = s /\ tb[p[k]].state # "none"
              /\ tb[p[k]].p_osptr = ElderIn(p, k)
              /\ tb[p[k]].p_ysptr = YoungerIn(p, k)
    BY <2>1, Member
  <2>3. ASSUME NEW k \in 1 .. Len(p)
        PROVE  p[k] # c /\ p[k] # YoungerIn(q, i) /\ p[k] # ElderIn(q, i)
    BY <1>5, <1>6, <1>10, <1>11, <1>13, <2>2
  <2>4. ASSUME NEW k \in 1 .. Len(p)
        PROVE  /\ tb2[p[k]].p_pptr = s /\ tb2[p[k]].state # "none" /\ p[k] # 0
               /\ tb2[p[k]].p_osptr = ElderIn(p, k) /\ tb2[p[k]].p_ysptr = YoungerIn(p, k)
    BY <1>8, <2>2, <2>3
  <2>5. tb2[s].p_cptr = IF p = <<>> THEN Nil ELSE p[1]
    <3>1. CASE s = c
      <4>1. p = <<>>
        BY <1>8, <2>2, <3>1
      <4> QED
        BY <1>8, <3>1, <4>1
    <3>2. CASE s # c
      BY <1>8, <1>13, <2>2, <3>2
    <3> QED
      BY <3>1, <3>2
  <2> QED
    BY <2>1, <2>2, <2>4, <2>5 DEF ListOf
<1>14. M \in [Slot -> Seq(Slot)] /\ M[t] = r /\ \A s \in Slot : s # t => M[s] = L[s]
  BY <1>0, <1>4, <1>7 DEF CutFrom
<1>15. ASSUME NEW d \in Slot \ {0}, tb2[d].state # "none"
       PROVE  tb2[d].p_pptr \in Slot /\ Holds(M[tb2[d].p_pptr], d)
  <2>1. d # c /\ tb2[d].p_pptr = tb[d].p_pptr /\ tb[d].state # "none"
    BY <1>8, <1>15
  <2>2. PICK p \in Slot : p = tb[d].p_pptr /\ Holds(L[p], d)
    BY <2>1 DEF Lists
  <2>3. p = t => Holds(r, d)
    BY <1>1, <1>3, <1>5, <2>1, <2>2, RemovedOnce
  <2> QED
    BY <1>14, <2>1, <2>2, <2>3
<1>16. Lists(tb2, M)
  BY <1>12, <1>13, <1>14, <1>15 DEF Lists
<1> QED
  BY <1>1, <1>2, <1>3, <1>4, <1>16

----------------------------------------------------------------------------
\* The inductive invariant, of a table tb.

TaskRecord == [state : {"none", "running", "waiting", "exiting", "zombie"},
               pid : 0 .. MaxPid, signal : SUBSET {"SIGCHLD", "SIGTERM"},
               call : 0 .. MaxPid \cup {None}, p_pptr : Link, p_cptr : Link,
               p_ysptr : Link, p_osptr : Link]

\* The lists of children exist.
Linked(tb) == \E L \in [Slot -> Seq(Slot)] : Lists(tb, L)

OwnPids(tb) == \A r, s \in Slot : /\ tb[r].state # "none" /\ tb[s].state # "none"
                                  /\ tb[r].pid = tb[s].pid
                                  => r = s

Parents(tb) == \A s \in Slot : tb[s].state # "none" =>
                  tb[s].p_pptr \in Slot /\ tb[tb[s].p_pptr].state \notin {"none", "zombie"}

\* Nothing is left behind in an empty slot, tasks 0 and 1 neither exit nor wait,
\* and as soon as there is a third task init has a child.
Bare(tb) == \A s \in Slot : tb[s].state = "none" => tb[s] = Empty
Elders(tb) == tb[0].p_pptr = 0 /\ \A s \in {0, 1} : tb[s].state = "running" /\ tb[s].call = None
HasChild(tb) == \A s \in Slot \ {0, 1} : tb[s].state # "none" => tb[1].p_cptr # Nil

Good(tb) == /\ tb \in [Slot -> TaskRecord]
            /\ Linked(tb) /\ OwnPids(tb) /\ Parents(tb) /\ Bare(tb) /\ Elders(tb) /\ HasChild(tb)

FamilyInv == Good(task) /\ last_pid \in 1 .. MaxPid

\* The slots of tasks 0 and 1, and the links a task may hold.
LEMMA SlotFacts == 0 \in Slot /\ 1 \in Slot /\ Nil \notin Slot /\ Nil \in Link /\ (\A s \in Slot : s \in Link)
BY TasksAssumption DEF Slot, Nil, Link

\* The invariant gives the properties.
LEMMA InvHolds == FamilyInv => FamilySound
<1> SUFFICES ASSUME FamilyInv PROVE FamilySound
  OBVIOUS
<1>1. Good(task)
  BY DEF FamilyInv
<1>2. TypeOK
  BY <1>1 DEF FamilyInv, Good, TypeOK, TaskRecord
<1>3. PICK L \in [Slot -> Seq(Slot)] : Lists(task, L)
  BY <1>1 DEF Good, Linked
<1>4. LinksAgree
  <2> SUFFICES ASSUME NEW s \in Used
               PROVE  /\ IsInjective(Children(s))
                      /\ ToSet(Children(s)) = {c \in Used \ {0} : task[c].p_pptr = s}
                      /\ \A k \in DOMAIN Children(s) :
                            task[Children(s)[k]].p_ysptr = IF k = 1 THEN Nil ELSE Children(s)[k - 1]
    BY DEF LinksAgree
  <2>1. PICK q : q = L[s] /\ Children(s) = q
    BY <1>3, ChildrenFound DEF ChildrenFit, Used
  <2>2. /\ q \in Seq(Slot) /\ EachOnce(q) /\ DOMAIN q = 1 .. Len(q)
        /\ \A k \in 1 .. Len(q) : /\ q[k] \in Slot \ {0}
                                  /\ task[q[k]].p_pptr = s /\ task[q[k]].state # "none"
                                  /\ task[q[k]].p_ysptr = YoungerIn(q, k)
    <3>1. s \in Slot
      BY DEF Used
    <3> QED
      BY <1>3, <2>1, <3>1, Member
  <2>3. IsInjective(q)
    BY <2>2 DEF IsInjective, EachOnce
  <2>4. ToSet(q) = {c \in Used \ {0} : task[c].p_pptr = s}
    <3>1. \A c \in ToSet(q) : c \in Used \ {0} /\ task[c].p_pptr = s
      BY <2>2 DEF ToSet, Used
    <3>2. ASSUME NEW c \in Used \ {0}, task[c].p_pptr = s PROVE c \in ToSet(q)
      <4>1. Holds(q, c)
        BY <1>3, <2>1, <3>2 DEF Lists, Used
      <4> QED
        BY <4>1 DEF Holds, ToSet
    <3> QED
      BY <3>1, <3>2
  <2> QED
    BY <2>1, <2>2, <2>3, <2>4 DEF YoungerIn
<1>5. PidsUnique
  BY <1>1 DEF Good, OwnPids, PidsUnique, Used
<1>6. ParentLives
  BY <1>1 DEF Good, Parents, ParentLives, Used
<1>7. InitHasChild
  <2> SUFFICES ASSUME NEW s \in Slot, task[s].state = "exiting" PROVE task[1].p_cptr # Nil
    BY DEF InitHasChild
  <2>1. s \notin {0, 1}
    BY <1>1 DEF Good, Elders
  <2> QED
    BY <1>1, <2>1 DEF Good, HasChild
<1> QED
  BY <1>2, <1>4, <1>5, <1>6, <1>7 DEF FamilySound

\* Before the first fork.
LEMMA InitSound == Init => FamilyInv
<1> SUFFICES ASSUME Init PROVE FamilyInv
  OBVIOUS
<1> USE SlotFacts
<1>1. /\ task[0] = [Empty EXCEPT !.state = "running", !.p_pptr = 0, !.p_cptr = 1]
      /\ task[1] = [Empty EXCEPT !.state = "running", !.pid = 1, !.p_pptr = 0]
      /\ \A s \in Slot \ {0, 1} : task[s] = Empty
      /\ DOMAIN task = Slot
  BY DEF Init
<1>2. MaxPid \in Nat /\ 1 \in 0 .. MaxPid /\ 0 \in 0 .. MaxPid /\ 1 \in 1 .. MaxPid
  BY TasksAssumption, PidAssumption
<1>3. Empty \in TaskRecord
  BY <1>2 DEF Empty, TaskRecord
<1>a. 0 \in Link /\ 1 \in Link /\ Nil \in Link
  BY DEF Link
<1>4. task[0] \in TaskRecord /\ task[1] \in TaskRecord
  <2>1. PICK z \in TaskRecord : z = Empty
    BY <1>3
  <2>2. [z EXCEPT !.state = "running", !.p_pptr = 0, !.p_cptr = 1] \in TaskRecord
    BY <1>a DEF TaskRecord
  <2>3. [z EXCEPT !.state = "running", !.pid = 1, !.p_pptr = 0] \in TaskRecord
    BY <1>a, <1>2 DEF TaskRecord
  <2> QED
    BY <1>1, <2>1, <2>2, <2>3
<1>5. task \in [Slot -> TaskRecord]
  <2>1. \A s \in Slot : task[s] \in TaskRecord
    BY <1>1, <1>3, <1>4
  <2>2. task = [s \in Slot |-> task[s]]
    BY DEF Init
  <2> QED
    BY <2>1, <2>2
<1>6. /\ task[0].state = "running" /\ task[0].call = None /\ task[0].pid = 0
      /\ task[0].p_pptr = 0 /\ task[0].p_cptr = 1
      /\ task[1].state = "running" /\ task[1].call = None /\ task[1].pid = 1
      /\ task[1].p_pptr = 0 /\ task[1].p_cptr = Nil /\ task[1].p_osptr = Nil /\ task[1].p_ysptr = Nil
      /\ \A s \in Slot \ {0, 1} : task[s].state = "none" /\ task[s].p_cptr = Nil
  BY <1>1 DEF Empty
<1>7. Linked(task)
  <2> DEFINE one == <<1>>
             L == [s \in Slot |-> IF s = 0 THEN one ELSE <<>>]
  <2>1. one \in Seq(Slot) /\ Len(one) = 1 /\ one[1] = 1 /\ EachOnce(one) /\ Holds(one, 1) /\ one # <<>>
    BY DEF EachOnce, Holds
  <2>2. <<>> \in Seq(Slot) /\ Len(<<>>) = 0 /\ EachOnce(<<>>)
    BY DEF EachOnce
  <2> HIDE DEF one
  <2>3. L \in [Slot -> Seq(Slot)]
    BY <2>1, <2>2
  <2>4. L[0] = one /\ \A s \in Slot \ {0} : L[s] = <<>>
    OBVIOUS
  <2> HIDE DEF L
  <2>5. ListOf(task, 0, one)
    <3>1. ElderIn(one, 1) = Nil /\ YoungerIn(one, 1) = Nil
      BY <2>1 DEF ElderIn, YoungerIn
    <3>2. \A k \in 1 .. Len(one) : k = 1
      BY <2>1
    <3> QED
      BY <1>6, <2>1, <3>1, <3>2 DEF ListOf
  <2>6. ASSUME NEW s \in Slot \ {0} PROVE ListOf(task, s, <<>>)
    <3>1. task[s].p_cptr = Nil
      BY <1>6
    <3> QED
      BY <2>2, <3>1 DEF ListOf
  <2>7. ASSUME NEW c \in Slot \ {0}, task[c].state # "none"
        PROVE  task[c].p_pptr \in Slot /\ Holds(L[task[c].p_pptr], c)
    <3>1. c = 1
      BY <1>6, <2>7
    <3> QED
      BY <1>6, <2>1, <2>4, <3>1
  <2>8. \A s \in Slot : ListOf(task, s, L[s])
    BY <2>4, <2>5, <2>6
  <2>9. Lists(task, L)
    BY <2>3, <2>7, <2>8 DEF Lists
  <2> QED
    BY <2>3, <2>9 DEF Linked
<1>8. OwnPids(task)
  BY <1>6 DEF OwnPids
<1>9. Parents(task)
  BY <1>6 DEF Parents
<1>10. Bare(task)
  BY <1>1, <1>6 DEF Bare
<1>11. Elders(task) /\ HasChild(task)
  BY <1>6 DEF Elders, HasChild
<1>12. last_pid \in 1 .. MaxPid
  BY <1>2 DEF Init
<1> QED
  BY <1>5, <1>7, <1>8, <1>9, <1>10, <1>11, <1>12 DEF FamilyInv, Good

\* Steps that change neither links nor pids, and let no task die.
Quiet(tb, tb2) ==
    /\ tb2 \in [Slot -> TaskRecord]
    /\ SameLinks(tb, tb2)
    /\ \A s \in Slot : /\ tb2[s].pid = tb[s].pid
                       /\ (tb2[s].state = "zombie") <=> (tb[s].state = "zombie")
                       /\ tb[s].state = "none" => tb2[s] = tb[s]
                       /\ s \in {0, 1} => tb2[s].state = tb[s].state /\ tb2[s].call = tb[s].call

\* A step that leaves links, pids and deaths alone keeps a good table good.
LEMMA GoodQuiet ==
    ASSUME NEW tb, NEW tb2, Good(tb), Quiet(tb, tb2)
    PROVE  Good(tb2)
<1>1. PICK L \in [Slot -> Seq(Slot)] : Lists(tb, L)
  BY DEF Good, Linked
<1>2. Lists(tb2, L)
  BY <1>1, ListsSame DEF Quiet
<1>3. Linked(tb2)
  BY <1>1, <1>2 DEF Linked
<1>0. OwnPids(tb) /\ Parents(tb) /\ Bare(tb) /\ Elders(tb) /\ HasChild(tb)
  BY DEF Good
<1>a. ASSUME NEW s \in Slot
      PROVE  /\ tb2[s].pid = tb[s].pid /\ tb2[s].p_pptr = tb[s].p_pptr /\ tb2[s].p_cptr = tb[s].p_cptr
             /\ tb2[s].state # "none" => tb[s].state # "none"
             /\ tb2[s].state = "none" => tb2[s] = tb[s] /\ tb[s].state = "none"
             /\ tb[s].state \notin {"none", "zombie"} => tb2[s].state \notin {"none", "zombie"}
             /\ s \in {0, 1} => tb2[s].state = tb[s].state /\ tb2[s].call = tb[s].call
  BY DEF Quiet, SameLinks
<1>4. OwnPids(tb2)
  BY <1>0, <1>a DEF OwnPids
<1>5. Parents(tb2)
  BY <1>0, <1>a DEF Parents
<1>6. Bare(tb2)
  BY <1>0, <1>a DEF Bare
<1>7. Elders(tb2)
  BY <1>0, <1>a, SlotFacts DEF Elders
<1>8. HasChild(tb2)
  BY <1>0, <1>a, SlotFacts DEF HasChild
<1> QED
  BY <1>3, <1>4, <1>5, <1>6, <1>7, <1>8 DEF Good, Quiet

\* A step that writes to one task, and neither to its links nor to its pid.
LEMMA OneTask ==
    ASSUME NEW tb, NEW tb2, Good(tb), NEW s \in Slot, NEW R \in TaskRecord,
           tb2 = [tb EXCEPT ![s] = R], tb[s].state # "none", R.state # "none",
           (R.state = "zombie") <=> (tb[s].state = "zombie"),
           R.pid = tb[s].pid, R.p_pptr = tb[s].p_pptr, R.p_cptr = tb[s].p_cptr,
           R.p_osptr = tb[s].p_osptr, R.p_ysptr = tb[s].p_ysptr,
           s \in {0, 1} => R.state = tb[s].state /\ R.call = tb[s].call
    PROVE  Quiet(tb, tb2)
<1>1. tb \in [Slot -> TaskRecord]
  BY DEF Good
<1>2. tb2 \in [Slot -> TaskRecord] /\ tb2[s] = R /\ \A r \in Slot : r # s => tb2[r] = tb[r]
  BY <1>1
<1>3. SameLinks(tb, tb2)
  BY <1>2 DEF SameLinks
<1>4. \A r \in Slot : /\ tb2[r].pid = tb[r].pid
                      /\ (tb2[r].state = "zombie") <=> (tb[r].state = "zombie")
                      /\ tb[r].state = "none" => tb2[r] = tb[r]
                      /\ r \in {0, 1} => tb2[r].state = tb[r].state /\ tb2[r].call = tb[r].call
  BY <1>2
<1> QED
  BY <1>2, <1>3, <1>4 DEF Quiet

\* do_exit begins.
LEMMA ExitQuiet == ASSUME Good(task), NEW t \in Slot, Exit(t) PROVE Quiet(task, task')
<1> DEFINE R == [task[t] EXCEPT !.state = "exiting"]
<1>1. task \in [Slot -> TaskRecord] /\ task[t] \in TaskRecord
  BY DEF Good
<1>2. task' = [task EXCEPT ![t] = R] /\ task[t].state = "running" /\ t \notin {0, 1}
  BY DEF Exit, Program, Runs, Slot
<1>3. R \in TaskRecord /\ R.state = "exiting" /\ R.pid = task[t].pid
      /\ R.p_pptr = task[t].p_pptr /\ R.p_cptr = task[t].p_cptr
      /\ R.p_osptr = task[t].p_osptr /\ R.p_ysptr = task[t].p_ysptr
  BY <1>1 DEF TaskRecord
<1> HIDE DEF R
<1> QED
  BY <1>2, <1>3, OneTask

\* A waitpid begins.
LEMMA WaitPidQuiet == ASSUME Good(task), NEW t \in Slot, NEW pid \in Asks, WaitPid(t, pid) PROVE Quiet(task, task')
<1> DEFINE R == [task[t] EXCEPT !.call = pid]
<1>1. task \in [Slot -> TaskRecord] /\ task[t] \in TaskRecord /\ pid \in 0 .. MaxPid
  BY PidAssumption DEF Good
<1>2. task' = [task EXCEPT ![t] = R] /\ task[t].state = "running" /\ t \notin {0, 1}
  BY DEF WaitPid, Program, Runs, Slot
<1>3. R \in TaskRecord /\ R.state = "running" /\ R.pid = task[t].pid
      /\ R.p_pptr = task[t].p_pptr /\ R.p_cptr = task[t].p_cptr
      /\ R.p_osptr = task[t].p_osptr /\ R.p_ysptr = task[t].p_ysptr
  BY <1>1, <1>2 DEF TaskRecord
<1> HIDE DEF R
<1> QED
  BY <1>2, <1>3, OneTask

\* A waitpid ends without a child.
LEMMA ReturnQuiet ==
    ASSUME Good(task), NEW t \in Slot, task[t].state = "running", task[t].call # None,
           task' = [task EXCEPT ![t].call = None]
    PROVE  Quiet(task, task')
<1> DEFINE R == [task[t] EXCEPT !.call = None]
<1>1. task \in [Slot -> TaskRecord] /\ task[t] \in TaskRecord /\ t \notin {0, 1}
  BY DEF Good, Elders
<1>2. task' = [task EXCEPT ![t] = R]
  OBVIOUS
<1>3. R \in TaskRecord /\ R.state = "running" /\ R.pid = task[t].pid
      /\ R.p_pptr = task[t].p_pptr /\ R.p_cptr = task[t].p_cptr
      /\ R.p_osptr = task[t].p_osptr /\ R.p_ysptr = task[t].p_ysptr
  BY <1>1 DEF TaskRecord
<1> HIDE DEF R
<1> QED
  BY <1>1, <1>2, <1>3, OneTask

\* A waitpid sleeps.
LEMMA SleepQuiet ==
    ASSUME Good(task), NEW t \in Slot, task[t].state = "running", task[t].call # None,
           task' = [task EXCEPT ![t].state = "waiting"]
    PROVE  Quiet(task, task')
<1> DEFINE R == [task[t] EXCEPT !.state = "waiting"]
<1>1. task \in [Slot -> TaskRecord] /\ task[t] \in TaskRecord /\ t \notin {0, 1}
  BY DEF Good, Elders
<1>2. task' = [task EXCEPT ![t] = R]
  OBVIOUS
<1>3. R \in TaskRecord /\ R.state = "waiting" /\ R.pid = task[t].pid
      /\ R.p_pptr = task[t].p_pptr /\ R.p_cptr = task[t].p_cptr
      /\ R.p_osptr = task[t].p_osptr /\ R.p_ysptr = task[t].p_ysptr
  BY <1>1 DEF TaskRecord
<1> HIDE DEF R
<1> QED
  BY <1>1, <1>2, <1>3, OneTask

\* A sleeping waitpid goes on.
LEMMA WakeQuiet == ASSUME Good(task), NEW t \in Slot, Wake(t) PROVE Quiet(task, task')
<1> DEFINE d == IF task[t].signal \subseteq {"SIGCHLD"} THEN task[t].call ELSE None
           R == [task[t] EXCEPT !.state = "running", !.call = d]
<1>1. task \in [Slot -> TaskRecord] /\ task[t] \in TaskRecord /\ task[t].state = "waiting" /\ t \notin {0, 1}
  BY DEF Good, Elders, Wake
<1>2. task' = [task EXCEPT ![t] = R]
  BY <1>1 DEF Wake
<1>3. d \in 0 .. MaxPid \cup {None}
  BY <1>1 DEF TaskRecord
<1> HIDE DEF d
<1>4. R \in TaskRecord /\ R.state = "running" /\ R.pid = task[t].pid
      /\ R.p_pptr = task[t].p_pptr /\ R.p_cptr = task[t].p_cptr
      /\ R.p_osptr = task[t].p_osptr /\ R.p_ysptr = task[t].p_ysptr
  BY <1>1, <1>3 DEF TaskRecord
<1> HIDE DEF R
<1> QED
  BY <1>1, <1>2, <1>4, OneTask

\* A signal.
LEMMA PostQuiet ==
    ASSUME NEW tb, Good(tb), NEW s \in Slot, tb[s].state # "none",
           NEW sig \in {"SIGCHLD", "SIGTERM"}, NEW tb2, tb2 = Posts(s, sig, tb)
    PROVE  Quiet(tb, tb2)
<1> DEFINE R == [tb[s] EXCEPT !.signal = tb[s].signal \cup {sig}]
<1>1. tb \in [Slot -> TaskRecord] /\ tb[s] \in TaskRecord
  BY DEF Good
<1>2. tb2 = [tb EXCEPT ![s] = R]
  BY DEF Posts
<1>3. R \in TaskRecord /\ R.state = tb[s].state /\ R.call = tb[s].call /\ R.pid = tb[s].pid
      /\ R.p_pptr = tb[s].p_pptr /\ R.p_cptr = tb[s].p_cptr
      /\ R.p_osptr = tb[s].p_osptr /\ R.p_ysptr = tb[s].p_ysptr
  BY <1>1 DEF TaskRecord
<1> HIDE DEF R
<1>4. /\ R.state # "none" /\ ((R.state = "zombie") <=> (tb[s].state = "zombie"))
      /\ s \in {0, 1} => R.state = tb[s].state /\ R.call = tb[s].call
  BY <1>3
<1> QED
  BY <1>2, <1>3, <1>4, OneTask

----------------------------------------------------------------------------
\* fork.

\* There is a pid that no task has: there are more pids than slots.
LEMMA PidLeft == \E p \in 1 .. MaxPid : \A s \in Used : task[s].pid # p
<1> SUFFICES ASSUME \A p \in 1 .. MaxPid : \E s \in Used : task[s].pid = p PROVE FALSE
  OBVIOUS
<1> DEFINE f == [p \in 1 .. MaxPid |-> CHOOSE s \in Used : task[s].pid = p]
<1>1. \A p \in 1 .. MaxPid : f[p] \in Slot /\ task[f[p]].pid = p
  BY DEF Used
<1>2. f \in [1 .. MaxPid -> Slot]
  BY <1>1
<1>3. /\ IsFiniteSet(1 .. MaxPid) /\ IsFiniteSet(Slot) /\ Cardinality(Slot) < Cardinality(1 .. MaxPid)
  <2>1. MaxPid \in Nat /\ NR_TASKS \in Nat /\ NR_TASKS > 2 /\ MaxPid > NR_TASKS
    BY PidAssumption, TasksAssumption
  <2>2. Cardinality(1 .. MaxPid) = MaxPid /\ IsFiniteSet(1 .. MaxPid)
    BY <2>1, FS_Interval
  <2>3. Cardinality(Slot) = NR_TASKS /\ IsFiniteSet(Slot)
    BY <2>1, FS_Interval DEF Slot
  <2> QED
    BY <2>1, <2>2, <2>3
<1> HIDE DEF f
<1>4. PICK A : A = 1 .. MaxPid
  OBVIOUS
<1>5. IsFiniteSet(A) /\ IsFiniteSet(Slot) /\ Cardinality(Slot) < Cardinality(A) /\ f \in [A -> Slot]
  BY <1>2, <1>3, <1>4
<1>6. \E x, y \in A : x # y /\ f[x] = f[y]
  BY <1>5, FS_PigeonHole
<1> QED
  BY <1>1, <1>4, <1>6

\* find_empty_process ends, with a pid of its own.
LEMMA NextPidFree ==
    ASSUME NEW last \in 1 .. MaxPid
    PROVE  NextPid(last) \in 1 .. MaxPid /\ \A s \in Used : task[s].pid # NextPid(last)
<1> DEFINE after(n) == IF last + n <= MaxPid THEN last + n ELSE (last + n) - MaxPid
           steps == {n \in 1 .. MaxPid : \A s \in Used : task[s].pid # after(n)}
<1>1. MaxPid \in Nat
  BY PidAssumption
<1>2. PICK p \in 1 .. MaxPid : \A s \in Used : task[s].pid # p
  BY PidLeft
<1>3. \E n \in 1 .. MaxPid : after(n) = p
  <2>1. CASE p > last
    <3>1. p - last \in 1 .. MaxPid /\ after(p - last) = p
      BY <1>1, <2>1
    <3> QED
      BY <3>1
  <2>2. CASE p <= last
    <3>1. (p - last) + MaxPid \in 1 .. MaxPid /\ after((p - last) + MaxPid) = p
      BY <1>1, <2>2
    <3> QED
      BY <3>1
  <2> QED
    BY <1>1, <2>1, <2>2
<1>4. steps \in SUBSET Nat /\ steps # {}
  <2>1. PICK n \in 1 .. MaxPid : after(n) = p
    BY <1>3
  <2> HIDE DEF after
  <2>2. n \in steps
    BY <1>2, <2>1
  <2>3. steps \in SUBSET Nat
    BY <1>1
  <2> QED
    BY <2>2, <2>3
<1>5. \E n \in steps : \A m \in steps : n <= m
  <2> HIDE DEF steps
  <2> QED
    BY <1>4, LeastNumber
<1>6. PICK k \in steps : k = CHOOSE n \in steps : \A m \in steps : n <= m
  <2> HIDE DEF steps
  <2> QED
    BY <1>5
<1>7. NextPid(last) = after(k)
  BY <1>6 DEF NextPid
<1>8. k \in 1 .. MaxPid /\ \A s \in Used : task[s].pid # after(k)
  BY <1>6
<1>9. after(k) \in 1 .. MaxPid
  BY <1>1, <1>8
<1> QED
  BY <1>7, <1>8, <1>9

\* What copy_process makes of the table: task c, a running child of t with a pid of its own.
Forked(tb, tb2, t, c) ==
    /\ Born(tb, tb2, t, c) /\ tb2 \in [Slot -> TaskRecord] /\ tb[t].state = "running" /\ t # 0
    /\ tb2[c].state = "running"
    /\ \A s \in Slot \ {c} : /\ tb2[s].state = tb[s].state /\ tb2[s].call = tb[s].call
                             /\ tb2[s].pid = tb[s].pid
                             /\ tb2[c].pid # tb[s].pid \/ tb[s].state = "none"
                             /\ tb[s].state = "none" => tb2[s] = tb[s]

\* A fork makes such a task, or finds the table full.
LEMMA ForkMakes ==
    ASSUME FamilyInv, NEW t \in Slot, Fork(t)
    PROVE  /\ last_pid' \in 1 .. MaxPid
           /\ task' = task \/ \E c \in Slot \ {0, 1} : Forked(task, task', t, c)
<1>1. last_pid' \in 1 .. MaxPid /\ \A s \in Used : task[s].pid # last_pid'
  BY NextPidFree DEF FamilyInv, Fork
<1>2. CASE Used = Slot
  BY <1>1, <1>2 DEF Fork
<1>3. CASE Used # Slot
  <2>1. PICK c \in Slot \ Used : c = CHOOSE s \in Slot \ Used : \A r \in Slot \ Used : s <= r
    <3>1. PICK T : T = Slot \ Used
      OBVIOUS
    <3>2. T \in SUBSET Nat /\ T # {}
      BY <1>3, <3>1, TasksAssumption DEF Used, Slot
    <3>3. \E s \in T : \A r \in T : s <= r
      BY <3>2, LeastNumber
    <3> QED
      BY <3>1, <3>3
  <2> DEFINE e == task[t].p_cptr
             child == [task[t] EXCEPT !.pid = last_pid', !.p_pptr = t, !.p_cptr = Nil,
                                      !.p_ysptr = Nil, !.p_osptr = e]
             linked == IF e = Nil THEN task ELSE [task EXCEPT ![e].p_ysptr = c]
  <2>2. task' = [linked EXCEPT ![c] = child, ![t].p_cptr = c] /\ task[t].state = "running" /\ t # 0
    <3> DEFINE c0 == CHOOSE s \in Slot \ Used : \A r \in Slot \ Used : s <= r
               ln == IF e = Nil THEN task ELSE [task EXCEPT ![e].p_ysptr = c0]
    <3>1. Runs(t) /\ t # 0
      BY DEF Fork, Forks
    <3>2. task' = [ln EXCEPT ![c0] = child, ![t].p_cptr = c0]
      BY <1>3, Zenon DEF Fork
    <3>3. c0 = c /\ ln = linked
      BY <2>1
    <3>4. task' = [linked EXCEPT ![c] = child, ![t].p_cptr = c]
      <4> HIDE DEF c0, ln, linked, child
      <4> QED
        BY <3>2, <3>3
    <3> QED
      BY <3>1, <3>4 DEF Runs
  <2>3. Good(task) /\ task \in [Slot -> TaskRecord] /\ task[t] \in TaskRecord /\ t \in Slot /\ c \in Slot
    BY <2>1 DEF FamilyInv, Good
  <2>4. task[c].state = "none" /\ c # t /\ c \notin {0, 1} /\ task[c].p_cptr = Nil
    <3>1. task[c].state = "none"
      BY <2>1 DEF Used
    <3>2. task[c] = Empty
      BY <2>3, <3>1 DEF Good, Bare
    <3> QED
      BY <2>2, <2>3, <3>1, <3>2 DEF Good, Elders, Empty
  <2>5. e \in Link /\ e # c /\ (e # Nil => e \in Slot /\ task[e].state # "none")
    <3>1. PICK L \in [Slot -> Seq(Slot)] : Lists(task, L)
      BY <2>3 DEF Good, Linked
    <3>2. PICK q : q = L[t]
      OBVIOUS
    <3>3. /\ e = IF q = <<>> THEN Nil ELSE q[1]
          /\ q # <<>> => 1 \in 1 .. Len(q)
          /\ \A k \in 1 .. Len(q) : q[k] \in Slot \ {0} /\ task[q[k]].state # "none"
      BY <3>1, <3>2, Member
    <3> QED
      BY <2>4, <3>3, SlotFacts DEF Link
  <2>6. child \in TaskRecord /\ child.state = "running" /\ child.pid = last_pid' /\ child.p_pptr = t
        /\ child.p_cptr = Nil /\ child.p_ysptr = Nil /\ child.p_osptr = e
    <3>1. t \in Link /\ Nil \in Link /\ last_pid' \in 0 .. MaxPid
      BY <1>1, <2>3, SlotFacts, PidAssumption
    <3> QED
      BY <2>2, <2>3, <2>5, <3>1 DEF TaskRecord
  <2>7. /\ linked \in [Slot -> TaskRecord]
        /\ \A s \in Slot : /\ linked[s].state = task[s].state /\ linked[s].call = task[s].call
                           /\ linked[s].pid = task[s].pid /\ linked[s].p_pptr = task[s].p_pptr
                           /\ linked[s].p_cptr = task[s].p_cptr /\ linked[s].p_osptr = task[s].p_osptr
                           /\ linked[s].p_ysptr = IF s = e THEN c ELSE task[s].p_ysptr
                           /\ s # e => linked[s] = task[s]
    <3>1. CASE e = Nil
      BY <2>3, <3>1, SlotFacts
    <3>2. CASE e # Nil
      <4>1. c \in Link
        BY <2>3, SlotFacts
      <4>2. \A s \in Slot : linked[s] = IF s = e THEN [task[e] EXCEPT !.p_ysptr = c] ELSE task[s]
        BY <2>3, <2>5, <3>2
      <4>3. task[e] \in TaskRecord
        BY <2>3, <2>5, <3>2
      <4>4. [task[e] EXCEPT !.p_ysptr = c] \in TaskRecord
        BY <4>1, <4>3 DEF TaskRecord
      <4>5. linked \in [Slot -> TaskRecord]
        BY <2>3, <2>5, <3>2, <4>4
      <4>6. ASSUME NEW s \in Slot
            PROVE  /\ linked[s].state = task[s].state /\ linked[s].call = task[s].call
                   /\ linked[s].pid = task[s].pid /\ linked[s].p_pptr = task[s].p_pptr
                   /\ linked[s].p_cptr = task[s].p_cptr /\ linked[s].p_osptr = task[s].p_osptr
                   /\ linked[s].p_ysptr = IF s = e THEN c ELSE task[s].p_ysptr
                   /\ s # e => linked[s] = task[s]
        <5> HIDE DEF linked
        <5>1. task[s] \in TaskRecord
          BY <2>3
        <5> QED
          BY <4>2, <4>3, <5>1 DEF TaskRecord
      <4> QED
        BY <4>5, <4>6
    <3> QED
      BY <3>1, <3>2
  <2> HIDE DEF linked, child
  <2>8. linked[t] \in TaskRecord /\ c \in Link
    BY <2>3, <2>7, SlotFacts
  <2>9. /\ task'[c] = child
        /\ task'[t] = [linked[t] EXCEPT !.p_cptr = c]
        /\ \A s \in Slot \ {c, t} : task'[s] = linked[s]
    BY <2>2, <2>3, <2>4, <2>7
  <2>10. /\ [linked[t] EXCEPT !.p_cptr = c] \in TaskRecord
         /\ task'[t].state = linked[t].state /\ task'[t].call = linked[t].call
         /\ task'[t].pid = linked[t].pid /\ task'[t].p_pptr = linked[t].p_pptr
         /\ task'[t].p_cptr = c /\ task'[t].p_osptr = linked[t].p_osptr
         /\ task'[t].p_ysptr = linked[t].p_ysptr
    BY <2>8, <2>9 DEF TaskRecord
  <2>11. task' \in [Slot -> TaskRecord]
    BY <2>2, <2>6, <2>7, <2>9, <2>10
  <2>12. ASSUME NEW s \in Slot \ {c}
         PROVE  /\ task'[s].state = task[s].state /\ task'[s].call = task[s].call
                /\ task'[s].pid = task[s].pid /\ task'[s].p_pptr = task[s].p_pptr
                /\ task'[s].p_osptr = task[s].p_osptr
                /\ task'[s].p_cptr = (IF s = t THEN c ELSE task[s].p_cptr)
                /\ task'[s].p_ysptr = (IF s = e THEN c ELSE task[s].p_ysptr)
                /\ task[s].state = "none" => task'[s] = task[s]
    <3>1. CASE s = t
      BY <2>2, <2>7, <2>10, <3>1
    <3>2. CASE s # t
      <4> HIDE DEF e
      <4>1. task'[s] = linked[s]
        BY <2>9, <3>2
      <4>2. task[s].state = "none" => s # e
        BY <2>5, SlotFacts
      <4> QED
        BY <2>7, <3>2, <4>1, <4>2
    <3> QED
      BY <3>1, <3>2
  <2>13. Born(task, task', t, c)
    BY <2>2, <2>4, <2>6, <2>9, <2>12 DEF Born
  <2>14. ASSUME NEW s \in Slot \ {c} PROVE task'[c].pid # task[s].pid \/ task[s].state = "none"
    BY <1>1, <2>6, <2>9 DEF Used
  <2>15. Forked(task, task', t, c)
    BY <2>2, <2>6, <2>9, <2>11, <2>12, <2>13, <2>14 DEF Forked
  <2> QED
    BY <1>1, <2>4, <2>15
<1> QED
  BY <1>2, <1>3

\* The invariant over it.
LEMMA GoodForked ==
    ASSUME NEW tb, NEW tb2, Good(tb), NEW t \in Slot, NEW c \in Slot \ {0, 1}, Forked(tb, tb2, t, c)
    PROVE  Good(tb2)
<1>0. OwnPids(tb) /\ Parents(tb) /\ Bare(tb) /\ Elders(tb) /\ HasChild(tb)
  BY DEF Good
<1>1. /\ tb2 \in [Slot -> TaskRecord] /\ tb[t].state = "running" /\ t # c /\ t # 0
      /\ tb2[c].state = "running" /\ tb2[c].p_pptr = t /\ tb[c].state = "none"
      /\ \A s \in Slot \ {c} : /\ tb2[s].state = tb[s].state /\ tb2[s].call = tb[s].call
                               /\ tb2[s].pid = tb[s].pid /\ tb2[s].p_pptr = tb[s].p_pptr
                               /\ tb2[c].pid # tb[s].pid \/ tb[s].state = "none"
                               /\ tb[s].state = "none" => tb2[s] = tb[s]
                               /\ tb2[s].p_cptr = IF s = t THEN c ELSE tb[s].p_cptr
  BY DEF Forked, Born
<1>2. Linked(tb2)
  <2>1. PICK L \in [Slot -> Seq(Slot)] : Lists(tb, L)
    BY DEF Good, Linked
  <2>2. PICK M : M = [L EXCEPT ![t] = <<c>> \o L[t]]
    OBVIOUS
  <2>3. Lists(tb2, M)
    BY <2>1, <2>2, ListsBorn DEF Forked
  <2>4. M \in [Slot -> Seq(Slot)]
    BY <2>3 DEF Lists
  <2> QED
    BY <2>3, <2>4 DEF Linked
<1>3. OwnPids(tb2)
  <2> SUFFICES ASSUME NEW r \in Slot, NEW s \in Slot, tb2[r].state # "none", tb2[s].state # "none",
                      tb2[r].pid = tb2[s].pid
               PROVE  r = s
    BY DEF OwnPids
  <2>1. CASE r = c
    BY <1>1, <2>1
  <2>2. CASE s = c
    BY <1>1, <2>2
  <2>3. CASE r # c /\ s # c
    BY <1>0, <1>1, <2>3 DEF OwnPids
  <2> QED
    BY <2>1, <2>2, <2>3
<1>4. Parents(tb2)
  <2> SUFFICES ASSUME NEW s \in Slot, tb2[s].state # "none"
               PROVE  tb2[s].p_pptr \in Slot /\ tb2[tb2[s].p_pptr].state \notin {"none", "zombie"}
    BY DEF Parents
  <2>1. CASE s = c
    BY <1>1, <2>1
  <2>2. CASE s # c
    BY <1>0, <1>1, <2>2 DEF Parents
  <2> QED
    BY <2>1, <2>2
<1>5. Bare(tb2)
  BY <1>0, <1>1 DEF Bare
<1>6. Elders(tb2)
  BY <1>0, <1>1, SlotFacts DEF Elders
<1>7. HasChild(tb2)
  <2>1. tb2[1].p_cptr = IF 1 = t THEN c ELSE tb[1].p_cptr
    BY <1>1, SlotFacts
  <2>2. t # 1 => tb[1].p_cptr # Nil
    BY <1>0, <1>1 DEF HasChild
  <2>3. tb2[1].p_cptr # Nil
    BY <2>1, <2>2, SlotFacts
  <2> QED
    BY <2>3 DEF HasChild
<1> QED
  BY <1>1, <1>2, <1>3, <1>4, <1>5, <1>6, <1>7 DEF Good

----------------------------------------------------------------------------
\* Writes to one link.

SameLife(a, b) == b.state = a.state /\ b.call = a.call /\ b.pid = a.pid

\* The link to the elder sibling.
LEMMA SetElder ==
    ASSUME NEW tb \in [Slot -> TaskRecord], NEW x \in Slot, NEW v \in Link,
           NEW tb2, tb2 = [tb EXCEPT ![x].p_osptr = v]
    PROVE  /\ tb2 \in [Slot -> TaskRecord]
           /\ \A s \in Slot : /\ SameLife(tb[s], tb2[s])
                              /\ tb2[s].p_pptr = tb[s].p_pptr /\ tb2[s].p_cptr = tb[s].p_cptr
                              /\ tb2[s].p_ysptr = tb[s].p_ysptr
                              /\ tb2[s].p_osptr = IF s = x THEN v ELSE tb[s].p_osptr
                              /\ s # x => tb2[s] = tb[s]
<1>1. PICK R : R = [tb[x] EXCEPT !.p_osptr = v]
  OBVIOUS
<1>2. tb[x] \in TaskRecord
  OBVIOUS
<1>3. R \in TaskRecord /\ SameLife(tb[x], R) /\ R.p_osptr = v
      /\ R.p_pptr = tb[x].p_pptr /\ R.p_cptr = tb[x].p_cptr /\ R.p_ysptr = tb[x].p_ysptr
  BY <1>1, <1>2 DEF TaskRecord, SameLife
<1>4. tb2 = [tb EXCEPT ![x] = R]
  BY <1>1
<1>5. tb2 \in [Slot -> TaskRecord] /\ tb2[x] = R /\ \A s \in Slot : s # x => tb2[s] = tb[s]
  BY <1>3, <1>4
<1>6. \A s \in Slot : SameLife(tb[s], tb[s])
  BY DEF SameLife
<1> QED
  BY <1>3, <1>5, <1>6

\* The link to the younger sibling.
LEMMA SetYounger ==
    ASSUME NEW tb \in [Slot -> TaskRecord], NEW x \in Slot, NEW v \in Link,
           NEW tb2, tb2 = [tb EXCEPT ![x].p_ysptr = v]
    PROVE  /\ tb2 \in [Slot -> TaskRecord]
           /\ \A s \in Slot : /\ SameLife(tb[s], tb2[s])
                              /\ tb2[s].p_pptr = tb[s].p_pptr /\ tb2[s].p_cptr = tb[s].p_cptr
                              /\ tb2[s].p_osptr = tb[s].p_osptr
                              /\ tb2[s].p_ysptr = IF s = x THEN v ELSE tb[s].p_ysptr
                              /\ s # x => tb2[s] = tb[s]
<1>1. PICK R : R = [tb[x] EXCEPT !.p_ysptr = v]
  OBVIOUS
<1>2. tb[x] \in TaskRecord
  OBVIOUS
<1>3. R \in TaskRecord /\ SameLife(tb[x], R) /\ R.p_ysptr = v
      /\ R.p_pptr = tb[x].p_pptr /\ R.p_cptr = tb[x].p_cptr /\ R.p_osptr = tb[x].p_osptr
  BY <1>1, <1>2 DEF TaskRecord, SameLife
<1>4. tb2 = [tb EXCEPT ![x] = R]
  BY <1>1
<1>5. tb2 \in [Slot -> TaskRecord] /\ tb2[x] = R /\ \A s \in Slot : s # x => tb2[s] = tb[s]
  BY <1>3, <1>4
<1>6. \A s \in Slot : SameLife(tb[s], tb[s])
  BY DEF SameLife
<1> QED
  BY <1>3, <1>5, <1>6

\* The link to the youngest child.
LEMMA SetChild ==
    ASSUME NEW tb \in [Slot -> TaskRecord], NEW x \in Slot, NEW v \in Link,
           NEW tb2, tb2 = [tb EXCEPT ![x].p_cptr = v]
    PROVE  /\ tb2 \in [Slot -> TaskRecord]
           /\ \A s \in Slot : /\ SameLife(tb[s], tb2[s])
                              /\ tb2[s].p_pptr = tb[s].p_pptr /\ tb2[s].p_osptr = tb[s].p_osptr
                              /\ tb2[s].p_ysptr = tb[s].p_ysptr
                              /\ tb2[s].p_cptr = IF s = x THEN v ELSE tb[s].p_cptr
                              /\ s # x => tb2[s] = tb[s]
<1>1. PICK R : R = [tb[x] EXCEPT !.p_cptr = v]
  OBVIOUS
<1>2. tb[x] \in TaskRecord
  OBVIOUS
<1>3. R \in TaskRecord /\ SameLife(tb[x], R) /\ R.p_cptr = v
      /\ R.p_pptr = tb[x].p_pptr /\ R.p_osptr = tb[x].p_osptr /\ R.p_ysptr = tb[x].p_ysptr
  BY <1>1, <1>2 DEF TaskRecord, SameLife
<1>4. tb2 = [tb EXCEPT ![x] = R]
  BY <1>1
<1>5. tb2 \in [Slot -> TaskRecord] /\ tb2[x] = R /\ \A s \in Slot : s # x => tb2[s] = tb[s]
  BY <1>3, <1>4
<1>6. \A s \in Slot : SameLife(tb[s], tb[s])
  BY DEF SameLife
<1> QED
  BY <1>3, <1>5, <1>6

\* A signal changes no link.
LEMMA SetSignal ==
    ASSUME NEW tb \in [Slot -> TaskRecord], NEW x \in Slot, NEW sig \in {"SIGCHLD", "SIGTERM"},
           NEW tb2, tb2 = Posts(x, sig, tb)
    PROVE  /\ tb2 \in [Slot -> TaskRecord]
           /\ \A s \in Slot : /\ SameLife(tb[s], tb2[s])
                              /\ tb2[s].p_pptr = tb[s].p_pptr /\ tb2[s].p_cptr = tb[s].p_cptr
                              /\ tb2[s].p_osptr = tb[s].p_osptr /\ tb2[s].p_ysptr = tb[s].p_ysptr
                              /\ s # x => tb2[s] = tb[s]
<1>1. PICK R : R = [tb[x] EXCEPT !.signal = tb[x].signal \cup {sig}]
  OBVIOUS
<1>2. tb[x] \in TaskRecord
  OBVIOUS
<1>3. R \in TaskRecord /\ SameLife(tb[x], R) /\ R.p_pptr = tb[x].p_pptr
      /\ R.p_cptr = tb[x].p_cptr /\ R.p_osptr = tb[x].p_osptr /\ R.p_ysptr = tb[x].p_ysptr
  BY <1>1, <1>2 DEF TaskRecord, SameLife
<1>4. tb2 = [tb EXCEPT ![x] = R]
  BY <1>1 DEF Posts
<1>5. tb2 \in [Slot -> TaskRecord] /\ tb2[x] = R /\ \A s \in Slot : s # x => tb2[s] = tb[s]
  BY <1>3, <1>4
<1>6. \A s \in Slot : SameLife(tb[s], tb[s])
  BY DEF SameLife
<1> QED
  BY <1>3, <1>5, <1>6

----------------------------------------------------------------------------
\* exit.

\* What do_exit makes of the table with the lists L.
Died(tb, tb2, L, t) ==
    /\ tb2 \in [Slot -> TaskRecord] /\ tb[t].state = "exiting"
    /\ IF L[t] = <<>> THEN SameLinks(tb, tb2)
       ELSE L[1] # <<>> /\ Inherited(tb, tb2, t, L[t], L[1])
    /\ \A s \in Slot : /\ tb2[s].state = (IF s = t THEN "zombie" ELSE tb[s].state)
                       /\ tb2[s].call = tb[s].call /\ tb2[s].pid = tb[s].pid
                       /\ tb[s].state = "none" => tb2[s] = tb[s]

\* It makes that.
LEMMA ExitedMakes ==
    ASSUME Good(task), NEW L, Lists(task, L), NEW t \in Slot, Exited(t)
    PROVE  Died(task, task', L, t)
<1>0. task \in [Slot -> TaskRecord] /\ Parents(task) /\ Elders(task) /\ HasChild(task)
  BY DEF Good
<1>1. PICK p \in Slot : p = task[t].p_pptr /\ task[p].state # "none"
  BY <1>0 DEF Parents, Exited
<1>2. PICK dead : dead = [task EXCEPT ![t].state = "zombie"]
  OBVIOUS
<1>3. PICK b : b = Posts(p, "SIGCHLD", dead)
  OBVIOUS
<1>4. PICK q : q = L[t]
  OBVIOUS
<1>5. task' = Bequeath(t, b) /\ task[t].state = "exiting" /\ t \notin {0, 1} /\ Children(t) = q
  <2>1. L \in [Slot -> Seq(Slot)]
    BY DEF Lists
  <2> QED
    BY <1>0, <1>1, <1>2, <1>3, <1>4, <2>1, ChildrenFound DEF Exited, Elders, ChildrenFit
<1>6. /\ dead \in [Slot -> TaskRecord]
      /\ \A s \in Slot : /\ dead[s].state = (IF s = t THEN "zombie" ELSE task[s].state)
                         /\ dead[s].call = task[s].call /\ dead[s].pid = task[s].pid
                         /\ dead[s].p_pptr = task[s].p_pptr /\ dead[s].p_cptr = task[s].p_cptr
                         /\ dead[s].p_osptr = task[s].p_osptr /\ dead[s].p_ysptr = task[s].p_ysptr
                         /\ s # t => dead[s] = task[s]
  <2>1. PICK R : R = [task[t] EXCEPT !.state = "zombie"]
    OBVIOUS
  <2>2. /\ R \in TaskRecord /\ R.state = "zombie" /\ R.call = task[t].call /\ R.pid = task[t].pid
        /\ R.p_pptr = task[t].p_pptr /\ R.p_cptr = task[t].p_cptr
        /\ R.p_osptr = task[t].p_osptr /\ R.p_ysptr = task[t].p_ysptr
    <3>1. task[t] \in TaskRecord
      BY <1>0
    <3> QED
      BY <2>1, <3>1 DEF TaskRecord
  <2>3. dead = [task EXCEPT ![t] = R]
    BY <1>2, <2>1
  <2>4. dead \in [Slot -> TaskRecord] /\ dead[t] = R /\ \A s \in Slot : s # t => dead[s] = task[s]
    BY <1>0, <2>2, <2>3
  <2> QED
    BY <2>2, <2>4
<1>7. /\ b \in [Slot -> TaskRecord]
      /\ \A s \in Slot : /\ b[s].state = (IF s = t THEN "zombie" ELSE task[s].state)
                         /\ b[s].call = task[s].call /\ b[s].pid = task[s].pid
                         /\ b[s].p_pptr = task[s].p_pptr /\ b[s].p_cptr = task[s].p_cptr
                         /\ b[s].p_osptr = task[s].p_osptr /\ b[s].p_ysptr = task[s].p_ysptr
                         /\ task[s].state = "none" => b[s] = task[s]
  <2>1. /\ b \in [Slot -> TaskRecord]
        /\ \A s \in Slot : /\ SameLife(dead[s], b[s])
                           /\ b[s].p_pptr = dead[s].p_pptr /\ b[s].p_cptr = dead[s].p_cptr
                           /\ b[s].p_osptr = dead[s].p_osptr /\ b[s].p_ysptr = dead[s].p_ysptr
                           /\ s # p => b[s] = dead[s]
    BY <1>3, <1>6, SetSignal
  <2>2. ASSUME NEW s \in Slot, task[s].state = "none" PROVE b[s] = task[s]
    <3>1. s # t /\ s # p
      BY <1>1, <1>5, <2>2
    <3> QED
      BY <1>6, <2>1, <3>1
  <2> QED
    BY <1>6, <2>1, <2>2 DEF SameLife
<1>8. CASE q = <<>>
  <2>1. task' = b
    BY <1>5, <1>8 DEF Bequeath
  <2>2. SameLinks(task, b)
    BY <1>5, <1>7 DEF SameLinks
  <2> QED
    BY <1>4, <1>5, <1>7, <1>8, <2>1, <2>2 DEF Died
<1>9. CASE q # <<>>
  <2>1. PICK o : o = L[1]
    OBVIOUS
  <2>2. /\ q \in Seq(Slot) /\ Len(q) \in Nat /\ DOMAIN q = 1 .. Len(q)
        /\ task[t].p_cptr = q[1] /\ 1 \in 1 .. Len(q)
        /\ \A k \in 1 .. Len(q) : q[k] \in Slot \ {0} /\ task[q[k]].state # "none"
    BY <1>4, <1>9, Member
  <2>3. o # <<>> /\ o[1] \in Slot /\ task[1].p_cptr = o[1] /\ task[o[1]].state # "none"
    <3>1. task[1].p_cptr # Nil
      BY <1>0, <1>5 DEF HasChild
    <3>2. /\ task[1].p_cptr = IF o = <<>> THEN Nil ELSE o[1]
          /\ o # <<>> => 1 \in 1 .. Len(o)
          /\ \A k \in 1 .. Len(o) : o[k] \in Slot \ {0} /\ task[o[k]].state # "none"
      BY <2>1, SlotFacts, Member
    <3> QED
      BY <3>1, <3>2
  <2>4. PICK old : old = q[Len(q)]
    OBVIOUS
  <2>5. old \in Slot /\ Len(q) \in 1 .. Len(q) /\ task[old].state # "none"
    BY <2>2, <2>4
  <2>6. PICK new : new = [s \in Slot |-> IF s \in ToSet(q) THEN [b[s] EXCEPT !.p_pptr = 1] ELSE b[s]]
    OBVIOUS
  <2>7. PICK told : told = IF \E s \in ToSet(q) : b[s].state = "zombie" THEN Posts(1, "SIGCHLD", new) ELSE new
    OBVIOUS
  <2>8. task' = [told EXCEPT ![old].p_osptr = b[1].p_cptr, ![b[1].p_cptr].p_ysptr = old,
                             ![1].p_cptr = b[t].p_cptr, ![t].p_cptr = Nil]
    <3> DEFINE cs == Children(t)
               nw == [s \in Slot |-> IF s \in ToSet(cs) THEN [b[s] EXCEPT !.p_pptr = 1] ELSE b[s]]
               td == IF \E s \in ToSet(cs) : b[s].state = "zombie" THEN Posts(1, "SIGCHLD", nw) ELSE nw
               own == b[1].p_cptr
    <3>1. cs = q /\ cs # <<>> /\ task' = Bequeath(t, b)
      BY <1>5, <1>9
    <3>2. Bequeath(t, b) = IF cs = <<>> THEN b
                           ELSE [td EXCEPT ![cs[Len(cs)]].p_osptr = own, ![own].p_ysptr = cs[Len(cs)],
                                           ![1].p_cptr = b[t].p_cptr, ![t].p_cptr = Nil]
      BY Zenon DEF Bequeath
    <3>3. td = told /\ cs[Len(cs)] = old
      BY <2>4, <2>6, <2>7, <3>1
    <3> HIDE DEF td, cs
    <3> QED
      BY <3>1, <3>2, <3>3
  <2>9. b[1].p_cptr = o[1] /\ b[t].p_cptr = q[1]
    BY <1>7, <2>2, <2>3, SlotFacts
  <2>a. PICK w1 : w1 = [told EXCEPT ![old].p_osptr = o[1]]
    OBVIOUS
  <2>b. PICK w2 : w2 = [w1 EXCEPT ![o[1]].p_ysptr = old]
    OBVIOUS
  <2>c. PICK w3 : w3 = [w2 EXCEPT ![1].p_cptr = q[1]]
    OBVIOUS
  <2>d. task' = [w3 EXCEPT ![t].p_cptr = Nil]
    BY <2>8, <2>9, <2>a, <2>b, <2>c
  <2>e. \A s : s \in ToSet(q) <=> Holds(q, s)
    BY DEF ToSet, Holds
  <2>f. /\ new \in [Slot -> TaskRecord]
        /\ \A s \in Slot : /\ SameLife(b[s], new[s]) /\ new[s].p_cptr = b[s].p_cptr
                           /\ new[s].p_osptr = b[s].p_osptr /\ new[s].p_ysptr = b[s].p_ysptr
                           /\ new[s].p_pptr = (IF Holds(q, s) THEN 1 ELSE b[s].p_pptr)
                           /\ ~Holds(q, s) => new[s] = b[s]
    <3>1. ASSUME NEW s \in Slot, NEW R, R = [b[s] EXCEPT !.p_pptr = 1]
          PROVE  /\ R \in TaskRecord /\ SameLife(b[s], R) /\ R.p_pptr = 1 /\ R.p_cptr = b[s].p_cptr
                 /\ R.p_osptr = b[s].p_osptr /\ R.p_ysptr = b[s].p_ysptr
      <4>1. b[s] \in TaskRecord /\ 1 \in Link
        BY <1>7, SlotFacts
      <4> QED
        BY <3>1, <4>1 DEF TaskRecord, SameLife
    <3>2. ASSUME NEW s \in Slot
          PROVE  /\ new[s] \in TaskRecord
                 /\ SameLife(b[s], new[s]) /\ new[s].p_cptr = b[s].p_cptr
                 /\ new[s].p_osptr = b[s].p_osptr /\ new[s].p_ysptr = b[s].p_ysptr
                 /\ new[s].p_pptr = (IF Holds(q, s) THEN 1 ELSE b[s].p_pptr)
                 /\ ~Holds(q, s) => new[s] = b[s]
      <4>1. CASE Holds(q, s)
        <5>1. PICK R : R = [b[s] EXCEPT !.p_pptr = 1]
          OBVIOUS
        <5>2. new[s] = R
          BY <2>6, <2>e, <4>1, <5>1
        <5> QED
          BY <3>1, <4>1, <5>1, <5>2
      <4>2. CASE ~Holds(q, s)
        <5>1. new[s] = b[s]
          BY <2>6, <2>e, <4>2
        <5> QED
          BY <1>7, <4>2, <5>1 DEF SameLife
      <4> QED
        BY <4>1, <4>2
    <3>3. new = [s \in Slot |-> new[s]]
      BY <2>6
    <3> QED
      BY <3>2, <3>3
  <2>g. /\ told \in [Slot -> TaskRecord]
        /\ \A s \in Slot : /\ SameLife(new[s], told[s])
                           /\ told[s].p_pptr = new[s].p_pptr /\ told[s].p_cptr = new[s].p_cptr
                           /\ told[s].p_osptr = new[s].p_osptr /\ told[s].p_ysptr = new[s].p_ysptr
                           /\ s # 1 => told[s] = new[s]
    <3>1. CASE told = new
      BY <2>f, <3>1 DEF SameLife
    <3>2. CASE told = Posts(1, "SIGCHLD", new)
      BY <2>f, <3>2, SlotFacts, SetSignal
    <3> QED
      BY <2>7, <3>1, <3>2
  <2>h. /\ w1 \in [Slot -> TaskRecord]
        /\ \A s \in Slot : /\ SameLife(told[s], w1[s])
                           /\ w1[s].p_pptr = told[s].p_pptr /\ w1[s].p_cptr = told[s].p_cptr
                           /\ w1[s].p_osptr = (IF s = old THEN o[1] ELSE told[s].p_osptr)
                           /\ w1[s].p_ysptr = told[s].p_ysptr
                           /\ s # old => w1[s] = told[s]
    <3>1. PICK v : v = o[1]
      OBVIOUS
    <3>2. v \in Link /\ w1 = [told EXCEPT ![old].p_osptr = v] /\ old \in Slot /\ told \in [Slot -> TaskRecord]
      BY <2>3, <2>5, <2>a, <2>g, <3>1, SlotFacts
    <3>3. /\ w1 \in [Slot -> TaskRecord]
          /\ \A s \in Slot : /\ SameLife(told[s], w1[s])
                             /\ w1[s].p_pptr = told[s].p_pptr /\ w1[s].p_cptr = told[s].p_cptr
                             /\ w1[s].p_osptr = (IF s = old THEN v ELSE told[s].p_osptr)
                             /\ w1[s].p_ysptr = told[s].p_ysptr
                             /\ s # old => w1[s] = told[s]
      BY <3>2, SetElder
    <3> QED
      BY <3>1, <3>3
  <2>i. /\ w2 \in [Slot -> TaskRecord]
        /\ \A s \in Slot : /\ SameLife(w1[s], w2[s])
                           /\ w2[s].p_pptr = w1[s].p_pptr /\ w2[s].p_cptr = w1[s].p_cptr
                           /\ w2[s].p_osptr = w1[s].p_osptr
                           /\ w2[s].p_ysptr = (IF s = o[1] THEN old ELSE w1[s].p_ysptr)
                           /\ s # o[1] => w2[s] = w1[s]
    <3>1. PICK x : x = o[1]
      OBVIOUS
    <3>2. x \in Slot /\ w2 = [w1 EXCEPT ![x].p_ysptr = old] /\ old \in Link /\ w1 \in [Slot -> TaskRecord]
      BY <2>3, <2>5, <2>b, <2>h, <3>1, SlotFacts
    <3>3. /\ w2 \in [Slot -> TaskRecord]
          /\ \A s \in Slot : /\ SameLife(w1[s], w2[s])
                             /\ w2[s].p_pptr = w1[s].p_pptr /\ w2[s].p_cptr = w1[s].p_cptr
                             /\ w2[s].p_osptr = w1[s].p_osptr
                             /\ w2[s].p_ysptr = (IF s = x THEN old ELSE w1[s].p_ysptr)
                             /\ s # x => w2[s] = w1[s]
      BY <3>2, SetYounger
    <3> QED
      BY <3>1, <3>3
  <2>j. /\ w3 \in [Slot -> TaskRecord]
        /\ \A s \in Slot : /\ SameLife(w2[s], w3[s])
                           /\ w3[s].p_pptr = w2[s].p_pptr
                           /\ w3[s].p_cptr = (IF s = 1 THEN q[1] ELSE w2[s].p_cptr)
                           /\ w3[s].p_osptr = w2[s].p_osptr /\ w3[s].p_ysptr = w2[s].p_ysptr
                           /\ s # 1 => w3[s] = w2[s]
    <3>1. PICK v : v = q[1]
      OBVIOUS
    <3>2. v \in Link /\ w3 = [w2 EXCEPT ![1].p_cptr = v] /\ 1 \in Slot /\ w2 \in [Slot -> TaskRecord]
      BY <2>2, <2>c, <2>i, <3>1, SlotFacts
    <3>3. /\ w3 \in [Slot -> TaskRecord]
          /\ \A s \in Slot : /\ SameLife(w2[s], w3[s])
                             /\ w3[s].p_pptr = w2[s].p_pptr
                             /\ w3[s].p_cptr = (IF s = 1 THEN v ELSE w2[s].p_cptr)
                             /\ w3[s].p_osptr = w2[s].p_osptr /\ w3[s].p_ysptr = w2[s].p_ysptr
                             /\ s # 1 => w3[s] = w2[s]
      BY <3>2, SetChild
    <3> QED
      BY <3>1, <3>3
  <2>k. /\ task' \in [Slot -> TaskRecord]
        /\ \A s \in Slot : /\ SameLife(w3[s], task'[s])
                           /\ task'[s].p_pptr = w3[s].p_pptr
                           /\ task'[s].p_cptr = (IF s = t THEN Nil ELSE w3[s].p_cptr)
                           /\ task'[s].p_osptr = w3[s].p_osptr /\ task'[s].p_ysptr = w3[s].p_ysptr
                           /\ s # t => task'[s] = w3[s]
    <3>1. PICK w4 : w4 = task'
      OBVIOUS
    <3>2. w4 = [w3 EXCEPT ![t].p_cptr = Nil]
      BY <2>d, <3>1
    <3>3. /\ w4 \in [Slot -> TaskRecord]
          /\ \A s \in Slot : /\ SameLife(w3[s], w4[s])
                             /\ w4[s].p_pptr = w3[s].p_pptr
                             /\ w4[s].p_cptr = (IF s = t THEN Nil ELSE w3[s].p_cptr)
                             /\ w4[s].p_osptr = w3[s].p_osptr /\ w4[s].p_ysptr = w3[s].p_ysptr
                             /\ s # t => w4[s] = w3[s]
      BY <2>j, <3>2, SlotFacts, SetChild
    <3> QED
      BY <3>1, <3>3
  <2>l. ASSUME NEW s \in Slot
        PROVE  /\ SameLife(b[s], task'[s])
               /\ task'[s].p_pptr = (IF Holds(q, s) THEN 1 ELSE b[s].p_pptr)
               /\ task'[s].p_osptr = (IF s = old THEN o[1] ELSE b[s].p_osptr)
               /\ task'[s].p_ysptr = (IF s = o[1] THEN old ELSE b[s].p_ysptr)
               /\ task'[s].p_cptr = (IF s = t THEN Nil ELSE IF s = 1 THEN q[1] ELSE b[s].p_cptr)
    <3>1. SameLife(b[s], task'[s])
      BY <2>f, <2>g, <2>h, <2>i, <2>j, <2>k DEF SameLife
    <3>2. task'[s].p_pptr = (IF Holds(q, s) THEN 1 ELSE b[s].p_pptr)
      BY <2>f, <2>g, <2>h, <2>i, <2>j, <2>k
    <3>3. task'[s].p_osptr = (IF s = old THEN o[1] ELSE b[s].p_osptr)
      BY <2>f, <2>g, <2>h, <2>i, <2>j, <2>k
    <3>4. task'[s].p_ysptr = (IF s = o[1] THEN old ELSE b[s].p_ysptr)
      BY <2>f, <2>g, <2>h, <2>i, <2>j, <2>k
    <3>5. task'[s].p_cptr = (IF s = t THEN Nil ELSE IF s = 1 THEN q[1] ELSE b[s].p_cptr)
      BY <2>f, <2>g, <2>h, <2>i, <2>j, <2>k
    <3> QED
      BY <3>1, <3>2, <3>3, <3>4, <3>5
  <2>m. ASSUME NEW s \in Slot, task[s].state = "none" PROVE task'[s] = task[s]
    <3>1. s # t /\ s # 1 /\ s # old /\ s # o[1] /\ ~Holds(q, s)
      BY <1>0, <1>5, <2>2, <2>3, <2>5, <2>m DEF Elders, Holds
    <3> QED
      BY <1>7, <2>f, <2>g, <2>h, <2>i, <2>j, <2>k, <2>m, <3>1
  <2>n. Inherited(task, task', t, q, o)
    <3>1. ASSUME NEW s \in Slot
          PROVE  (task'[s].state = "none") <=> (task[s].state = "none")
      BY <1>5, <1>7, <2>l, <3>1 DEF SameLife
    <3>2. task'[1].p_cptr = q[1] /\ task'[t].p_cptr = Nil
      BY <1>5, <2>l, SlotFacts
    <3>3. \A s \in Slot :
          /\ task'[s].p_pptr = IF Holds(q, s) THEN 1 ELSE task[s].p_pptr
          /\ task'[s].p_osptr = IF s = q[Len(q)] THEN o[1] ELSE task[s].p_osptr
          /\ task'[s].p_ysptr = IF s = o[1] THEN q[Len(q)] ELSE task[s].p_ysptr
          /\ s \notin {1, t} => task'[s].p_cptr = task[s].p_cptr
      BY <1>7, <2>4, <2>l
    <3> QED
      BY <3>1, <3>2, <3>3 DEF Inherited
  <2>o. \A s \in Slot : /\ task'[s].state = (IF s = t THEN "zombie" ELSE task[s].state)
                        /\ task'[s].call = task[s].call /\ task'[s].pid = task[s].pid
    BY <1>7, <2>l DEF SameLife
  <2> QED
    BY <1>4, <1>5, <1>9, <2>1, <2>3, <2>k, <2>m, <2>n, <2>o DEF Died
<1> QED
  BY <1>8, <1>9

\* The lists after an exit.
Bequeathed(L, t) == [L EXCEPT ![1] = L[t] \o L[1], ![t] = <<>>]

\* After do_exit of t the links are those of the lists with t's children in front of init's.
LEMMA ListsDied ==
    ASSUME NEW tb, NEW tb2, NEW L, Lists(tb, L), NEW t \in Slot \ {0, 1}, Died(tb, tb2, L, t)
    PROVE  Lists(tb2, Bequeathed(L, t))
<1>0. L \in [Slot -> Seq(Slot)] /\ 1 \in Slot /\ t \in Slot \ {1}
  BY SlotFacts DEF Lists
<1>1. CASE L[t] = <<>>
  <2>1. L[1] \in Seq(Slot) /\ <<>> \o L[1] = L[1]
    BY <1>0
  <2>2. Bequeathed(L, t) = L
    BY <1>0, <1>1, <2>1 DEF Bequeathed
  <2> QED
    BY <1>1, <2>2, ListsSame DEF Died
<1>2. CASE L[t] # <<>>
  BY <1>0, <1>2, ListsInherited DEF Died, Bequeathed
<1> QED
  BY <1>1, <1>2

\* The invariant over an exit.
LEMMA GoodDied ==
    ASSUME NEW tb, NEW tb2, Good(tb), NEW L, Lists(tb, L), NEW t \in Slot \ {0, 1}, Died(tb, tb2, L, t)
    PROVE  Good(tb2)
<1>0. OwnPids(tb) /\ Parents(tb) /\ Bare(tb) /\ Elders(tb) /\ HasChild(tb)
  BY DEF Good
<1>1. /\ tb2 \in [Slot -> TaskRecord] /\ tb[t].state = "exiting"
      /\ \A s \in Slot : /\ tb2[s].state = (IF s = t THEN "zombie" ELSE tb[s].state)
                         /\ tb2[s].call = tb[s].call /\ tb2[s].pid = tb[s].pid
                         /\ tb[s].state = "none" => tb2[s] = tb[s]
  BY DEF Died
<1>2. PICK q : q = L[t]
  OBVIOUS
<1>3. /\ q \in Seq(Slot) /\ DOMAIN q = 1 .. Len(q)
      /\ q # <<>> => 1 \in 1 .. Len(q)
      /\ \A k \in 1 .. Len(q) : q[k] \in Slot \ {0} /\ q[k] # Nil /\ q # <<>>
  BY <1>2, Member
\* The new parents, and what becomes of init's first child.
<1>4. /\ \A s \in Slot : tb2[s].p_pptr = IF Holds(q, s) THEN 1 ELSE tb[s].p_pptr
      /\ tb2[1].p_cptr = tb[1].p_cptr \/ tb2[1].p_cptr # Nil
  <2>1. CASE q = <<>>
    <3>1. \A s \in Slot : ~Holds(q, s)
      BY <1>3, <2>1 DEF Holds
    <3> QED
      BY <1>2, <2>1, <3>1, SlotFacts DEF Died, SameLinks
  <2>2. CASE q # <<>>
    <3>1. Inherited(tb, tb2, t, q, L[1])
      BY <1>2, <2>2 DEF Died
    <3> QED
      BY <1>3, <2>2, <3>1 DEF Inherited
  <2> QED
    BY <2>1, <2>2
<1>5. Linked(tb2)
  <2>1. PICK M : M = Bequeathed(L, t)
    OBVIOUS
  <2>2. Lists(tb2, M)
    BY <2>1, ListsDied
  <2> QED
    BY <2>2 DEF Linked, Lists
<1>6. OwnPids(tb2)
  <2>1. \A s \in Slot : tb2[s].pid = tb[s].pid /\ (tb2[s].state # "none" => tb[s].state # "none")
    BY <1>1
  <2> QED
    BY <1>0, <2>1 DEF OwnPids
<1>7. Parents(tb2)
  <2> SUFFICES ASSUME NEW s \in Slot, tb2[s].state # "none"
               PROVE  tb2[s].p_pptr \in Slot /\ tb2[tb2[s].p_pptr].state \notin {"none", "zombie"}
    BY DEF Parents
  <2>1. tb[s].state # "none"
    BY <1>1
  <2>2. CASE Holds(q, s)
    BY <1>0, <1>1, <1>4, <2>2, SlotFacts DEF Elders
  <2>3. CASE ~Holds(q, s)
    <3>1. PICK p \in Slot : p = tb[s].p_pptr /\ tb[p].state \notin {"none", "zombie"} /\ tb2[s].p_pptr = p
      BY <1>0, <1>4, <2>1, <2>3 DEF Parents
    <3>2. p # t
      <4>1. CASE s = 0
        BY <1>0, <3>1, <4>1 DEF Elders
      <4>2. CASE s # 0
        BY <1>2, <2>1, <2>3, <3>1, <4>2 DEF Lists
      <4> QED
        BY <4>1, <4>2
    <3> QED
      BY <1>1, <3>1, <3>2
  <2> QED
    BY <2>2, <2>3
<1>8. Bare(tb2)
  BY <1>0, <1>1 DEF Bare
<1>9. Elders(tb2)
  <2>1. ~Holds(q, 0)
    BY <1>3 DEF Holds
  <2> QED
    BY <1>0, <1>1, <1>4, <2>1, SlotFacts DEF Elders
<1>10. HasChild(tb2)
  BY <1>0, <1>1, <1>4 DEF HasChild
<1> QED
  BY <1>1, <1>5, <1>6, <1>7, <1>8, <1>9, <1>10 DEF Good

----------------------------------------------------------------------------
\* waitpid.

\* What release makes of the table with the lists L: the i-th child of t is gone.
Reaped(tb, tb2, L, t, i) ==
    /\ tb2 \in [Slot -> TaskRecord] /\ tb[t].state = "running" /\ tb[t].call # None
    /\ tb[L[t][i]].state = "zombie" /\ tb2[L[t][i]] = Empty
    /\ Released(tb, tb2, t, L[t], i)
    /\ \A s \in Slot : s # L[t][i] =>
          /\ tb2[s].state = tb[s].state /\ tb2[s].pid = tb[s].pid
          /\ tb2[s].call = IF s = t THEN None ELSE tb[s].call
          /\ tb[s].state = "none" => tb2[s] = tb[s]

\* It makes that.
LEMMA ReapMakes ==
    ASSUME Good(task), NEW L, Lists(task, L), NEW t \in Slot, NEW i \in 1 .. Len(L[t]),
           task[t].state = "running", task[t].call # None, task[L[t][i]].state = "zombie",
           task' = [Unlink(t, L[t][i]) EXCEPT ![t].call = None]
    PROVE  Reaped(task, task', L, t, i)
<1>0. task \in [Slot -> TaskRecord] /\ Parents(task) /\ L \in [Slot -> Seq(Slot)]
  BY DEF Good, Lists
<1>1. PICK q : q = L[t]
  OBVIOUS
<1>2. PICK c : c = q[i]
  OBVIOUS
<1>3. /\ q \in Seq(Slot) /\ Len(q) \in Nat /\ i \in 1 .. Len(q)
      /\ \A k \in 1 .. Len(q) :
            /\ q[k] \in Slot \ {0} /\ q[k] # Nil
            /\ task[q[k]].p_pptr = t /\ task[q[k]].state # "none"
            /\ task[q[k]].p_osptr = ElderIn(q, k)
            /\ task[q[k]].p_ysptr = YoungerIn(q, k)
  BY <1>1, Member
<1>4. PICK e : e = ElderIn(q, i)
  OBVIOUS
<1>5. PICK y : y = YoungerIn(q, i)
  OBVIOUS
<1>6. /\ c \in Slot /\ c # t /\ task[c].p_osptr = e /\ task[c].p_ysptr = y /\ task[c].p_pptr = t
      /\ task[c].state = "zombie"
  BY <1>1, <1>2, <1>3, <1>4, <1>5
<1>7. e = Nil \/ (e \in Slot /\ task[e].state # "none")
  <2>1. PICK l \in Nat : l = Len(q) /\ i \in 1 .. l
    BY <1>3
  <2>2. i # l => i + 1 \in 1 .. l
    BY <2>1
  <2> QED
    BY <1>3, <1>4, <2>1, <2>2 DEF ElderIn
<1>8. (y = Nil <=> i = 1) /\ (y = Nil \/ (y \in Slot /\ task[y].state # "none"))
  <2>1. i # 1 => i - 1 \in 1 .. Len(q)
    BY <1>3
  <2> QED
    BY <1>3, <1>5, <2>1 DEF YoungerIn
<1>9. task[c].p_cptr = Nil
  <2>1. PICK p : p = L[c]
    OBVIOUS
  <2>2. /\ task[c].p_cptr = IF p = <<>> THEN Nil ELSE p[1]
        /\ p # <<>> => 1 \in 1 .. Len(p)
        /\ \A k \in 1 .. Len(p) : p[k] \in Slot /\ task[p[k]].p_pptr = c /\ task[p[k]].state # "none"
    BY <1>6, <2>1, Member
  <2> QED
    BY <1>0, <1>6, <2>2 DEF Parents
<1>10. PICK up : up = IF e = Nil THEN task ELSE [task EXCEPT ![e].p_ysptr = y]
  OBVIOUS
<1>11. PICK down : down = IF y = Nil THEN [up EXCEPT ![t].p_cptr = e] ELSE [up EXCEPT ![y].p_osptr = e]
  OBVIOUS
<1>12. PICK un : un = [down EXCEPT ![c] = Empty]
  OBVIOUS
<1>13. task' = [un EXCEPT ![t].call = None]
  <2>1. Unlink(t, c) = un
    BY <1>6, <1>10, <1>11, <1>12 DEF Unlink
  <2> QED
    BY <1>1, <1>2, <2>1
<1>14. /\ up \in [Slot -> TaskRecord]
       /\ \A s \in Slot : /\ SameLife(task[s], up[s])
                          /\ up[s].p_pptr = task[s].p_pptr /\ up[s].p_cptr = task[s].p_cptr
                          /\ up[s].p_osptr = task[s].p_osptr
                          /\ up[s].p_ysptr = (IF s = e THEN y ELSE task[s].p_ysptr)
                          /\ s # e => up[s] = task[s]
  <2>1. CASE e = Nil
    BY <1>0, <1>10, <2>1, SlotFacts DEF SameLife
  <2>2. CASE e # Nil
    <3>1. PICK tb \in [Slot -> TaskRecord] : tb = task
      BY <1>0
    <3>2. e \in Slot /\ y \in Link /\ up = [tb EXCEPT ![e].p_ysptr = y]
      BY <1>7, <1>8, <1>10, <2>2, <3>1, SlotFacts
    <3>3. /\ up \in [Slot -> TaskRecord]
          /\ \A s \in Slot : /\ SameLife(tb[s], up[s])
                             /\ up[s].p_pptr = tb[s].p_pptr /\ up[s].p_cptr = tb[s].p_cptr
                             /\ up[s].p_osptr = tb[s].p_osptr
                             /\ up[s].p_ysptr = (IF s = e THEN y ELSE tb[s].p_ysptr)
                             /\ s # e => up[s] = tb[s]
      BY <3>2, SetYounger
    <3> QED
      BY <3>1, <3>3
  <2> QED
    BY <2>1, <2>2
<1>15. /\ down \in [Slot -> TaskRecord]
       /\ \A s \in Slot : /\ SameLife(up[s], down[s])
                          /\ down[s].p_pptr = up[s].p_pptr
                          /\ down[s].p_cptr = (IF s = t /\ i = 1 THEN e ELSE up[s].p_cptr)
                          /\ down[s].p_osptr = (IF s = y THEN e ELSE up[s].p_osptr)
                          /\ down[s].p_ysptr = up[s].p_ysptr
                          /\ s \notin {t, y} => down[s] = up[s]
  <2>0. e \in Link
    BY <1>7, SlotFacts
  <2>1. CASE y = Nil
    <3>1. down = [up EXCEPT ![t].p_cptr = e]
      BY <1>11, <2>1
    <3>2. /\ down \in [Slot -> TaskRecord]
          /\ \A s \in Slot : /\ SameLife(up[s], down[s])
                             /\ down[s].p_pptr = up[s].p_pptr
                             /\ down[s].p_osptr = up[s].p_osptr /\ down[s].p_ysptr = up[s].p_ysptr
                             /\ down[s].p_cptr = (IF s = t THEN e ELSE up[s].p_cptr)
                             /\ s # t => down[s] = up[s]
      BY <1>14, <2>0, <3>1, SetChild
    <3> QED
      BY <1>8, <2>1, <3>2, SlotFacts
  <2>2. CASE y # Nil
    <3>1. down = [up EXCEPT ![y].p_osptr = e] /\ y \in Slot /\ i # 1
      BY <1>8, <1>11, <2>2
    <3>2. /\ down \in [Slot -> TaskRecord]
          /\ \A s \in Slot : /\ SameLife(up[s], down[s])
                             /\ down[s].p_pptr = up[s].p_pptr /\ down[s].p_cptr = up[s].p_cptr
                             /\ down[s].p_ysptr = up[s].p_ysptr
                             /\ down[s].p_osptr = (IF s = y THEN e ELSE up[s].p_osptr)
                             /\ s # y => down[s] = up[s]
      BY <1>14, <2>0, <3>1, SetElder
    <3> QED
      BY <3>1, <3>2
  <2> QED
    BY <2>1, <2>2
<1>16. Empty \in TaskRecord /\ Empty.state = "none" /\ Empty.p_cptr = Nil
  <2>1. 0 \in 0 .. MaxPid
    BY PidAssumption, TasksAssumption
  <2> QED
    BY <2>1, SlotFacts DEF Empty, TaskRecord
<1>17. un \in [Slot -> TaskRecord] /\ un[c] = Empty /\ \A s \in Slot : s # c => un[s] = down[s]
  BY <1>6, <1>12, <1>15, <1>16
<1>18. PICK R : R = [un[t] EXCEPT !.call = None]
  OBVIOUS
<1>19. /\ R \in TaskRecord /\ R.state = un[t].state /\ R.pid = un[t].pid /\ R.call = None
       /\ R.p_pptr = un[t].p_pptr /\ R.p_cptr = un[t].p_cptr
       /\ R.p_osptr = un[t].p_osptr /\ R.p_ysptr = un[t].p_ysptr
  <2>1. un[t] \in TaskRecord
    BY <1>17
  <2> QED
    BY <1>18, <2>1 DEF TaskRecord
<1>20. task' \in [Slot -> TaskRecord] /\ task'[t] = R /\ \A s \in Slot : s # t => task'[s] = un[s]
  <2>1. task' = [un EXCEPT ![t] = R]
    BY <1>13, <1>18
  <2> QED
    BY <1>17, <1>19, <2>1
<1>21. ASSUME NEW s \in Slot, s # c
       PROVE  /\ task'[s].state = task[s].state /\ task'[s].pid = task[s].pid
              /\ task'[s].call = (IF s = t THEN None ELSE task[s].call)
              /\ task'[s].p_pptr = task[s].p_pptr
              /\ task'[s].p_osptr = (IF s = y THEN e ELSE task[s].p_osptr)
              /\ task'[s].p_ysptr = (IF s = e THEN y ELSE task[s].p_ysptr)
              /\ task'[s].p_cptr = (IF s = t /\ i = 1 THEN e ELSE task[s].p_cptr)
  <2>1. /\ un[s].state = task[s].state /\ un[s].pid = task[s].pid /\ un[s].call = task[s].call
        /\ un[s].p_pptr = task[s].p_pptr
        /\ un[s].p_osptr = (IF s = y THEN e ELSE task[s].p_osptr)
        /\ un[s].p_ysptr = (IF s = e THEN y ELSE task[s].p_ysptr)
        /\ un[s].p_cptr = (IF s = t /\ i = 1 THEN e ELSE task[s].p_cptr)
    BY <1>14, <1>15, <1>17, <1>21 DEF SameLife
  <2>2. CASE s = t
    <3>1. task'[s] = R /\ un[s] = un[t]
      BY <1>20, <2>2
    <3>2. task'[s].call = None
      BY <1>19, <3>1
    <3> QED
      BY <1>19, <2>1, <2>2, <3>1, <3>2
  <2>3. CASE s # t
    BY <1>20, <2>1, <2>3
  <2> QED
    BY <2>2, <2>3
<1>22. ASSUME NEW s \in Slot, task[s].state = "none" PROVE task'[s] = task[s]
  <2>1. s # t /\ s # c /\ s # e /\ s # y
    BY <1>6, <1>7, <1>8, <1>22, SlotFacts
  <2> QED
    BY <1>14, <1>15, <1>17, <1>20, <2>1
<1>23. task'[c] = Empty
  BY <1>6, <1>17, <1>20
<1>24. Released(task, task', t, q, i)
  <2>1. /\ task[c].p_cptr = Nil /\ task'[c].p_cptr = Nil /\ task'[c].state = "none"
        /\ \A s \in Slot : s # c =>
            /\ task'[s].p_pptr = task[s].p_pptr
            /\ task'[s].p_osptr = IF s = y THEN e ELSE task[s].p_osptr
            /\ task'[s].p_ysptr = IF s = e THEN y ELSE task[s].p_ysptr
            /\ task'[s].p_cptr = IF s = t /\ i = 1 THEN e ELSE task[s].p_cptr
            /\ (task'[s].state = "none") <=> (task[s].state = "none")
    BY <1>9, <1>16, <1>21, <1>23
  <2> QED
    BY <1>2, <1>4, <1>5, <2>1 DEF Released
<1> QED
  BY <1>1, <1>2, <1>20, <1>21, <1>22, <1>23, <1>24 DEF Reaped

\* The invariant over it.
LEMMA GoodReaped ==
    ASSUME NEW tb, NEW tb2, Good(tb), NEW L, Lists(tb, L), NEW t \in Slot, NEW i \in 1 .. Len(L[t]),
           Reaped(tb, tb2, L, t, i)
    PROVE  /\ Good(tb2) /\ t \notin {0, 1}
           /\ Lists(tb2, [L EXCEPT ![t] = RemoveFirst(L[t], L[t][i])])
<1>0. OwnPids(tb) /\ Parents(tb) /\ Bare(tb) /\ Elders(tb) /\ HasChild(tb)
  BY DEF Good
<1>1. PICK c : c = L[t][i]
  OBVIOUS
<1>2. /\ tb2 \in [Slot -> TaskRecord] /\ tb[t].state = "running" /\ tb[t].call # None
      /\ tb[c].state = "zombie" /\ tb2[c] = Empty /\ c \in Slot
      /\ \A s \in Slot : s # c =>
            /\ tb2[s].state = tb[s].state /\ tb2[s].pid = tb[s].pid
            /\ tb2[s].call = IF s = t THEN None ELSE tb[s].call
            /\ tb[s].state = "none" => tb2[s] = tb[s]
            /\ tb2[s].p_pptr = tb[s].p_pptr
            /\ s # t => tb2[s].p_cptr = tb[s].p_cptr
  <2>1. c \in Slot
    BY <1>1, Member
  <2> QED
    BY <1>1, <2>1 DEF Reaped, Released
<1>3. t # c /\ t \notin {0, 1} /\ c \notin {0, 1}
  BY <1>0, <1>2 DEF Elders
<1>4. PICK M : M = [L EXCEPT ![t] = RemoveFirst(L[t], L[t][i])]
  OBVIOUS
<1>5. Lists(tb2, M)
  <2>1. t # L[t][i] /\ Released(tb, tb2, t, L[t], i)
    BY <1>1, <1>3 DEF Reaped
  <2> QED
    BY <1>4, <2>1, ListsReleased
<1>6. Linked(tb2)
  BY <1>5 DEF Linked, Lists
<1>7. tb2[c].state = "none"
  BY <1>2 DEF Empty
<1>8. OwnPids(tb2)
  BY <1>0, <1>2, <1>7 DEF OwnPids
<1>9. Parents(tb2)
  <2> SUFFICES ASSUME NEW s \in Slot, tb2[s].state # "none"
               PROVE  tb2[s].p_pptr \in Slot /\ tb2[tb2[s].p_pptr].state \notin {"none", "zombie"}
    BY DEF Parents
  <2>1. s # c
    BY <1>7
  <2>2. PICK p \in Slot : p = tb[s].p_pptr /\ tb[p].state \notin {"none", "zombie"} /\ tb2[s].p_pptr = p
    BY <1>0, <1>2, <2>1 DEF Parents
  <2>3. p # c
    BY <1>2, <2>2
  <2> QED
    BY <1>2, <2>2, <2>3
<1>10. Bare(tb2)
  BY <1>0, <1>2 DEF Bare
<1>11. Elders(tb2)
  BY <1>0, <1>2, <1>3, SlotFacts DEF Elders
<1>12. HasChild(tb2)
  BY <1>0, <1>2, <1>3, <1>7, SlotFacts DEF HasChild
<1> QED
  BY <1>2, <1>3, <1>4, <1>5, <1>6, <1>8, <1>9, <1>10, <1>11, <1>12 DEF Good

----------------------------------------------------------------------------
\* The steps of the program, as what they make of the table with the lists L.
Makes(tb, tb2, L) ==
    \/ tb2 = tb
    \/ Quiet(tb, tb2)
    \/ \E t \in Slot : \E c \in Slot \ {0, 1} : Forked(tb, tb2, t, c)
    \/ \E t \in Slot \ {0, 1} : Died(tb, tb2, L, t)
    \/ \E t \in Slot : \E i \in 1 .. Len(L[t]) : Reaped(tb, tb2, L, t, i)

\* The search of a waitpid.
LEMMA SearchMakes ==
    ASSUME Good(task), NEW L, Lists(task, L), NEW t \in Slot, Search(t)
    PROVE  Makes(task, task', L)
<1>1. task[t].state = "running" /\ task[t].call # None
  BY DEF Search
<1>2. PICK q : q = L[t]
  OBVIOUS
<1>3. Children(t) = q /\ DOMAIN q = 1 .. Len(q) /\ Len(q) \in Nat
  <2>1. L \in [Slot -> Seq(Slot)]
    BY DEF Lists
  <2>2. DOMAIN L[t] = 1 .. Len(L[t]) /\ Len(L[t]) \in Nat
    BY Member
  <2> QED
    BY <1>2, <2>1, <2>2, ChildrenFound DEF ChildrenFit
<1> DEFINE zombies == {k \in DOMAIN q : q[k] \in Asked(t) /\ task[q[k]].state = "zombie"}
<1>4. \/ zombies # {} /\ task' = [Unlink(t, q[Min(zombies)]) EXCEPT ![t].call = None]
      \/ task' = [task EXCEPT ![t].call = None]
      \/ task' = [task EXCEPT ![t].state = "waiting"]
  BY <1>3 DEF Search
<1>5. CASE zombies # {} /\ task' = [Unlink(t, q[Min(zombies)]) EXCEPT ![t].call = None]
  <2>1. zombies \in SUBSET Nat
    BY <1>3
  <2>2. PICK i : i = Min(zombies)
    OBVIOUS
  <2>3. i \in zombies
    <3> HIDE DEF zombies
    <3> QED
      BY <1>5, <2>1, <2>2, MinOf
  <2>4. i \in 1 .. Len(L[t]) /\ task[L[t][i]].state = "zombie"
    BY <1>2, <1>3, <2>3
  <2> HIDE DEF zombies
  <2>5. task' = [Unlink(t, L[t][i]) EXCEPT ![t].call = None]
    BY <1>2, <1>5, <2>2
  <2>6. Reaped(task, task', L, t, i)
    BY <1>1, <2>4, <2>5, ReapMakes
  <2> QED
    BY <2>4, <2>6 DEF Makes
<1> HIDE DEF zombies
<1>6. CASE task' = [task EXCEPT ![t].call = None]
  BY <1>1, <1>6, ReturnQuiet DEF Makes
<1>7. CASE task' = [task EXCEPT ![t].state = "waiting"]
  BY <1>1, <1>7, SleepQuiet DEF Makes
<1> QED
  BY <1>4, <1>5, <1>6, <1>7

\* Every step.
LEMMA StepMakes ==
    ASSUME FamilyInv, [Next]_vars, NEW L, Lists(task, L)
    PROVE  last_pid' \in 1 .. MaxPid /\ Makes(task, task', L)
<1>0. Good(task) /\ last_pid \in 1 .. MaxPid
  BY DEF FamilyInv
<1>1. CASE UNCHANGED vars
  BY <1>0, <1>1 DEF vars, Makes
<1>2. ASSUME NEW t \in Slot, Fork(t) PROVE last_pid' \in 1 .. MaxPid /\ Makes(task, task', L)
  BY <1>2, ForkMakes DEF Makes
<1>3. ASSUME NEW t \in Slot, Exit(t) PROVE last_pid' \in 1 .. MaxPid /\ Makes(task, task', L)
  BY <1>0, <1>3, ExitQuiet DEF Makes, Exit
<1>4. ASSUME NEW t \in Slot, Exited(t) PROVE last_pid' \in 1 .. MaxPid /\ Makes(task, task', L)
  <2>1. t \notin {0, 1} /\ last_pid' = last_pid
    BY <1>0, <1>4 DEF Exited, Good, Elders
  <2> QED
    BY <1>0, <1>4, <2>1, ExitedMakes DEF Makes
<1>5. ASSUME NEW t \in Slot, Search(t) PROVE last_pid' \in 1 .. MaxPid /\ Makes(task, task', L)
  <2>1. last_pid' = last_pid
    BY <1>5 DEF Search
  <2> QED
    BY <1>0, <1>5, <2>1, SearchMakes
<1>6. ASSUME NEW t \in Slot, Wake(t) PROVE last_pid' \in 1 .. MaxPid /\ Makes(task, task', L)
  BY <1>0, <1>6, WakeQuiet DEF Makes, Wake
<1>7. ASSUME NEW t \in Slot, NEW pid \in Asks, WaitPid(t, pid)
      PROVE  last_pid' \in 1 .. MaxPid /\ Makes(task, task', L)
  BY <1>0, <1>7, WaitPidQuiet DEF Makes, WaitPid
<1>8. ASSUME NEW t \in Slot, NEW s \in Slot, Kill(t, s)
      PROVE  last_pid' \in 1 .. MaxPid /\ Makes(task, task', L)
  <2>1. task[s].state # "none" /\ task' = Posts(s, "SIGTERM", task) /\ last_pid' = last_pid
    BY <1>8 DEF Kill, Used
  <2> QED
    BY <1>0, <2>1, PostQuiet DEF Makes
<1> QED
  BY <1>1, <1>2, <1>3, <1>4, <1>5, <1>6, <1>7, <1>8 DEF Next

\* Every step keeps the invariant.
LEMMA StepSound == FamilyInv /\ [Next]_vars => FamilyInv'
<1> SUFFICES ASSUME FamilyInv, [Next]_vars PROVE FamilyInv'
  OBVIOUS
<1>1. Good(task)
  BY DEF FamilyInv
<1>2. PICK L \in [Slot -> Seq(Slot)] : Lists(task, L)
  BY <1>1 DEF Good, Linked
<1>3. last_pid' \in 1 .. MaxPid /\ Makes(task, task', L)
  BY <1>2, StepMakes
<1>4. Good(task')
  <2>1. CASE Quiet(task, task')
    BY <1>1, <2>1, GoodQuiet
  <2>2. ASSUME NEW t \in Slot, NEW c \in Slot \ {0, 1}, Forked(task, task', t, c) PROVE Good(task')
    BY <1>1, <2>2, GoodForked
  <2>3. ASSUME NEW t \in Slot \ {0, 1}, Died(task, task', L, t) PROVE Good(task')
    BY <1>1, <1>2, <2>3, GoodDied
  <2>4. ASSUME NEW t \in Slot, NEW i \in 1 .. Len(L[t]), Reaped(task, task', L, t, i) PROVE Good(task')
    BY <1>1, <1>2, <2>4, GoodReaped
  <2> QED
    BY <1>1, <1>3, <2>1, <2>2, <2>3, <2>4 DEF Makes
<1> QED
  BY <1>3, <1>4 DEF FamilyInv

\* The invariant always holds.
THEOREM FamilyInvariant == Spec => []FamilyInv
<1>1. Init => FamilyInv
  BY InitSound
<1>2. FamilyInv /\ [Next]_vars => FamilyInv'
  BY StepSound
<1> QED
  BY <1>1, <1>2, PTL DEF Spec

\* Over every sequence of forks, exits and waits the links agree in both
\* directions and with the parents, no pid is twice, every parent lives, and
\* init has a child when a task dies.
THEOREM FamilySoundTheorem == Spec => []FamilySound
<1>1. FamilyInv => FamilySound
  BY InvHolds
<1> QED
  BY <1>1, FamilyInvariant, PTL

----------------------------------------------------------------------------
\* The promise of Family.

\* What Family sees of the table.
Kids == [s \in Slot |-> Children(s)]
Dead == {s \in Slot : task[s].state = "zombie"}

\* The zombies of a table, and the members of the lists L.
Zombies(tb) == {s \in Slot : tb[s].state = "zombie"}
Listed(L) == {0} \cup UNION {ToSet(L[s]) : s \in Slot}

\* What Family sees of the children are the lists that the links are those of.
LEMMA KidsFound ==
    ASSUME NEW L, Lists(task, L)
    PROVE  Kids = L
<1>1. L \in [Slot -> Seq(Slot)]
  BY DEF Lists
<1>2. \A s \in Slot : Children(s) = L[s]
  BY <1>1, ChildrenFound DEF ChildrenFit
<1> QED
  BY <1>1, <1>2 DEF Kids

\* The same of the state after a step.
LEMMA KidsNext ==
    ASSUME ChildrenFit', NEW L, Lists(task', L)
    PROVE  Kids' = L
<1>1. L \in [Slot -> Seq(Slot)]
  BY DEF Lists
<1>2. \A s \in Slot : Children(s)' = L[s]
  BY <1>1 DEF ChildrenFit
<1> QED
  BY <1>1, <1>2 DEF Kids

\* The members of the lists are the used slots.
LEMMA ListedUsed ==
    ASSUME NEW tb, Good(tb), NEW L, Lists(tb, L)
    PROVE  Listed(L) = {s \in Slot : tb[s].state # "none"}
<1>1. ASSUME NEW s \in Slot, NEW c \in ToSet(L[s]) PROVE c \in Slot /\ tb[c].state # "none"
  <2>1. PICK k \in DOMAIN L[s] : c = L[s][k]
    BY <1>1 DEF ToSet
  <2> QED
    BY <2>1, Member
<1>2. 0 \in Slot /\ tb[0].state # "none"
  BY SlotFacts DEF Good, Elders
<1>3. ASSUME NEW c \in Slot, tb[c].state # "none" PROVE c \in Listed(L)
  <2>1. CASE c = 0
    BY <2>1 DEF Listed
  <2>2. CASE c # 0
    <3>1. PICK p \in Slot : Holds(L[p], c)
      BY <1>3, <2>2 DEF Lists
    <3>2. c \in ToSet(L[p])
      BY <3>1 DEF Holds, ToSet
    <3> QED
      BY <3>2 DEF Listed
  <2> QED
    BY <2>1, <2>2
<1> QED
  BY <1>1, <1>2, <1>3 DEF Listed

\* A step of Family, from the lists K and the dead D to K2 and D2.
FamilyStep(K, D, K2, D2) ==
    \/ \E c \in Listed(K2) \ Listed(K) : \E t \in Listed(K) \ D :
          D2 = D /\ K2 = [K EXCEPT ![t] = <<c>> \o K[t]]
    \/ \E t \in D2 \ D : /\ t \in (Listed(K) \ D) \ {0, 1} /\ D2 = D \cup {t}
                         /\ K2 = [K EXCEPT ![1] = K[t] \o K[1], ![t] = <<>>]
    \/ \E c \in D \ D2 : \E t \in Listed(K) \ D :
          D2 = D \ {c} /\ c \in ToSet(K[t]) /\ K2 = [K EXCEPT ![t] = RemoveFirst(K[t], c)]

\* What a step of the program makes of the table is such a step, or nothing.
LEMMA MakesFamily ==
    ASSUME NEW tb, NEW tb2, Good(tb), Good(tb2), NEW L, Lists(tb, L), Makes(tb, tb2, L)
    PROVE  \E M : /\ Lists(tb2, M)
                  /\ \/ M = L /\ Zombies(tb2) = Zombies(tb)
                     \/ FamilyStep(L, Zombies(tb), M, Zombies(tb2))
<1>1. Listed(L) = {s \in Slot : tb[s].state # "none"}
  BY ListedUsed
<1>2. CASE tb2 = tb
  BY <1>2
<1>3. CASE Quiet(tb, tb2)
  <2>1. Lists(tb2, L)
    BY <1>3, ListsSame DEF Quiet
  <2>2. Zombies(tb2) = Zombies(tb)
    BY <1>3 DEF Quiet, Zombies
  <2> QED
    BY <2>1, <2>2
<1>4. ASSUME NEW t \in Slot, NEW c \in Slot \ {0, 1}, Forked(tb, tb2, t, c)
      PROVE  \E M : Lists(tb2, M) /\ FamilyStep(L, Zombies(tb), M, Zombies(tb2))
  <2>1. PICK M : M = [L EXCEPT ![t] = <<c>> \o L[t]]
    OBVIOUS
  <2>2. Lists(tb2, M)
    BY <1>4, <2>1, ListsBorn DEF Forked
  <2>3. Listed(M) = {s \in Slot : tb2[s].state # "none"}
    BY <2>2, ListedUsed
  <2>4. /\ tb[c].state = "none" /\ tb2[c].state = "running" /\ tb[t].state = "running"
        /\ \A s \in Slot \ {c} : tb2[s].state = tb[s].state
    BY <1>4 DEF Forked, Born
  <2>5. c \in Listed(M) \ Listed(L) /\ t \in Listed(L) \ Zombies(tb)
    BY <1>1, <2>3, <2>4 DEF Zombies
  <2>6. Zombies(tb2) = Zombies(tb)
    BY <2>4 DEF Zombies
  <2>7. FamilyStep(L, Zombies(tb), M, Zombies(tb2))
    BY <2>1, <2>5, <2>6 DEF FamilyStep
  <2> QED
    BY <2>2, <2>7
<1>5. ASSUME NEW t \in Slot \ {0, 1}, Died(tb, tb2, L, t)
      PROVE  \E M : Lists(tb2, M) /\ FamilyStep(L, Zombies(tb), M, Zombies(tb2))
  <2>1. PICK M : M = [L EXCEPT ![1] = L[t] \o L[1], ![t] = <<>>]
    OBVIOUS
  <2>2. Lists(tb2, M)
    BY <1>5, <2>1, ListsDied DEF Bequeathed
  <2>3. /\ tb[t].state = "exiting"
        /\ \A s \in Slot : tb2[s].state = IF s = t THEN "zombie" ELSE tb[s].state
    BY <1>5 DEF Died
  <2>4. t \in Zombies(tb2) \ Zombies(tb) /\ t \in (Listed(L) \ Zombies(tb)) \ {0, 1}
    BY <1>1, <2>3 DEF Zombies
  <2>5. Zombies(tb2) = Zombies(tb) \cup {t}
    BY <2>3 DEF Zombies
  <2>6. FamilyStep(L, Zombies(tb), M, Zombies(tb2))
    BY <2>1, <2>4, <2>5 DEF FamilyStep
  <2> QED
    BY <2>2, <2>6
<1>6. ASSUME NEW t \in Slot, NEW i \in 1 .. Len(L[t]), Reaped(tb, tb2, L, t, i)
      PROVE  \E M : Lists(tb2, M) /\ FamilyStep(L, Zombies(tb), M, Zombies(tb2))
  <2>1. PICK c : c = L[t][i]
    OBVIOUS
  <2>2. PICK M : M = [L EXCEPT ![t] = RemoveFirst(L[t], c)]
    OBVIOUS
  <2>3. Lists(tb2, M)
    BY <1>6, <2>1, <2>2, GoodReaped
  <2>4. /\ tb[t].state = "running" /\ tb[c].state = "zombie" /\ tb2[c] = Empty /\ c \in Slot
        /\ c \in ToSet(L[t])
        /\ \A s \in Slot : s # c => tb2[s].state = tb[s].state
    <3>1. c \in Slot /\ i \in DOMAIN L[t]
      BY <2>1, Member
    <3>2. c \in ToSet(L[t])
      BY <2>1, <3>1 DEF ToSet
    <3> QED
      BY <1>6, <2>1, <3>1, <3>2 DEF Reaped
  <2>5. tb2[c].state = "none"
    BY <2>4 DEF Empty
  <2>6. c \in Zombies(tb) \ Zombies(tb2) /\ t \in Listed(L) \ Zombies(tb)
    BY <1>1, <2>4, <2>5 DEF Zombies
  <2>7. Zombies(tb2) = Zombies(tb) \ {c}
    BY <2>4, <2>5 DEF Zombies
  <2>8. FamilyStep(L, Zombies(tb), M, Zombies(tb2))
    BY <2>2, <2>4, <2>6, <2>7 DEF FamilyStep
  <2> QED
    BY <2>3, <2>8
<1> QED
  BY <1>2, <1>3, <1>4, <1>5, <1>6 DEF Makes

\* So every step of the program is a step of Family, or leaves the lists and the
\* dead as they are.
LEMMA StepTree ==
    ASSUME FamilyInv, FamilyInv', ChildrenFit', [Next]_vars
    PROVE  [Tree!Next]_<<Kids, Dead>>
<1>1. PICK L \in [Slot -> Seq(Slot)] : Lists(task, L)
  BY DEF FamilyInv, Good, Linked
<1>2. Good(task) /\ Good(task')
  BY DEF FamilyInv
<1>3. Makes(task, task', L)
  BY <1>1, StepMakes
<1>4. PICK M : /\ Lists(task', M)
               /\ \/ M = L /\ Zombies(task') = Zombies(task)
                  \/ FamilyStep(L, Zombies(task), M, Zombies(task'))
  BY <1>1, <1>2, <1>3, MakesFamily
<1>5. Kids = L /\ Kids' = M
  BY <1>1, <1>4, KidsFound, KidsNext
<1>6. Dead = Zombies(task) /\ Dead' = Zombies(task')
  BY DEF Dead, Zombies
<1>7. CASE M = L /\ Zombies(task') = Zombies(task)
  BY <1>5, <1>6, <1>7
<1>8. CASE FamilyStep(L, Zombies(task), M, Zombies(task'))
  <2>1. FamilyStep(Kids, Dead, Kids', Dead')
    BY <1>5, <1>6, <1>8
  <2>2. \A q : Tree!ToSet(q) = ToSet(q)
    BY DEF ToSet, Tree!ToSet
  <2>3. \A q, c : Tree!RemoveFirst(q, c) = RemoveFirst(q, c)
    BY DEF RemoveFirst, Tree!RemoveFirst, RemoveAt, Tree!RemoveAt,
           SelectInSeq, Tree!SelectInSeq, Min, Tree!Min
  <2>4. Tree!Members = Listed(Kids) /\ Tree!Members' = Listed(Kids')
    BY <2>2 DEF Tree!Members, Listed, Kids
  <2>5. Tree!Alive = Listed(Kids) \ Dead
    BY <2>4 DEF Tree!Alive, Dead
  <2>6. \A t, c : Tree!Birth(t, c) <=> Dead' = Dead /\ Kids' = [Kids EXCEPT ![t] = <<c>> \o Kids[t]]
    BY DEF Tree!Birth, Dead, Kids
  <2>7. \A t : Tree!Death(t) <=> /\ Dead' = Dead \cup {t}
                                /\ Kids' = [Kids EXCEPT ![1] = Kids[t] \o Kids[1], ![t] = <<>>]
    BY DEF Tree!Death, Dead, Kids
  <2>8. \A t, c : Tree!TakenOut(t, c) <=> /\ Dead' = Dead \ {c} /\ c \in ToSet(Kids[t])
                                         /\ Kids' = [Kids EXCEPT ![t] = RemoveFirst(Kids[t], c)]
    BY <2>2, <2>3 DEF Tree!TakenOut, Dead, Kids
  <2>9. Tree!Next <=>
           \/ \E c \in Tree!Members' \ Tree!Members : \E t \in Tree!Alive : Tree!Birth(t, c)
           \/ \E t \in Dead' \ Dead : t \in Tree!Alive \ {0, 1} /\ Tree!Death(t)
           \/ \E c \in Dead \ Dead' : \E t \in Tree!Alive : Tree!TakenOut(t, c)
    BY DEF Tree!Next, Dead
  <2>10. Tree!Next
    BY <2>1, <2>4, <2>5, <2>6, <2>7, <2>8, <2>9 DEF FamilyStep
  <2> QED
    BY <2>10
<1> QED
  BY <1>4, <1>7, <1>8
\* Before the first step.
LEMMA InitTree == Init => Tree!Init
<1> SUFFICES ASSUME Init PROVE Tree!Init
  OBVIOUS
<1>1. Good(task)
  BY InitSound DEF FamilyInv
<1>2. PICK L \in [Slot -> Seq(Slot)] : Lists(task, L)
  BY <1>1 DEF Good, Linked
<1>3. /\ task[0].p_cptr = 1 /\ \A s \in Slot \ {0} : task[s].p_cptr = Nil
      /\ \A s \in Slot : task[s].state # "zombie"
      /\ task[1].p_osptr = Nil
  BY SlotFacts DEF Init, Empty
<1>4. \A s \in Slot \ {0} : L[s] = <<>>
  <2> SUFFICES ASSUME NEW s \in Slot \ {0}, L[s] # <<>> PROVE FALSE
    OBVIOUS
  <2>1. task[s].p_cptr = L[s][1] /\ L[s][1] # Nil
    BY <1>2, Member
  <2> QED
    BY <1>3, <2>1
<1>5. L[0] = <<1>>
  <2>1. PICK q : q = L[0]
    OBVIOUS
  <2>2. /\ q \in Seq(Slot) /\ Len(q) \in Nat
        /\ task[0].p_cptr = IF q = <<>> THEN Nil ELSE q[1]
        /\ q # <<>> => 1 \in 1 .. Len(q)
        /\ \A k \in 1 .. Len(q) : q[k] # Nil /\ task[q[k]].p_osptr = ElderIn(q, k)
    BY <1>2, <2>1, SlotFacts, Member
  <2>3. q # <<>> /\ q[1] = 1 /\ 1 \in 1 .. Len(q)
    BY <1>3, <2>2, SlotFacts
  <2>4. Len(q) = 1
    <3> SUFFICES ASSUME Len(q) # 1 PROVE FALSE
      OBVIOUS
    <3>1. 1 + 1 \in 1 .. Len(q)
      <4>1. PICK l \in Nat : l = Len(q) /\ l # 1 /\ 1 \in 1 .. l
        BY <2>2, <2>3
      <4>2. 1 + 1 \in 1 .. l
        BY <4>1
      <4> QED
        BY <4>1, <4>2
    <3>2. q[1 + 1] = Nil
      BY <1>3, <2>2, <2>3 DEF ElderIn
    <3> QED
      BY <2>2, <3>1, <3>2
  <2>5. q = <<1>>
    BY <2>2, <2>3, <2>4
  <2> QED
    BY <2>1, <2>5
<1>6. Kids = [s \in Slot |-> IF s = 0 THEN <<1>> ELSE <<>>]
  <2>1. Kids = L
    BY <1>2, KidsFound
  <2> QED
    BY <1>2, <1>4, <1>5, <2>1
<1>7. Dead = {}
  BY <1>3 DEF Dead
<1> QED
  BY <1>6, <1>7 DEF Tree!Init, Kids, Dead

\* fork, exit and waitpid implement Family, for every size of the table: however
\* their half a dozen writes go, the lists of children change as it says.
THEOREM TreeTheorem == Spec => TreeSpec
<1>1. Init => Tree!Init
  BY InitTree
<1>2. FamilyInv /\ FamilyInv' /\ ChildrenFit' /\ [Next]_vars => [Tree!Next]_<<Kids, Dead>>
  BY StepTree
<1>3. ChildrenFit
  BY ChildrenFound
<1>4. TreeSpec <=> Tree!Init /\ [][Tree!Next]_<<Kids, Dead>>
  BY DEF TreeSpec, Tree!Spec, Kids, Dead
<1> QED
  BY <1>1, <1>2, <1>3, <1>4, FamilyInvariant, PTL DEF Spec
==============================================================================
