---------------------------- MODULE CommonLemmas ----------------------------
(***************************************************************************)
(* Facts about numbers, finite sets and lists that the proofs of several   *)
(* components need.  Where a proof is by induction, it goes through a      *)
(* least counterexample: LeastNumber for numbers.                          *)
(***************************************************************************)
EXTENDS SequencesExt, SequenceTheorems, FiniteSetTheorems, WellFoundedInduction, TLAPS

\* A set of numbers that is not empty has a least member.
LEMMA LeastNumber ==
    ASSUME NEW T \in SUBSET Nat, T # {}
    PROVE  \E x \in T : \A y \in T : x <= y
<1> DEFINE U == {1 .. n : n \in T}
<1>0. PICK t \in T : TRUE
  OBVIOUS
<1>1. U \subseteq FiniteSubsetsOf(Nat) /\ U # {}
  <2>1. \A n \in T : IsFiniteSet(1 .. n) /\ 1 .. n \subseteq Nat
    BY FS_Interval
  <2>2. 1 .. t \in U
    BY <1>0
  <2> QED
    BY <2>1, <2>2 DEF FiniteSubsetsOf
<1>2. PICK u \in U : \A v \in U : <<v, u>> \notin StrictSubsetOrdering(Nat)
  BY <1>1, FS_StrictSubsetOrderingWellFounded, WFMin
<1>3. PICK x \in T : u = 1 .. x
  OBVIOUS
<1>4. ASSUME NEW y \in T, y < x PROVE FALSE
  <2>1. 1 .. y \subseteq 1 .. x /\ x \in 1 .. x /\ x \notin 1 .. y
    BY <1>4
  <2>2. 1 .. y \in U /\ <<1 .. y, u>> \in (SUBSET Nat) \X (SUBSET Nat)
    BY <1>1, <1>3
  <2> QED
    BY <2>1, <2>2, <1>2, <1>3 DEF StrictSubsetOrdering
<1> QED
  BY <1>4

\* Min of a set of numbers.
LEMMA MinOf ==
    ASSUME NEW T \in SUBSET Nat, T # {}
    PROVE  Min(T) \in T /\ \A y \in T : Min(T) <= y
BY LeastNumber DEF Min

\* Max of a finite interval's subset.
LEMMA MaxOf ==
    ASSUME NEW n \in Nat, NEW T \in SUBSET (0 .. n), T # {}
    PROVE  Max(T) \in T /\ \A y \in T : Max(T) >= y
<1> DEFINE U == {n - x : x \in T}
<1>0. PICK t \in T : TRUE
  OBVIOUS
<1>1. U \in SUBSET Nat /\ U # {}
  <2>1. \A x \in T : n - x \in Nat
    OBVIOUS
  <2>2. n - t \in U
    BY <1>0
  <2> QED
    BY <2>1, <2>2
<1> HIDE DEF U
<1>2. PICK u \in U : \A v \in U : u <= v
  BY <1>1, LeastNumber
<1>3. \E x \in T : \A y \in T : x >= y
  <2>1. PICK x \in T : u = n - x
    BY <1>2 DEF U
  <2>2. \A y \in T : u <= n - y
    <3>1. TAKE y \in T
    <3>2. n - y \in U
      BY <3>1 DEF U
    <3> QED
      BY <1>2, <3>2
  <2>3. \A y \in T : x >= y
    <3>1. TAKE y \in T
    <3>2. u <= n - y
      BY <2>2, <3>1
    <3>3. x \in Nat /\ y \in Nat
      BY <2>1, <3>1
    <3> QED
      BY <2>1, <3>2, <3>3
  <2> QED
    BY <2>1, <2>3
<1> QED
  BY <1>3 DEF Max

----------------------------------------------------------------------------
\* x is in s; no element is twice in s.
Holds(s, x) == \E i \in DOMAIN s : s[i] = x
EachOnce(s) == \A i, j \in DOMAIN s : s[i] = s[j] => i = j

\* The first place of a sequence that passes a test.
LEMMA FirstPlace ==
    ASSUME NEW S, NEW s \in Seq(S), NEW x, Holds(s, x)
    PROVE  LET k == SelectInSeq(s, LAMBDA v : v = x)
           IN  k \in 1 .. Len(s) /\ s[k] = x
<1> DEFINE I == {i \in 1 .. Len(s) : s[i] = x}
<1>1. Len(s) \in Nat /\ DOMAIN s = 1 .. Len(s)
  BY LenProperties
<1>2. I \in SUBSET Nat /\ I # {}
  BY <1>1 DEF Holds
<1>3. SelectInSeq(s, LAMBDA v : v = x) = Min(I)
  BY <1>2 DEF SelectInSeq
<1>4. Min(I) \in I
  <2> HIDE DEF I
  <2> QED BY <1>2, MinOf
<1> QED
  BY <1>3, <1>4

\* Taking an element out of a list: the elements behind it move one place down.
LEMMA RemovedPlaces ==
    ASSUME NEW S, NEW s \in Seq(S), NEW x, Holds(s, x)
    PROVE  \E k \in 1 .. Len(s) :
              /\ s[k] = x
              /\ RemoveFirst(s, x) \in Seq(S) /\ Len(RemoveFirst(s, x)) = Len(s) - 1
              /\ DOMAIN RemoveFirst(s, x) = 1 .. Len(s) - 1
              /\ \A i \in 1 .. Len(s) - 1 : RemoveFirst(s, x)[i] = IF i < k THEN s[i] ELSE s[i + 1]
<1>0. Len(s) \in Nat /\ DOMAIN s = 1 .. Len(s) /\ \A i \in 1 .. Len(s) : s[i] \in S
  BY LenProperties, ElementOfSeq
<1> DEFINE k == SelectInSeq(s, LAMBDA v : v = x)
           r == RemoveFirst(s, x)
           a == SubSeq(s, 1, k - 1)
           b == SubSeq(s, k + 1, Len(s))
<1>1. k \in 1 .. Len(s) /\ s[k] = x
  BY FirstPlace
<1>2. r = a \o b
  BY <1>0 DEF RemoveFirst, RemoveAt, Holds
<1> HIDE DEF k, r
<1>3. a \in Seq(S) /\ Len(a) = k - 1 /\ \A j \in 1 .. k - 1 : a[j] = s[j]
  <2>1. 1 \in Int /\ k - 1 \in Int /\ \A i \in 1 .. k - 1 : s[i] \in S
    BY <1>0, <1>1
  <2>2. /\ a \in Seq(S) /\ Len(a) = IF 1 <= k - 1 THEN k - 1 - 1 + 1 ELSE 0
        /\ \A j \in 1 .. k - 1 - 1 + 1 : a[j] = s[1 + j - 1]
    BY <2>1, SubSeqProperties
  <2> QED
    BY <1>0, <1>1, <2>2
<1>4. b \in Seq(S) /\ Len(b) = Len(s) - k /\ \A j \in 1 .. Len(s) - k : b[j] = s[k + j]
  <2>1. k + 1 \in Int /\ Len(s) \in Int /\ \A i \in k + 1 .. Len(s) : s[i] \in S
    BY <1>0, <1>1
  <2>2. /\ b \in Seq(S) /\ Len(b) = IF k + 1 <= Len(s) THEN Len(s) - (k + 1) + 1 ELSE 0
        /\ \A j \in 1 .. Len(s) - (k + 1) + 1 : b[j] = s[k + 1 + j - 1]
    BY <2>1, SubSeqProperties
  <2> HIDE DEF b
  <2>3. \A j \in 1 .. Len(s) - k : b[j] = s[k + j]
    <3> SUFFICES ASSUME NEW j \in 1 .. Len(s) - k PROVE b[j] = s[k + j]
      OBVIOUS
    <3>1. k + 1 + j - 1 = k + j /\ j \in 1 .. Len(s) - (k + 1) + 1
      BY <1>0, <1>1
    <3> QED
      BY <2>2, <3>1
  <2>4. (IF k + 1 <= Len(s) THEN Len(s) - (k + 1) + 1 ELSE 0) = Len(s) - k
    <3>1. Len(s) \in Nat /\ k \in 1 .. Len(s)
      BY <1>0, <1>1
    <3> QED
      BY <3>1
  <2> QED
    BY <2>2, <2>3, <2>4
<1> HIDE DEF a, b
<1>5. /\ r \in Seq(S) /\ Len(r) = Len(a) + Len(b)
      /\ \A i \in 1 .. Len(a) + Len(b) : r[i] = IF i <= Len(a) THEN a[i] ELSE b[i - Len(a)]
  BY <1>2, <1>3, <1>4, ConcatProperties
<1>6. DOMAIN r = 1 .. Len(s) - 1
  BY <1>0, <1>1, <1>3, <1>4, <1>5, LenProperties
<1>7. ASSUME NEW i \in 1 .. Len(s) - 1 PROVE r[i] = IF i < k THEN s[i] ELSE s[i + 1]
  <2>0. i \in 1 .. (k - 1) + (Len(s) - k) /\ r[i] = IF i <= k - 1 THEN a[i] ELSE b[i - (k - 1)]
    BY <1>0, <1>1, <1>3, <1>4, <1>5
  <2>1. CASE i < k
    <3>1. i \in 1 .. k - 1
      BY <1>1, <2>1
    <3> QED
      BY <1>3, <2>0, <2>1, <3>1
  <2>2. CASE i >= k
    <3>1. r[i] = b[i - (k - 1)] /\ i - (k - 1) \in 1 .. Len(s) - k
      BY <1>0, <1>1, <2>0, <2>2
    <3>2. k + (i - (k - 1)) = i + 1 /\ ~(i < k)
      BY <1>0, <1>1, <2>2
    <3> QED
      BY <1>4, <3>1, <3>2
  <2>3. i < k \/ i >= k
    BY <1>0, <1>1
  <2> QED
    BY <2>1, <2>2, <2>3
<1>8. Len(r) = Len(s) - 1
  BY <1>0, <1>1, <1>3, <1>4, <1>5
<1> QED
  BY <1>1, <1>5, <1>6, <1>7, <1>8 DEF r

\* Taking an element out of a list of different elements leaves the others.
LEMMA RemovedOnce ==
    ASSUME NEW S, NEW s \in Seq(S), EachOnce(s), NEW x
    PROVE  /\ RemoveFirst(s, x) \in Seq(S)
           /\ EachOnce(RemoveFirst(s, x))
           /\ \A y : Holds(RemoveFirst(s, x), y) <=> Holds(s, y) /\ y # x
<1>1. Len(s) \in Nat /\ DOMAIN s = 1 .. Len(s) /\ \A i \in 1 .. Len(s) : s[i] \in S
  BY LenProperties, ElementOfSeq
<1>2. CASE ~Holds(s, x)
  <2>1. RemoveFirst(s, x) = s
    BY <1>1, <1>2 DEF RemoveFirst, Holds
  <2> QED
    BY <1>2, <2>1
<1>3. CASE Holds(s, x)
  <2> DEFINE r == RemoveFirst(s, x)
  <2>1. PICK k \in 1 .. Len(s) :
              /\ s[k] = x
              /\ r \in Seq(S) /\ Len(r) = Len(s) - 1
              /\ DOMAIN r = 1 .. Len(s) - 1
              /\ \A i \in 1 .. Len(s) - 1 : r[i] = IF i < k THEN s[i] ELSE s[i + 1]
    BY <1>3, RemovedPlaces
  <2> HIDE DEF r
  <2>5. r \in Seq(S)
    BY <2>1
  <2>6. DOMAIN r = 1 .. Len(s) - 1
    BY <2>1
  <2>7. ASSUME NEW i \in 1 .. Len(s) - 1 PROVE r[i] = IF i < k THEN s[i] ELSE s[i + 1]
    BY <2>1
  <2>8. EachOnce(r)
    <3> SUFFICES ASSUME NEW i \in 1 .. Len(s) - 1, NEW j \in 1 .. Len(s) - 1, r[i] = r[j]
                 PROVE  i = j
      BY <2>6 DEF EachOnce
    <3> DEFINE p == IF i < k THEN i ELSE i + 1
               q == IF j < k THEN j ELSE j + 1
    <3>1. p \in 1 .. Len(s) /\ q \in 1 .. Len(s) /\ r[i] = s[p] /\ r[j] = s[q]
      BY <1>1, <2>1, <2>7
    <3>2. p = q
      BY <1>1, <3>1 DEF EachOnce
    <3> QED
      BY <1>1, <2>1, <3>2
  <2>9. ASSUME NEW y PROVE Holds(r, y) <=> Holds(s, y) /\ y # x
    <3>1. ASSUME Holds(r, y) PROVE Holds(s, y) /\ y # x
      <4>1. PICK i \in 1 .. Len(s) - 1 : r[i] = y
        BY <2>6, <3>1 DEF Holds
      <4> DEFINE p == IF i < k THEN i ELSE i + 1
      <4>2. p \in 1 .. Len(s) /\ p # k /\ s[p] = y
        BY <1>1, <2>1, <2>7, <4>1
      <4> HIDE DEF p
      <4> QED
        BY <1>1, <2>1, <4>2 DEF Holds, EachOnce
    <3>2. ASSUME Holds(s, y), y # x PROVE Holds(r, y)
      <4>1. PICK i \in 1 .. Len(s) : s[i] = y
        BY <1>1, <3>2 DEF Holds
      <4> DEFINE p == IF i < k THEN i ELSE i - 1
      <4>2. i # k
        BY <2>1, <3>2, <4>1
      <4>3. p \in 1 .. Len(s) - 1 /\ (IF p < k THEN p ELSE p + 1) = i
        BY <1>1, <2>1, <4>2
      <4>4. r[p] = y
        BY <2>7, <4>1, <4>3
      <4> QED
        BY <2>6, <4>3, <4>4 DEF Holds
    <3> QED
      BY <3>1, <3>2
  <2> QED
    BY <2>5, <2>8, <2>9 DEF r
<1> QED
  BY <1>2, <1>3

\* Two lists of different elements without a common one, behind each other.
LEMMA JoinedOnce ==
    ASSUME NEW S, NEW s \in Seq(S), NEW u \in Seq(S), EachOnce(s), EachOnce(u),
           \A i \in DOMAIN s : \A j \in DOMAIN u : s[i] # u[j]
    PROVE  /\ s \o u \in Seq(S)
           /\ EachOnce(s \o u)
           /\ \A y : Holds(s \o u, y) <=> Holds(s, y) \/ Holds(u, y)
<1> DEFINE m == Len(s)
           n == Len(u)
           r == s \o u
<1>1. m \in Nat /\ n \in Nat /\ DOMAIN s = 1 .. m /\ DOMAIN u = 1 .. n
  BY LenProperties
<1>2. r \in Seq(S) /\ Len(r) = m + n /\ \A i \in 1 .. m + n : r[i] = IF i <= m THEN s[i] ELSE u[i - m]
  BY ConcatProperties
<1>3. DOMAIN r = 1 .. m + n
  BY <1>2, LenProperties
<1> HIDE DEF m, n, r
<1>4. ASSUME NEW i \in 1 .. m + n
      PROVE  \/ i \in 1 .. m /\ r[i] = s[i]
             \/ i > m /\ i - m \in 1 .. n /\ r[i] = u[i - m]
  BY <1>1, <1>2
<1>5. EachOnce(r)
  <2> SUFFICES ASSUME NEW i \in 1 .. m + n, NEW j \in 1 .. m + n, r[i] = r[j]
               PROVE  i = j
    BY <1>3 DEF EachOnce
  <2>1. CASE i \in 1 .. m /\ j \in 1 .. m
    BY <1>1, <1>4, <2>1 DEF EachOnce
  <2>2. CASE i > m /\ j > m
    <3>1. i - m \in 1 .. n /\ j - m \in 1 .. n /\ u[i - m] = u[j - m]
      BY <1>1, <1>4, <2>2
    <3>2. i - m = j - m
      BY <1>1, <3>1 DEF EachOnce
    <3> QED
      BY <1>1, <3>2
  <2>3. CASE i \in 1 .. m /\ j > m
    BY <1>1, <1>4, <2>3
  <2>4. CASE i > m /\ j \in 1 .. m
    BY <1>1, <1>4, <2>4
  <2> QED
    BY <1>1, <2>1, <2>2, <2>3, <2>4
<1>6. ASSUME NEW y PROVE Holds(r, y) <=> Holds(s, y) \/ Holds(u, y)
  <2>1. ASSUME Holds(r, y) PROVE Holds(s, y) \/ Holds(u, y)
    BY <1>1, <1>3, <1>4, <2>1 DEF Holds
  <2>2. ASSUME NEW i \in 1 .. m, s[i] = y PROVE Holds(r, y)
    BY <1>1, <1>2, <1>3, <2>2 DEF Holds
  <2>3. ASSUME NEW j \in 1 .. n, u[j] = y PROVE Holds(r, y)
    <3>1. m + j \in 1 .. m + n /\ ~(m + j <= m) /\ (m + j) - m = j
      BY <1>1
    <3>2. r[m + j] = u[j]
      BY <1>2, <3>1
    <3> QED
      BY <1>3, <2>3, <3>1, <3>2 DEF Holds
  <2> QED
    BY <1>1, <2>1, <2>2, <2>3 DEF Holds
<1> QED
  BY <1>2, <1>5, <1>6 DEF r

\* A list with one element.
LEMMA SingleOnce ==
    ASSUME NEW S, NEW x \in S
    PROVE  <<x>> \in Seq(S) /\ EachOnce(<<x>>) /\ \A y : Holds(<<x>>, y) <=> y = x
BY DEF EachOnce, Holds

\* As many places as elements.
LEMMA OnceCounts ==
    ASSUME NEW S, NEW s \in Seq(S), EachOnce(s)
    PROVE  Cardinality(ToSet(s)) = Len(s)
<1>1. Len(s) \in Nat /\ DOMAIN s = 1 .. Len(s) /\ s \in [1 .. Len(s) -> S]
  BY LenProperties
<1>2. s \in Bijection(1 .. Len(s), ToSet(s))
  BY <1>1 DEF EachOnce, ToSet, Bijection, Injection, Surjection, IsInjective
<1>3. ExistsBijection(1 .. Len(s), ToSet(s))
  BY <1>2 DEF ExistsBijection
<1> QED
  BY <1>1, <1>3, FS_CountingElements
============================================================================
