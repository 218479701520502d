-------------------------- MODULE BufferCacheProofs --------------------------
(***************************************************************************)
(* Theorems about the request layer and the buffer cache on top of it.     *)
(*                                                                         *)
(* RequestQueue, for every table, set of devices and order of arrivals:    *)
(* table and chains agree, a chain is two sweeps at most, and no request   *)
(* displaces the one a device works on.  Their proofs cite RequestQueue's  *)
(* own assumptions and definitions only.                                   *)
(*                                                                         *)
(* BufferCache, for every number of tasks, buffers, blocks, devices and    *)
(* request slots: the lists, locks and keys of its buffers; what the       *)
(* buffers hold; and for which sizes of the cache getblk's loop over the   *)
(* free list always finds a buffer that is clean and unlocked.             *)
(***************************************************************************)
EXTENDS BufferCache, CommonLemmas

USE DEF READ, WRITE, Cmd

\* One of any two requests for different blocks goes first.
LEMMA InOrderTotal ==
    ASSUME NEW r \in Request, NEW q \in Request, r.block # q.block, ~InOrder(r, q)
    PROVE  InOrder(q, r)
<1>1. r.block \in Nat /\ q.block \in Nat /\ r.cmd \in {0, 1} /\ q.cmd \in {0, 1}
  BY BlockAssumption DEF Request
<1> QED
  BY <1>1 DEF InOrder

\* The place that add_request finds is behind the head and not past the end.
LEMMA LinkAfterPlace ==
    ASSUME NEW rs \in Seq(Request), rs # <<>>, NEW r \in Request
    PROVE  /\ LinkAfter(rs, r) \in 1 .. Len(rs)
           /\ LinkAfter(rs, r) < Len(rs) => FitsAfter(rs, LinkAfter(rs, r), r)
           /\ LinkAfter(rs, r) = Len(rs) => \A i \in 1 .. Len(rs) - 1 : ~FitsAfter(rs, i, r)
<1> DEFINE fits == {i \in 1 .. Len(rs) - 1 : FitsAfter(rs, i, r)}
<1>1. Len(rs) \in Nat \ {0}
  BY EmptySeq
<1>2. LinkAfter(rs, r) = IF fits = {} THEN Len(rs) ELSE Min(fits)
  BY DEF LinkAfter
<1>3. fits # {} => Min(fits) \in fits
  <2>1. fits \in SUBSET Nat
    BY <1>1
  <2> HIDE DEF fits
  <2> QED
    BY <2>1, MinOf
<1> QED
  BY <1>1, <1>2, <1>3

\* d is c with s put behind place k.
Inserted(d, c, k, s) ==
    /\ Len(d) = Len(c) + 1
    /\ \A j \in 1 .. Len(c) + 1 : d[j] = IF j <= k THEN c[j] ELSE IF j = k + 1 THEN s ELSE c[j - 1]

\* The places of a chain after slot s is linked behind place i.
LEMMA LinkedPlaces ==
    ASSUME NEW S, NEW c \in Seq(S), NEW i \in 1 .. Len(c), NEW s \in S
    PROVE  /\ Linked(c, i, s) \in Seq(S)
           /\ Inserted(Linked(c, i, s), c, i, s)
<1>1. Len(c) \in Nat /\ \A j \in 1 .. Len(c) : c[j] \in S
  BY LenProperties, ElementOfSeq
<1> DEFINE a == SubSeq(c, 1, i)
           b == SubSeq(c, i + 1, Len(c))
<1>2. a \in Seq(S) /\ Len(a) = i /\ \A j \in 1 .. i : a[j] = c[j]
  BY <1>1, SubSeqProperties
<1>3. b \in Seq(S) /\ Len(b) = Len(c) - i /\ \A j \in 1 .. Len(c) - i : b[j] = c[i + j]
  <2>1. \A j \in i + 1 .. Len(c) : c[j] \in S
    BY <1>1
  <2>2. /\ b \in Seq(S) /\ Len(b) = IF i + 1 <= Len(c) THEN Len(c) - (i + 1) + 1 ELSE 0
        /\ \A j \in 1 .. Len(c) - (i + 1) + 1 : b[j] = c[i + 1 + j - 1]
    BY <1>1, <2>1, SubSeqProperties
  <2>3. \A j \in 1 .. Len(c) - i : b[j] = c[i + j]
    <3> SUFFICES ASSUME NEW j \in 1 .. Len(c) - i PROVE b[j] = c[i + j]
      OBVIOUS
    <3>1. i + 1 + j - 1 = i + j /\ j \in 1 .. Len(c) - (i + 1) + 1
      BY <1>1
    <3> QED
      BY <2>2, <3>1
  <2> QED
    BY <1>1, <2>2, <2>3
<1> HIDE DEF a, b
<1> DEFINE d == a \o <<s>>
<1>4. d \in Seq(S) /\ Len(d) = i + 1 /\ \A j \in 1 .. i + 1 : d[j] = IF j <= i THEN c[j] ELSE s
  <2>1. <<s>> \in Seq(S) /\ Len(<<s>>) = 1 /\ <<s>>[1] = s
    OBVIOUS
  <2> QED
    BY <1>2, <2>1, ConcatProperties
<1> HIDE DEF d
<1>5. Linked(c, i, s) = d \o b
  BY DEF Linked, a, b, d
<1>6. /\ d \o b \in Seq(S) /\ Len(d \o b) = Len(d) + Len(b)
      /\ \A j \in 1 .. Len(d) + Len(b) : (d \o b)[j] = IF j <= Len(d) THEN d[j] ELSE b[j - Len(d)]
  BY <1>3, <1>4, ConcatProperties
<1>7. ASSUME NEW j \in 1 .. Len(c) + 1
      PROVE  (d \o b)[j] = IF j <= i THEN c[j] ELSE IF j = i + 1 THEN s ELSE c[j - 1]
  <2>1. CASE j <= i + 1
    <3>1. j \in 1 .. Len(d) + Len(b) /\ j <= Len(d) /\ j \in 1 .. i + 1
      BY <1>1, <1>3, <1>4, <2>1
    <3>2. (d \o b)[j] = d[j] /\ d[j] = IF j <= i THEN c[j] ELSE s
      BY <1>4, <1>6, <3>1
    <3> QED
      BY <3>1, <3>2
  <2>2. CASE j > i + 1
    <3>1. (d \o b)[j] = b[j - (i + 1)] /\ j - (i + 1) \in 1 .. Len(c) - i
      BY <1>1, <1>3, <1>4, <1>6, <2>2
    <3>2. i + (j - (i + 1)) = j - 1
      BY <1>1
    <3> QED
      BY <1>3, <3>1, <3>2, <2>2
  <2>3. j <= i + 1 \/ j > i + 1
    BY <1>1
  <2> QED
    BY <2>1, <2>2, <2>3
<1> QED
  BY <1>1, <1>3, <1>4, <1>5, <1>6, <1>7 DEF Inserted

----------------------------------------------------------------------------
\* The order of a chain turns back at one place at most.
Turns(rs)   == {i \in 1 .. Len(rs) - 1 : ~InOrder(rs[i], rs[i + 1])}
OneTurn(rs) == \A i, j \in Turns(rs) : i = j

\* Where no place fits, the last request is in order with the new one, or the
\* chain has not turned back before it: from the place of the turn on each
\* request is ahead of the new one, for else it had fitted before the first
\* that is not.
LEMMA LastInOrder ==
    ASSUME NEW rs \in Seq(Request), NEW r \in Request, OneTurn(rs),
           \A i \in 1 .. Len(rs) : rs[i].block # r.block,
           \A i \in 1 .. Len(rs) - 1 : ~FitsAfter(rs, i, r),
           NEW t \in Turns(rs)
    PROVE  InOrder(rs[Len(rs)], r)
<1>1. Len(rs) \in Nat /\ t \in 1 .. Len(rs) - 1 /\ \A i \in 1 .. Len(rs) : rs[i] \in Request
  BY LenProperties, ElementOfSeq DEF Turns
<1>2. \A i \in 1 .. Len(rs) - 1 : i # t => InOrder(rs[i], rs[i + 1])
  BY DEF OneTurn, Turns
<1> DEFINE late == {i \in t + 1 .. Len(rs) : ~InOrder(rs[i], r)}
<1>3. SUFFICES ASSUME late # {} PROVE FALSE
  BY <1>1
<1>4. late \in SUBSET Nat
  BY <1>1
<1>5. PICK k \in late : \A i \in late : k <= i
  <2> HIDE DEF late
  <2> QED
    BY <1>3, <1>4, LeastNumber
<1>6. k \in t + 1 .. Len(rs) /\ ~InOrder(rs[k], r) /\ k - 1 \in 1 .. Len(rs) - 1 /\ (k - 1) + 1 = k
  BY <1>1, <1>5
<1>7. InOrder(r, rs[k])
  BY <1>1, <1>6, InOrderTotal
<1>8. ~FitsAfter(rs, k - 1, r)
  BY <1>6
<1>9. ~InOrder(rs[k - 1], r) /\ InOrder(rs[k - 1], rs[k])
  BY <1>6, <1>7, <1>8 DEF FitsAfter
<1>10. k - 1 # t
  BY <1>1, <1>6, <1>9 DEF Turns
<1>11. k - 1 \in late
  BY <1>1, <1>6, <1>9, <1>10
<1> QED
  BY <1>5, <1>11, <1>6, <1>1

\* add_request's rule keeps the order of the chain (ll_rw_blk.c:54-66).
LEMMA LinkKeepsOrder ==
    ASSUME NEW rs \in Seq(Request), rs # <<>>, NEW r \in Request, OneTurn(rs),
           \A i \in 1 .. Len(rs) : rs[i].block # r.block,
           NEW ds, Inserted(ds, rs, LinkAfter(rs, r), r)
    PROVE  OneTurn(ds)
<1> DEFINE k == LinkAfter(rs, r)
           n == Len(rs)
<1>1. n \in Nat \ {0} /\ k \in 1 .. n
  BY EmptySeq, LinkAfterPlace
<1>2. Len(ds) = n + 1 /\ \A j \in 1 .. n + 1 : ds[j] = IF j <= k THEN rs[j] ELSE IF j = k + 1 THEN r ELSE rs[j - 1]
  BY DEF Inserted
<1>3. CASE k < n
  <2>1. FitsAfter(rs, k, r)
    BY <1>3, LinkAfterPlace
  <2> HIDE DEF k, n
  <2>2. \A j \in Turns(ds) : /\ j <= k => j \in Turns(rs)
                             /\ j > k => j > k + 1 /\ j - 1 \in Turns(rs)
    <3> SUFFICES ASSUME NEW j \in Turns(ds)
                 PROVE  /\ j <= k => j \in Turns(rs)
                        /\ j > k => j > k + 1 /\ j - 1 \in Turns(rs)
      OBVIOUS
    <3>1. j \in 1 .. n /\ ~InOrder(ds[j], ds[j + 1])
      BY <1>1, <1>2 DEF Turns
    <3>2. CASE j < k
      <4>1. ds[j] = rs[j] /\ ds[j + 1] = rs[j + 1] /\ j \in 1 .. n - 1
        BY <1>1, <1>2, <3>1, <3>2
      <4> QED
        BY <4>1, <3>1, <3>2, <1>1 DEF Turns, n
    <3>3. CASE j = k
      <4>1. ds[j] = rs[k] /\ ds[j + 1] = r /\ k \in 1 .. n - 1
        BY <1>1, <1>2, <1>3, <3>1, <3>3
      <4> QED
        BY <4>1, <3>1, <3>3, <2>1, <1>1 DEF Turns, FitsAfter, n
    <3>4. CASE j = k + 1
      <4>1. ds[j] = r /\ ds[j + 1] = rs[k + 1]
        BY <1>1, <1>2, <1>3, <3>1, <3>4
      <4> QED
        BY <4>1, <3>1, <2>1 DEF FitsAfter
    <3>5. CASE j > k + 1
      <4>1. ds[j] = rs[j - 1] /\ ds[j + 1] = rs[(j - 1) + 1] /\ j - 1 \in 1 .. n - 1
        BY <1>1, <1>2, <3>1, <3>5
      <4> QED
        BY <4>1, <3>1, <3>5, <1>1 DEF Turns, n
    <3> QED
      BY <1>1, <3>1, <3>2, <3>3, <3>4, <3>5
  <2>3. \A j \in Turns(ds) : j \in Int
    BY <1>1, <1>2 DEF Turns
  <2>4. ASSUME NEW i \in Turns(ds), NEW j \in Turns(ds) PROVE i = j
    <3>1. \A a, b \in Turns(rs) : a = b
      BY DEF OneTurn
    <3>2. i \in Int /\ j \in Int /\ k \in Int
      BY <1>1, <2>3
    <3>0. /\ i <= k => i \in Turns(rs)
          /\ i > k => i > k + 1 /\ i - 1 \in Turns(rs)
          /\ j <= k => j \in Turns(rs)
          /\ j > k => j > k + 1 /\ j - 1 \in Turns(rs)
      BY <2>2
    <3>3. CASE i <= k /\ j <= k
      BY <3>0, <3>1, <3>3
    <3>4. CASE i > k /\ j > k
      <4>1. i - 1 = j - 1
        BY <3>0, <3>1, <3>4
      <4> QED
        BY <4>1, <3>2
    <3>5. CASE i <= k /\ j > k
      <4>1. i = j - 1 /\ j > k + 1
        BY <3>0, <3>1, <3>5
      <4> QED
        BY <4>1, <3>2, <3>5
    <3>6. CASE i > k /\ j <= k
      <4>1. j = i - 1 /\ i > k + 1
        BY <3>0, <3>1, <3>6
      <4> QED
        BY <4>1, <3>2, <3>6
    <3> QED
      BY <3>2, <3>3, <3>4, <3>5, <3>6
  <2> QED
    BY <2>4 DEF OneTurn
<1>4. CASE k = n
  <2>1. \A i \in 1 .. n - 1 : ~FitsAfter(rs, i, r)
    BY <1>4, LinkAfterPlace
  <2>2. \A j \in Turns(ds) : j \in Turns(rs) \/ (j = n /\ ~InOrder(rs[n], r))
    <3> SUFFICES ASSUME NEW j \in Turns(ds)
                 PROVE  j \in Turns(rs) \/ (j = n /\ ~InOrder(rs[n], r))
      OBVIOUS
    <3> HIDE DEF k, n
    <3>1. j \in 1 .. n /\ ~InOrder(ds[j], ds[j + 1])
      BY <1>1, <1>2 DEF Turns
    <3>2. CASE j < n
      <4>1. ds[j] = rs[j] /\ ds[j + 1] = rs[j + 1] /\ j \in 1 .. n - 1
        BY <1>1, <1>2, <1>4, <3>1, <3>2
      <4> QED
        BY <4>1, <3>1 DEF Turns, n
    <3>3. CASE j = n
      <4>1. ds[j] = rs[n] /\ ds[j + 1] = r
        BY <1>1, <1>2, <1>4, <3>3
      <4> QED
        BY <4>1, <3>1, <3>3
    <3> QED
      BY <1>1, <3>1, <3>2, <3>3
  <2>3. \A j \in Turns(rs) : InOrder(rs[n], r)
    BY <2>1, LastInOrder
  <2> QED
    BY <2>2, <2>3 DEF OneTurn
<1> QED
  BY <1>1, <1>3, <1>4

----------------------------------------------------------------------------
\* A free slot s takes the request r and is linked behind place k of m's chain.
Takes(s, r, m, k) ==
    /\ request[s] = Free
    /\ request' = [request EXCEPT ![s] = r]
    /\ chain' \in [Major -> Seq(Slot)]
    /\ Inserted(chain'[m], chain[m], k, s)
    /\ \A n \in Major : n # m => chain'[n] = chain[n]
    /\ chain[m] # <<>> => k >= 1 /\ k = LinkAfter(Requests(request, chain[m]), r)

\* make_request's search ends at a free slot.
LEMMA ChosenIsFree ==
    ASSUME NEW cmd \in Cmd, FreeSlots(cmd) # {}
    PROVE  ChosenSlot(cmd) \in Slot /\ request[ChosenSlot(cmd)] = Free
<1>1. FreeSlots(cmd) \in SUBSET (0 .. NR_REQUEST - 1) /\ NR_REQUEST - 1 \in Nat
  BY SlotsAssumption DEF FreeSlots, MayTake, Slot
<1>2. Max(FreeSlots(cmd)) \in FreeSlots(cmd)
  BY <1>1, MaxOf
<1> QED
  BY <1>1, <1>2 DEF ChosenSlot, FreeSlots, Slot

\* What make_request and add_request do to table and chain.
LEMMA AddRequestTakes ==
    ASSUME QueueTypeOK, TableMatchesChains,
           NEW cmd \in Cmd, NEW blk \in Block, NEW b \in Buffer, AddRequest(cmd, blk, b)
    PROVE  \E s \in Slot, r \in Request, m \in Major : \E k \in 0 .. Len(chain[m]) :
              r.block = blk /\ m = MajorOf[blk] /\ Takes(s, r, m, k)
<1> DEFINE s == ChosenSlot(cmd)
           r == [cmd |-> cmd, block |-> blk, bh |-> b]
           m == MajorOf[blk]
           k == IF chain[m] = <<>> THEN 0 ELSE LinkAfter(Requests(request, chain[m]), r)
<1>1. s \in Slot /\ request[s] = Free
  BY ChosenIsFree DEF AddRequest
<1>2. r \in Request /\ r.block = blk /\ m \in Major
  BY MajorAssumption DEF Request
<1>3. chain[m] \in Seq(Slot) /\ Len(chain[m]) \in Nat /\ chain \in [Major -> Seq(Slot)]
  BY <1>2 DEF QueueTypeOK
<1>4. /\ request' = [request EXCEPT ![s] = r]
      /\ chain' = [chain EXCEPT ![m] = IF chain[m] = <<>> THEN <<s>> ELSE Linked(chain[m], k, s)]
  BY <1>2 DEF AddRequest
<1>5. CASE chain[m] = <<>>
  <2>1. /\ <<s>> \in Seq(Slot) /\ Len(<<s>>) = 1 /\ <<s>>[1] = s
        /\ Len(chain[m]) = 0 /\ k = 0
    BY <1>1, <1>5
  <2>2. chain'[m] = <<s>> /\ \A n \in Major : n # m => chain'[n] = chain[n]
    BY <1>2, <1>3, <1>4, <1>5
  <2>3. chain' \in [Major -> Seq(Slot)]
    BY <1>3, <1>4, <1>5, <2>1
  <2> HIDE DEF s, r, m, k
  <2>4. Inserted(chain'[m], chain[m], k, s) /\ k \in 0 .. Len(chain[m])
    BY <2>1, <2>2 DEF Inserted
  <2>5. Takes(s, r, m, k)
    BY <1>1, <1>4, <1>5, <2>2, <2>3, <2>4 DEF Takes
  <2>6. m = MajorOf[blk]
    BY DEF m
  <2> QED
    BY <1>1, <1>2, <2>4, <2>5, <2>6
<1>6. CASE chain[m] # <<>>
  <2>1. Requests(request, chain[m]) \in Seq(Request) /\ Len(Requests(request, chain[m])) = Len(chain[m])
    <3>1. DOMAIN chain[m] = 1 .. Len(chain[m]) /\ \A i \in 1 .. Len(chain[m]) : chain[m][i] \in Slot
      BY <1>3, LenProperties, ElementOfSeq
    <3>2. \A i \in 1 .. Len(chain[m]) : request[chain[m][i]] \in Request
      BY <1>2, <3>1 DEF QueueTypeOK, TableMatchesChains
    <3> QED
      BY <1>3, <3>1, <3>2 DEF Requests
  <2>2. k \in 1 .. Len(chain[m])
    <3>1. Len(chain[m]) # 0
      BY <1>3, <1>6, EmptySeq
    <3>2. Requests(request, chain[m]) # <<>>
      BY <2>1, <3>1, EmptySeq
    <3> QED
      BY <1>2, <1>6, <2>1, <3>2, LinkAfterPlace
  <2>3. chain'[m] = Linked(chain[m], k, s) /\ \A n \in Major : n # m => chain'[n] = chain[n]
    BY <1>2, <1>3, <1>4, <1>6
  <2>4. k \in 0 .. Len(chain[m]) /\ k >= 1 /\ k = LinkAfter(Requests(request, chain[m]), r)
    BY <1>3, <1>6, <2>2
  <2>5. m = MajorOf[blk]
    OBVIOUS
  <2> HIDE DEF k, r, s, m
  <2>6. Linked(chain[m], k, s) \in Seq(Slot) /\ Inserted(Linked(chain[m], k, s), chain[m], k, s)
    BY <1>1, <1>3, <2>2, LinkedPlaces
  <2>7. chain' \in [Major -> Seq(Slot)]
    BY <1>3, <1>4, <1>6, <2>6
  <2>8. Takes(s, r, m, k)
    BY <1>1, <1>4, <2>3, <2>4, <2>6, <2>7 DEF Takes
  <2> QED
    BY <1>1, <1>2, <2>4, <2>5, <2>8
<1> QED
  BY <1>5, <1>6

----------------------------------------------------------------------------
\* A slot in use is in one place of one chain: of two devices' chains, no slot
\* is in both, because its request is for one device only.
LEMMA JoinKeepsTable ==
    ASSUME QueueTypeOK, TableMatchesChains,
           NEW s \in Slot, NEW r \in Request, NEW m \in Major, NEW k \in 0 .. Len(chain[m]),
           MajorOf[r.block] = m, Takes(s, r, m, k)
    PROVE  QueueTypeOK' /\ TableMatchesChains'
<1>1. /\ request \in [Slot -> Request \cup {Free}] /\ chain \in [Major -> Seq(Slot)]
      /\ request[s] = Free /\ request' = [request EXCEPT ![s] = r]
      /\ chain' \in [Major -> Seq(Slot)] /\ r # Free
      /\ \A n \in Major : n # m => chain'[n] = chain[n]
  BY FreeAssumption DEF QueueTypeOK, Takes
<1>2. QueueTypeOK'
  BY <1>1 DEF QueueTypeOK
<1>3. \A n \in Major : /\ Len(chain[n]) \in Nat /\ DOMAIN chain[n] = 1 .. Len(chain[n])
                       /\ \A i \in DOMAIN chain[n] : chain[n][i] \in Slot
                       /\ Len(chain'[n]) \in Nat /\ DOMAIN chain'[n] = 1 .. Len(chain'[n])
                       /\ \A i \in DOMAIN chain'[n] : chain'[n][i] \in Slot
  BY <1>1, LenProperties, ElementOfSeq
<1>4. \A n \in Major : \A i \in DOMAIN chain[n] :
         chain[n][i] # s /\ request'[chain[n][i]] = request[chain[n][i]]
  BY <1>1, <1>3 DEF TableMatchesChains
<1>5. /\ Len(chain'[m]) = Len(chain[m]) + 1
      /\ \A j \in 1 .. Len(chain[m]) + 1 :
            chain'[m][j] = IF j <= k THEN chain[m][j] ELSE IF j = k + 1 THEN s ELSE chain[m][j - 1]
  BY DEF Takes, Inserted
\* Where each place of the new chain comes from.
<1> DEFINE Old(j) == IF j <= k THEN j ELSE j - 1
<1>6. \A j \in DOMAIN chain'[m] :
         \/ j = k + 1 /\ chain'[m][j] = s
         \/ j # k + 1 /\ Old(j) \in DOMAIN chain[m] /\ chain'[m][j] = chain[m][Old(j)]
  <2> SUFFICES ASSUME NEW j \in DOMAIN chain'[m]
               PROVE  \/ j = k + 1 /\ chain'[m][j] = s
                      \/ j # k + 1 /\ Old(j) \in DOMAIN chain[m] /\ chain'[m][j] = chain[m][Old(j)]
    OBVIOUS
  <2>1. /\ k \in Nat /\ Len(chain[m]) \in Nat /\ k <= Len(chain[m])
        /\ j \in 1 .. Len(chain[m]) + 1 /\ DOMAIN chain[m] = 1 .. Len(chain[m])
    BY <1>3, <1>5
  <2>2. chain'[m][j] = IF j <= k THEN chain[m][j] ELSE IF j = k + 1 THEN s ELSE chain[m][j - 1]
    BY <1>5, <2>1
  <2>3. CASE j <= k
    BY <2>1, <2>2, <2>3
  <2>4. CASE j = k + 1
    BY <2>1, <2>2, <2>4
  <2>5. CASE j > k + 1
    BY <2>1, <2>2, <2>5
  <2> QED
    BY <2>1, <2>3, <2>4, <2>5
<1>7. ASSUME NEW n \in Major, NEW i \in DOMAIN chain'[n]
      PROVE  /\ request'[chain'[n][i]] # Free
             /\ MajorOf[request'[chain'[n][i]].block] = n
             /\ \A j \in DOMAIN chain'[n] : chain'[n][i] = chain'[n][j] => i = j
  <2>1. CASE n # m
    BY <1>1, <1>4, <1>7, <2>1 DEF TableMatchesChains
  <2>2. CASE n = m
    <3>1. i = k + 1 => request'[chain'[n][i]] = r
      BY <1>1, <1>6, <1>7, <2>2
    <3>2. i # k + 1 => /\ request'[chain'[n][i]] # Free
                       /\ MajorOf[request'[chain'[n][i]].block] = n
      BY <1>4, <1>6, <1>7, <2>2 DEF TableMatchesChains
    <3>3. ASSUME NEW j \in DOMAIN chain'[n], chain'[n][i] = chain'[n][j] PROVE i = j
      <4>1. i = k + 1 <=> j = k + 1
        BY <1>4, <1>6, <1>7, <3>3, <2>2
      <4>2. i # k + 1 /\ j # k + 1 => Old(i) = Old(j)
        BY <1>6, <1>7, <3>3, <2>2 DEF TableMatchesChains
      <4>3. DOMAIN chain'[n] \subseteq Nat /\ k \in Nat
        BY <1>3, <2>2
      <4> QED
        BY <4>1, <4>2, <4>3
    <3> QED
      BY <1>1, <3>1, <3>2, <3>3, <2>2
  <2> QED
    BY <2>1, <2>2
<1>8. ASSUME NEW q \in Pending'
      PROVE  \E n \in Major : \E i \in DOMAIN chain'[n] : chain'[n][i] = q
  <2>1. CASE q = s
    <3>1. k + 1 \in 1 .. Len(chain[m]) + 1 /\ ~(k + 1 <= k)
      BY <1>3
    <3>2. k + 1 \in DOMAIN chain'[m] /\ chain'[m][k + 1] = s
      BY <1>3, <1>5, <3>1
    <3> QED
      BY <2>1, <3>2
  <2>2. CASE q # s
    <3>1. q \in Pending
      BY <1>1, <1>8, <2>2 DEF Pending
    <3>2. PICK n \in Major : \E i \in DOMAIN chain[n] : chain[n][i] = q
      BY <3>1 DEF TableMatchesChains
    <3>3. PICK i \in DOMAIN chain[n] : chain[n][i] = q
      BY <3>2
    <3>4. CASE n # m
      BY <1>1, <3>3, <3>4
    <3>5. CASE n = m /\ i <= k
      <4>1. i \in DOMAIN chain'[m] /\ chain'[m][i] = q
        BY <1>3, <1>5, <3>3, <3>5
      <4> QED
        BY <4>1
    <3>6. CASE n = m /\ i > k
      <4>1. /\ i + 1 \in 1 .. Len(chain[m]) + 1 /\ ~(i + 1 <= k)
            /\ i + 1 # k + 1 /\ (i + 1) - 1 = i
        BY <1>3, <3>3, <3>6
      <4>2. i + 1 \in DOMAIN chain'[m] /\ chain'[m][i + 1] = q
        BY <1>3, <1>5, <3>3, <3>6, <4>1
      <4> QED
        BY <4>2
    <3>7. i \in Int /\ k \in Int
      BY <1>3
    <3> QED
      BY <3>4, <3>5, <3>6, <3>7
  <2> QED
    BY <2>1, <2>2
<1>9. TableMatchesChains'
  BY <1>7, <1>8 DEF TableMatchesChains
<1> QED
  BY <1>2, <1>9

\* The order of every chain, and that of the chain a request joins.
LEMMA JoinKeepsOrder ==
    ASSUME QueueTypeOK, TableMatchesChains, TwoSweeps,
           NEW s \in Slot, NEW r \in Request, NEW m \in Major, NEW k \in 0 .. Len(chain[m]),
           r.block \notin PendingBlocks, Takes(s, r, m, k)
    PROVE  TwoSweeps'
<1> DEFINE rs == Requests(request, chain[m])
           ds == Requests(request', chain'[m])
<1>1. /\ request \in [Slot -> Request \cup {Free}] /\ chain \in [Major -> Seq(Slot)]
      /\ request[s] = Free /\ request' = [request EXCEPT ![s] = r]
      /\ chain' \in [Major -> Seq(Slot)]
      /\ \A n \in Major : n # m => chain'[n] = chain[n]
  BY DEF QueueTypeOK, Takes
<1>2. \A n \in Major :
         /\ Len(chain[n]) \in Nat /\ DOMAIN chain[n] = 1 .. Len(chain[n])
         /\ \A i \in DOMAIN chain[n] : chain[n][i] \in Slot
         /\ Len(chain'[n]) \in Nat /\ DOMAIN chain'[n] = 1 .. Len(chain'[n])
         /\ \A i \in DOMAIN chain'[n] : chain'[n][i] \in Slot
  BY <1>1, LenProperties, ElementOfSeq
<1>3. \A n \in Major : \A i \in DOMAIN chain[n] :
         /\ chain[n][i] # s /\ request[chain[n][i]] # Free
         /\ request[chain[n][i]] \in Request /\ request'[chain[n][i]] = request[chain[n][i]]
  BY <1>1, <1>2 DEF TableMatchesChains
<1>4. \A n \in Major : n # m => Requests(request', chain'[n]) = Requests(request, chain[n])
  BY <1>1, <1>3 DEF Requests
<1>5. OneTurn(ds)
  <2>1. /\ Len(chain'[m]) = Len(chain[m]) + 1
        /\ \A j \in 1 .. Len(chain[m]) + 1 :
              chain'[m][j] = IF j <= k THEN chain[m][j] ELSE IF j = k + 1 THEN s ELSE chain[m][j - 1]
    BY DEF Takes, Inserted
  <2>2. /\ rs \in Seq(Request) /\ Len(rs) = Len(chain[m])
        /\ \A i \in 1 .. Len(chain[m]) : rs[i] = request[chain[m][i]]
    BY <1>2, <1>3 DEF Requests
  <2>3. /\ Len(ds) = Len(chain[m]) + 1
        /\ \A i \in 1 .. Len(chain[m]) + 1 : ds[i] = request'[chain'[m][i]]
    BY <1>2, <2>1 DEF Requests
  <2>4. CASE chain[m] = <<>>
    <3>1. Len(chain[m]) = 0
      BY <2>4
    <3> QED
      BY <2>3, <3>1 DEF OneTurn, Turns
  <2>5. CASE chain[m] # <<>>
    <3>1. k = LinkAfter(rs, r) /\ k >= 1
      BY <2>5 DEF Takes
    <3>2. rs # <<>>
      BY <1>1, <2>2, <2>5, EmptySeq
    <3>3. OneTurn(rs)
      BY DEF TwoSweeps, OneTurn, Turns
    <3>4. \A i \in 1 .. Len(rs) : rs[i].block # r.block
      BY <1>1, <1>2, <1>3, <2>2 DEF PendingBlocks, Pending
    <3>5. ASSUME NEW j \in 1 .. Len(chain[m]) + 1
          PROVE  ds[j] = IF j <= k THEN rs[j] ELSE IF j = k + 1 THEN r ELSE rs[j - 1]
      <4>1. Len(chain[m]) \in Nat /\ k \in Nat /\ k <= Len(chain[m])
        BY <1>2
      <4>2. CASE j <= k
        <5>1. j \in 1 .. Len(chain[m]) /\ chain'[m][j] = chain[m][j]
          BY <2>1, <4>1, <4>2
        <5> QED
          BY <1>2, <1>3, <2>2, <2>3, <4>2, <5>1
      <4>3. CASE j = k + 1
        <5>1. chain'[m][j] = s /\ ~(j <= k)
          BY <2>1, <4>1, <4>3
        <5> QED
          BY <1>1, <2>3, <4>3, <5>1
      <4>4. CASE j > k + 1
        <5>1. j - 1 \in 1 .. Len(chain[m]) /\ chain'[m][j] = chain[m][j - 1] /\ ~(j <= k) /\ j # k + 1
          BY <2>1, <4>1, <4>4
        <5> QED
          BY <1>2, <1>3, <2>2, <2>3, <5>1
      <4> QED
        BY <4>1, <4>2, <4>3, <4>4
    <3>6. Inserted(ds, rs, k, r)
      BY <2>2, <2>3, <3>5 DEF Inserted
    <3> HIDE DEF rs, ds
    <3> QED
      BY <2>2, <3>1, <3>2, <3>3, <3>4, <3>6, LinkKeepsOrder
  <2> QED
    BY <2>4, <2>5
<1>6. \A n \in Major : OneTurn(Requests(request', chain'[n]))
  <2>1. \A n \in Major : OneTurn(Requests(request, chain[n]))
    BY DEF TwoSweeps, OneTurn, Turns
  <2> QED
    BY <1>4, <1>5, <2>1
<1> QED
  BY <1>6 DEF TwoSweeps, OneTurn, Turns

\* The chain without its head.
LEMMA EndKeepsSound ==
    ASSUME ChainsSound, NEW m \in Major, EndRequest(m)
    PROVE  ChainsSound'
<1>1. /\ request \in [Slot -> Request \cup {Free}] /\ chain \in [Major -> Seq(Slot)]
      /\ chain[m] # <<>>
      /\ request' = [request EXCEPT ![Head(chain[m])] = Free]
      /\ chain' = [chain EXCEPT ![m] = Tail(chain[m])]
  BY DEF ChainsSound, QueueTypeOK, EndRequest
<1>2. \A n \in Major : /\ Len(chain[n]) \in Nat /\ DOMAIN chain[n] = 1 .. Len(chain[n])
                       /\ \A i \in DOMAIN chain[n] : chain[n][i] \in Slot
  BY <1>1, LenProperties, ElementOfSeq
<1>3. /\ Tail(chain[m]) \in Seq(Slot) /\ Len(Tail(chain[m])) = Len(chain[m]) - 1
      /\ \A i \in 1 .. Len(chain[m]) - 1 : Tail(chain[m])[i] = chain[m][i + 1]
      /\ Head(chain[m]) = chain[m][1] /\ Len(chain[m]) > 0
  BY <1>1, HeadTailProperties, EmptySeq
<1>4. /\ chain' \in [Major -> Seq(Slot)]
      /\ \A n \in Major : n # m => chain'[n] = chain[n]
      /\ Len(chain'[m]) = Len(chain[m]) - 1
      /\ DOMAIN chain'[m] = 1 .. Len(chain[m]) - 1
      /\ \A i \in 1 .. Len(chain[m]) - 1 : chain'[m][i] = chain[m][i + 1]
  BY <1>1, <1>3, LenProperties
<1>5. QueueTypeOK'
  BY <1>1, <1>2, <1>3, <1>4 DEF QueueTypeOK
\* Each place of a chain that is left was one of the chain before, and not the head.
<1> DEFINE Old(n, i) == IF n = m THEN i + 1 ELSE i
<1>6. \A n \in Major : \A i \in DOMAIN chain'[n] :
         /\ Old(n, i) \in DOMAIN chain[n] /\ chain'[n][i] = chain[n][Old(n, i)]
         /\ chain[n][Old(n, i)] # Head(chain[m])
         /\ request'[chain'[n][i]] = request[chain'[n][i]]
  <2> SUFFICES ASSUME NEW n \in Major, NEW i \in DOMAIN chain'[n]
               PROVE  /\ Old(n, i) \in DOMAIN chain[n] /\ chain'[n][i] = chain[n][Old(n, i)]
                      /\ chain[n][Old(n, i)] # Head(chain[m])
                      /\ request'[chain'[n][i]] = request[chain'[n][i]]
    OBVIOUS
  <2>1. CASE n = m
    <3>1. i \in 1 .. Len(chain[m]) - 1 /\ i + 1 \in DOMAIN chain[m] /\ i + 1 # 1 /\ 1 \in DOMAIN chain[m]
      BY <1>2, <1>3, <1>4, <2>1
    <3>2. chain[m][i + 1] # chain[m][1]
      BY <3>1 DEF ChainsSound, TableMatchesChains
    <3> QED
      BY <1>1, <1>2, <1>3, <1>4, <2>1, <3>1, <3>2
  <2>2. CASE n # m
    <3>1. chain'[n] = chain[n] /\ i \in DOMAIN chain[n] /\ 1 \in DOMAIN chain[m]
      BY <1>2, <1>3, <1>4, <2>2
    <3>2. chain[n][i] # chain[m][1]
      BY <2>2, <3>1 DEF ChainsSound, TableMatchesChains
    <3> QED
      BY <1>1, <1>2, <1>3, <2>2, <3>1, <3>2
  <2> QED
    BY <2>1, <2>2
<1>7. \A n \in Major : \A i \in DOMAIN chain'[n] :
         /\ request'[chain'[n][i]] # Free
         /\ MajorOf[request'[chain'[n][i]].block] = n
  BY <1>6 DEF ChainsSound, TableMatchesChains
<1>8. \A n \in Major : \A i, j \in DOMAIN chain'[n] : chain'[n][i] = chain'[n][j] => i = j
  <2> SUFFICES ASSUME NEW n \in Major, NEW i \in DOMAIN chain'[n], NEW j \in DOMAIN chain'[n],
                      chain'[n][i] = chain'[n][j]
               PROVE  i = j
    OBVIOUS
  <2>1. Old(n, i) = Old(n, j)
    BY <1>6 DEF ChainsSound, TableMatchesChains
  <2>2. DOMAIN chain'[n] \subseteq Nat
    BY <1>2, <1>4
  <2> QED
    BY <2>1, <2>2
<1>9. ASSUME NEW q \in Pending'
      PROVE  \E n \in Major : \E i \in DOMAIN chain'[n] : chain'[n][i] = q
  <2>1. q \in Pending /\ q # Head(chain[m])
    BY <1>1, <1>2, <1>3, <1>9 DEF Pending
  <2>2. PICK n \in Major : \E i \in DOMAIN chain[n] : chain[n][i] = q
    BY <2>1 DEF ChainsSound, TableMatchesChains
  <2>3. PICK i \in DOMAIN chain[n] : chain[n][i] = q
    BY <2>2
  <2>4. CASE n # m
    BY <1>4, <2>3, <2>4
  <2>5. CASE n = m
    <3>1. i # 1
      BY <1>3, <2>1, <2>3, <2>5
    <3>2. i - 1 \in DOMAIN chain'[m] /\ (i - 1) + 1 = i /\ i - 1 \in 1 .. Len(chain[m]) - 1
      BY <1>2, <1>4, <2>3, <2>5, <3>1
    <3>3. chain'[m][i - 1] = q
      BY <1>4, <2>3, <2>5, <3>2
    <3> QED
      BY <3>2, <3>3
  <2> QED
    BY <2>4, <2>5
<1>10. TableMatchesChains'
  BY <1>7, <1>8, <1>9 DEF TableMatchesChains
<1>11. ASSUME NEW n \in Major
       PROVE  OneTurn(Requests(request', chain'[n]))
  <2> DEFINE rs == Requests(request, chain[n])
             ds == Requests(request', chain'[n])
  <2>1. OneTurn(rs)
    BY DEF ChainsSound, TwoSweeps, OneTurn, Turns
  <2>2. CASE n # m
    <3>1. ds = rs
      BY <1>4, <1>6, <2>2 DEF Requests
    <3> QED
      BY <2>1, <3>1
  <2>3. CASE n = m
    <3>a. rs = Requests(request, chain[m]) /\ ds = Requests(request', chain'[m])
      BY <2>3
    <3>b. /\ Len(rs) = Len(chain[m])
          /\ \A i \in 1 .. Len(chain[m]) : rs[i] = request[chain[m][i]]
      BY <1>2, <3>a DEF Requests
    <3>c. /\ Len(ds) = Len(chain'[m])
          /\ \A i \in 1 .. Len(chain'[m]) : ds[i] = request'[chain'[m][i]]
      BY <1>2, <1>4, <3>a DEF Requests
    <3>1. /\ Len(rs) = Len(chain[m]) /\ Len(ds) = Len(chain[m]) - 1
          /\ \A i \in 1 .. Len(chain[m]) - 1 : ds[i] = rs[i + 1]
      <4> HIDE DEF rs, ds
      <4>1. Len(rs) = Len(chain[m]) /\ Len(ds) = Len(chain[m]) - 1
        BY <1>2, <1>4, <3>b, <3>c
      <4>2. ASSUME NEW i \in 1 .. Len(chain[m]) - 1 PROVE ds[i] = rs[i + 1]
        BY <1>2, <1>3, <1>4, <1>6, <3>b, <3>c, <4>1, <4>2
      <4> QED
        BY <4>1, <4>2
    <3>2. Len(chain[m]) \in Nat
      BY <1>2
    <3> HIDE DEF rs, ds
    <3>3. ASSUME NEW i \in Turns(ds) PROVE i \in Int /\ i + 1 \in Turns(rs)
      <4>1. i \in 1 .. Len(chain[m]) - 2 /\ ~InOrder(ds[i], ds[i + 1])
        BY <3>1, <3>2 DEF Turns
      <4>2. ds[i] = rs[i + 1] /\ ds[i + 1] = rs[(i + 1) + 1]
        BY <3>1, <3>2, <4>1
      <4> QED
        BY <3>1, <3>2, <4>1, <4>2 DEF Turns
    <3>4. ASSUME NEW i \in Turns(ds), NEW j \in Turns(ds) PROVE i = j
      <4>1. i + 1 = j + 1 /\ i \in Int /\ j \in Int
        BY <2>1, <3>3 DEF OneTurn
      <4> QED
        BY <4>1
    <3> QED
      BY <3>4 DEF OneTurn, ds
  <2> QED
    BY <2>2, <2>3
<1>12. TwoSweeps'
  BY <1>11 DEF TwoSweeps, OneTurn, Turns
<1> QED
  BY <1>5, <1>10, <1>12 DEF ChainsSound

----------------------------------------------------------------------------
\* Each step keeps the chains sound.
LEMMA QueueStepKeepsSound ==
    ASSUME ChainsSound, [QueueNext]_queueVars
    PROVE  ChainsSound'
<1>1. ASSUME NEW cmd \in Cmd, NEW blk \in Block, NEW b \in Buffer, Submit(cmd, blk, b)
      PROVE  ChainsSound'
  <2>1. AddRequest(cmd, blk, b) /\ blk \notin PendingBlocks
    BY <1>1 DEF Submit
  <2>2. PICK s \in Slot, r \in Request, m \in Major : \E k \in 0 .. Len(chain[m]) :
           r.block = blk /\ m = MajorOf[blk] /\ Takes(s, r, m, k)
    BY <2>1, AddRequestTakes DEF ChainsSound
  <2>3. PICK k \in 0 .. Len(chain[m]) : r.block = blk /\ m = MajorOf[blk] /\ Takes(s, r, m, k)
    BY <2>2
  <2>4. QueueTypeOK' /\ TableMatchesChains'
    BY <2>3, JoinKeepsTable DEF ChainsSound
  <2>5. TwoSweeps'
    BY <2>1, <2>3, JoinKeepsOrder DEF ChainsSound
  <2> QED
    BY <2>4, <2>5 DEF ChainsSound
<1>2. ASSUME NEW m \in Major, EndRequest(m)
      PROVE  ChainsSound'
  BY <1>2, EndKeepsSound
<1>3. CASE UNCHANGED queueVars
  BY <1>3 DEF queueVars, ChainsSound, QueueTypeOK, TableMatchesChains, TwoSweeps, Pending
<1> QED
  BY <1>1, <1>2, <1>3 DEF QueueNext

\* blk_dev_init's empty table and chains (ll_rw_blk.c:132-139).
LEMMA QueueInitSound == QueueInit => ChainsSound
<1> SUFFICES ASSUME QueueInit PROVE ChainsSound
  OBVIOUS
<1>1. QueueTypeOK
  BY DEF QueueInit, QueueTypeOK
<1>2. TableMatchesChains /\ TwoSweeps
  BY DEF QueueInit, TableMatchesChains, TwoSweeps, Pending, Requests
<1> QED
  BY <1>1, <1>2 DEF ChainsSound

\* For every table, set of devices and order of arrivals and completions, table
\* and chains agree and each chain is two sweeps at most (ll_rw_blk.c:39-139,
\* blk.h:91-125).
THEOREM ChainsSoundTheorem == QueueSpec => []ChainsSound
BY QueueInitSound, QueueStepKeepsSound, PTL DEF QueueSpec

\* For all of them, too, the request that a device works on is never displaced
\* (ll_rw_blk.c:54-66).
THEOREM HeadStaysTheorem == QueueSpec => HeadStays
<1> DEFINE Stays == \A m \in Major : chain[m] # <<>> =>
                       \/ chain'[m] # <<>> /\ Head(chain'[m]) = Head(chain[m])
                       \/ chain'[m] = Tail(chain[m])
<1>1. ASSUME ChainsSound, QueueNext PROVE Stays
  <2>1. chain \in [Major -> Seq(Slot)]
    BY <1>1 DEF ChainsSound, QueueTypeOK
  <2>2. ASSUME NEW cmd \in Cmd, NEW blk \in Block, NEW b \in Buffer, Submit(cmd, blk, b)
        PROVE  Stays
    <3>1. PICK s \in Slot, r \in Request, m \in Major : \E k \in 0 .. Len(chain[m]) : Takes(s, r, m, k)
      BY <1>1, <2>2, AddRequestTakes DEF Submit, ChainsSound
    <3>2. PICK k \in 0 .. Len(chain[m]) : Takes(s, r, m, k)
      BY <3>1
    <3>3. ASSUME NEW n \in Major, chain[n] # <<>>
          PROVE  chain'[n] # <<>> /\ Head(chain'[n]) = Head(chain[n])
      <4>1. CASE n # m
        BY <3>2, <3>3, <4>1 DEF Takes
      <4>2. CASE n = m
        <5>1. /\ Len(chain[m]) \in Nat \ {0} /\ chain'[m] \in Seq(Slot)
              /\ Len(chain'[m]) = Len(chain[m]) + 1
              /\ \A j \in 1 .. Len(chain[m]) + 1 :
                    chain'[m][j] = IF j <= k THEN chain[m][j] ELSE IF j = k + 1 THEN s ELSE chain[m][j - 1]
              /\ k >= 1
          BY <2>1, <3>2, <3>3, <4>2, EmptySeq DEF Takes, Inserted
        <5>2. 1 \in 1 .. Len(chain[m]) + 1 /\ chain'[m][1] = chain[m][1]
          BY <5>1
        <5>3. chain'[m] # <<>>
          BY <5>1
        <5> QED
          BY <2>1, <3>3, <4>2, <5>1, <5>2, <5>3
      <4> QED
        BY <4>1, <4>2
    <3> QED
      BY <3>3
  <2>3. ASSUME NEW m \in Major, EndRequest(m) PROVE Stays
    BY <2>1, <2>3 DEF EndRequest
  <2> QED
    BY <1>1, <2>2, <2>3 DEF QueueNext
<1>2. ChainsSound /\ [QueueNext]_queueVars => [Stays]_queueVars
  BY <1>1
<1> QED
  BY <1>2, ChainsSoundTheorem, PTL DEF QueueSpec, HeadStays

----------------------------------------------------------------------------
\* The buffer cache: the parts of its inductive invariant.

USE DEF NoBlock

\* ListsIntact, place by place.
ListsWhole ==
    /\ EachOnce(free_list) /\ \A b \in Buffer : Holds(free_list, b)
    /\ \A h \in Hash :
        /\ EachOnce(hash_table[h])
        /\ \A b \in Buffer : Holds(hash_table[h], b) <=> bh[b].blk # NoBlock /\ HashOf(bh[b].blk) = h

\* The local variables that a task has at each place.
Fits(l) ==
    /\ l.at \in AtBuffer \cup {"slot"} => l.b \in Buffer
    /\ l.at # "user" => l.hold = None
    /\ l.at \in {"find", "found", "scan", "victim", "read"} => l.blk \in Block
    /\ l.at \in {"lock", "slot"} /\ l.rw = READ => l.blk \in Block
    /\ l.hold # None => l.blk \in Block
    /\ l.at = "sync" => l.rw = WRITE

LocalsFit == \A t \in Task : Fits(task[t])

\* The buffer that getblk has chosen stays as it is until the task takes it, because
\* the task does not sleep in between.
VictimFree == \A t \in Task : task[t].at = "victim" =>
    /\ cpu = t /\ task[t].tmp = task[t].b
    /\ bh[task[t].b].count = 0 /\ ~bh[task[t].b].lock /\ ~bh[task[t].b].dirt

\* LockHasOwner, owner by owner.
LocksOwned ==
    /\ \A s \in Pending : bh[request[s].bh].lock
    /\ \A s, q \in Pending : request[s].bh = request[q].bh => s = q
    /\ \A t \in Task : task[t].at = "slot" =>
         bh[task[t].b].lock /\ \A s \in Pending : request[s].bh # task[t].b
    /\ \A t, u \in Task : task[t].at = "slot" /\ task[u].at = "slot" /\ task[t].b = task[u].b => t = u
    /\ \A b \in Buffer : bh[b].lock => \/ \E s \in Pending : request[s].bh = b
                                       \/ \E t \in Task : task[t].at = "slot" /\ task[t].b = b

\* HeldIdentity from the moment on when get_hash_table counts the task in.
UsersKeep == \A t \in Task, b \in Buffer :
    Uses(t, b) /\ task[t].at # "release" => bh[b].blk = task[t].blk

\* The data in b, valid or not yet, is of b's block.
Home(b) == data[b].blk = bh[b].blk /\ bh[b].blk \in Block

DataAtHome ==
    /\ \A b \in Buffer : bh[b].uptodate \/ bh[b].dirt => Home(b)
    /\ \A t \in Task : task[t].hold # None => Home(task[t].hold)
    /\ \A t \in Task : task[t].at = "slot" /\ task[t].rw = WRITE => Home(task[t].b)
    /\ \A s \in Pending : request[s].cmd = WRITE => Home(request[s].bh)
    /\ \A blk \in Block : disk[blk].blk = blk

\* What the device is still to read is not valid.
ReadsStale ==
    /\ \A s \in Pending : request[s].cmd = READ => ~bh[request[s].bh].uptodate
    /\ \A t \in Task : task[t].at = "slot" /\ task[t].rw = READ => ~bh[task[t].b].uptodate

\* What the device is still to write is what the buffer holds, or the buffer is dirty.
WritesSent == \A s \in Pending :
    LET b == request[s].bh
    IN  request[s].cmd = WRITE /\ ~bh[b].dirt => data[b].writes = sent[b]

Sound ==
    /\ TypeOK /\ LocalsFit /\ ChainsSound
    /\ ListsWhole /\ OneBufferPerBlock /\ CountIsUsers
    /\ LocksOwned /\ RequestFitsBuffer /\ UsersKeep /\ VictimFree
    /\ DataAtHome /\ ReadsStale /\ WritesSent /\ CleanMatchesDisk /\ NoLostBuffer

----------------------------------------------------------------------------
\* The request layer.

\* The cache's steps on the request layer are the layer's own, or leave it alone.
LEMMA ChainsKept ==
    ASSUME ChainsSound,
           UNCHANGED <<request, chain>> \/ QueueNext
    PROVE  ChainsSound'
BY QueueStepKeepsSound DEF queueVars

----------------------------------------------------------------------------
\* Steps that leave cache and device alone.

\* The task that runs goes to sleep, or one that slept gets the processor.
LEMMA StillKeeps ==
    ASSUME Sound, UNCHANGED <<cache, device, task>>, TypeOK', VictimFree', NoLostBuffer'
    PROVE  Sound'
<1>1. UNCHANGED <<bh, data, sent, free_list, hash_table, request, chain, disk, task>>
  BY DEF cache, device
<1>2. LocalsFit' /\ ListsWhole' /\ OneBufferPerBlock' /\ RequestFitsBuffer'
  BY <1>1 DEF Sound, LocalsFit, ListsWhole, OneBufferPerBlock, RequestFitsBuffer, Fits, HashOf,
              Pending
<1>3. ChainsSound'
  BY <1>1, ChainsKept DEF Sound
<1>4. CountIsUsers' /\ UsersKeep'
  BY <1>1 DEF Sound, CountIsUsers, UsersKeep, Uses
<1>5. LocksOwned'
  BY <1>1 DEF Sound, LocksOwned, Pending
<1>6. DataAtHome' /\ ReadsStale' /\ WritesSent' /\ CleanMatchesDisk'
  BY <1>1 DEF Sound, DataAtHome, ReadsStale, WritesSent, CleanMatchesDisk, Home, Pending
<1> QED
  BY <1>2, <1>3, <1>4, <1>5, <1>6 DEF Sound

\* The queues are of their type, and nobody waits in vain for a buffer.
QueuesOK ==
    /\ b_wait \in [Buffer -> QueueOf(Task)] /\ buffer_wait \in QueueOf(Task)
    /\ wait_for_request \in QueueOf(Task) /\ NoLostBuffer

\* Task t goes from one place to another with the buffers it used, and does nothing else.
Moves(t, l) ==
    /\ UNCHANGED <<cache, device>>
    /\ cpu \in {t, None} /\ cpu' \in {t, None}
    /\ task' = [task EXCEPT ![t] = l] /\ l \in Local /\ Fits(l)
    /\ task[t].at # "slot" /\ l.at # "slot"
    /\ \A b \in Buffer : Uses(t, b)' <=> Uses(t, b)
    /\ l.at # "release" => \A b \in Buffer : Uses(t, b)' => bh[b].blk = l.blk
    /\ l.hold # None => Home(l.hold)
    /\ l.at = "victim" => /\ cpu' = t /\ l.tmp = l.b
                          /\ bh[l.b].count = 0 /\ ~bh[l.b].lock /\ ~bh[l.b].dirt

\* A task with these values of its variables uses buffer b.
UsesAs(l, b) == \/ l.hold = b
                \/ l.b = b /\ l.at \in {"found", "read", "release"}
                \/ l.b = b /\ l.at \in {"lock", "slot"} /\ l.rw = READ

\* A task that has been given a buffer.
Holding(x, c) == [Idle EXCEPT !.blk = x, !.hold = c]

LEMMA HoldingIs ==
    ASSUME NEW x \in Block, NEW c \in Buffer, NEW l, l = Holding(x, c)
    PROVE  l \in Local /\ Fits(l) /\ l.at = "user" /\ l.b = None /\ l.hold = c /\ l.blk = x
<1>1. l = [at |-> "user", blk |-> x, b |-> None, tmp |-> None, rw |-> READ, hold |-> c]
  BY DEF Idle, Holding
<1>2. l.at = "user" /\ l.b = None /\ l.hold = c /\ l.blk = x
  BY <1>1
<1>3. l \in Local
  <2>1. "user" \in Place
    BY DEF Place
  <2> QED
    BY <1>1, <2>1 DEF Local
<1>4. Fits(l)
  BY <1>2 DEF Fits, AtBuffer
<1> QED
  BY <1>2, <1>3, <1>4

\* What is to be shown of the values that a task goes on with.
LEMMA MovesTo ==
    ASSUME Sound, NEW t \in Task, NEW l \in Local, cpu \in {t, None}, cpu' \in {t, None},
           UNCHANGED <<cache, device>>, task' = [task EXCEPT ![t] = l], Fits(l),
           task[t].at # "slot", l.at \notin {"slot", "victim"},
           \A b \in Buffer : UsesAs(l, b) <=> Uses(t, b),
           l.at # "release" => \A b \in Buffer : UsesAs(l, b) => bh[b].blk = l.blk,
           l.hold # None => Home(l.hold)
    PROVE  Moves(t, l)
<1>1. task'[t] = l
  BY DEF Sound, TypeOK
<1>2. \A b \in Buffer : Uses(t, b)' <=> UsesAs(l, b)
  BY <1>1 DEF Uses, UsesAs
<1> QED
  BY <1>2 DEF Moves

\* A step that only moves a task's control, to a place that fits, keeps the invariant.
LEMMA MovesKeeps ==
    ASSUME Sound, NEW t \in Task, NEW l, Moves(t, l), QueuesOK'
    PROVE  Sound'
<1>1. UNCHANGED <<bh, data, sent, free_list, hash_table, request, chain, disk>>
  BY DEF Moves, cache, device
<1>2. task \in [Task -> Local] /\ task' = [task EXCEPT ![t] = l] /\ task'[t] = l /\ \A u \in Task : u # t => task'[u] = task[u]
  BY DEF Moves, Sound, TypeOK
<1>3. ListsWhole' /\ OneBufferPerBlock' /\ RequestFitsBuffer' /\ ChainsSound'
  BY <1>1, ChainsKept DEF Sound, ListsWhole, OneBufferPerBlock, RequestFitsBuffer, HashOf, Pending
<1>4. LocalsFit'
  BY <1>2 DEF Sound, LocalsFit, Moves, Fits
<1>5. \A u \in Task, b \in Buffer : Uses(u, b)' <=> Uses(u, b)
  <2>1. \A u \in Task, b \in Buffer : u # t => (Uses(u, b)' <=> Uses(u, b))
    BY <1>2 DEF Uses
  <2> QED
    BY <2>1 DEF Moves
<1>6. CountIsUsers'
  BY <1>1, <1>5 DEF Sound, CountIsUsers
<1>7. UsersKeep'
  <2> SUFFICES ASSUME NEW u \in Task, NEW b \in Buffer, Uses(u, b)', task'[u].at # "release"
               PROVE  bh[b].blk = task'[u].blk
    BY <1>1 DEF UsersKeep
  <2>1. CASE u = t
    BY <1>2, <2>1 DEF Moves
  <2>2. CASE u # t
    BY <1>2, <1>5, <2>2 DEF Sound, UsersKeep
  <2> QED
    BY <2>1, <2>2
<1>8. LocksOwned'
  <2>1. \A u \in Task : task'[u].at = "slot" => task[u].at = "slot" /\ task'[u] = task[u]
    BY <1>2 DEF Moves
  <2>2. \A u \in Task : task[u].at = "slot" => task'[u] = task[u]
    BY <1>2 DEF Moves
  <2> QED
    BY <1>1, <2>1, <2>2 DEF Sound, LocksOwned, Pending
<1>9. DataAtHome' /\ ReadsStale'
  <2>1. \A u \in Task : task'[u].at = "slot" => task[u].at = "slot" /\ task'[u] = task[u]
    BY <1>2 DEF Moves
  <2>2. \A u \in Task : task'[u].hold # None => Home(task'[u].hold)
    BY <1>2 DEF Sound, DataAtHome, Moves
  <2> QED
    BY <1>1, <2>1, <2>2 DEF Sound, DataAtHome, ReadsStale, Home, Pending
<1>10. WritesSent' /\ CleanMatchesDisk'
  BY <1>1 DEF Sound, WritesSent, CleanMatchesDisk, Pending
<1>11. TypeOK'
  <2>1. QueueTypeOK'
    BY <1>1 DEF Sound, TypeOK, QueueTypeOK
  <2>2. task' \in [Task -> Local] /\ cpu' \in Task \cup {None}
    BY <1>2 DEF Moves
  <2> QED
    BY <1>1, <2>1, <2>2 DEF Sound, TypeOK, QueuesOK
<1>12. VictimFree'
  <2> SUFFICES ASSUME NEW u \in Task, task'[u].at = "victim"
               PROVE  /\ cpu' = u /\ task'[u].tmp = task'[u].b
                      /\ bh[task'[u].b].count = 0 /\ ~bh[task'[u].b].lock /\ ~bh[task'[u].b].dirt
    BY <1>1 DEF VictimFree
  <2>1. CASE u = t
    BY <1>2, <2>1 DEF Moves
  <2>2. CASE u # t
    <3>1. task[u].at = "victim" /\ cpu \in {t, None} /\ None \notin Task
      BY <1>2, <2>2, CacheAssumption DEF Moves
    <3> QED
      BY <3>1, <2>2 DEF Sound, VictimFree
  <2> QED
    BY <2>1, <2>2
<1> QED
  BY <1>3, <1>4, <1>6, <1>7, <1>8, <1>9, <1>10, <1>11, <1>12 DEF Sound, QueuesOK

\* A buffer of the hash chain, or none in the cache.
LEMMA FindBufferFinds ==
    ASSUME TypeOK, ListsWhole, NEW blk \in Block
    PROVE  \/ FindBuffer(blk) = None /\ \A b \in Buffer : bh[b].blk # blk
           \/ FindBuffer(blk) \in Buffer /\ bh[FindBuffer(blk)].blk = blk
<1> DEFINE h == HashOf(blk)
           c == hash_table[h]
           I == {i \in 1 .. Len(c) : bh[c[i]].blk = blk}
<1>1. blk \in Nat /\ blk # 0 /\ NR_HASH \in Nat \ {0} /\ h \in Hash
  BY CacheAssumption, BlockAssumption DEF HashOf, Hash
<1>2. c \in Seq(Buffer) /\ Len(c) \in Nat /\ DOMAIN c = 1 .. Len(c) /\ \A i \in 1 .. Len(c) : c[i] \in Buffer
  <2>1. c \in Seq(Buffer)
    BY <1>1 DEF TypeOK
  <2> HIDE DEF c
  <2> QED
    BY <2>1, LenProperties, ElementOfSeq
<1>3. FindBuffer(blk) = IF I = {} THEN None ELSE c[Min(I)]
  <2>1. SelectInSeq(c, LAMBDA b : bh[b].blk = blk) = IF I # {} THEN Min(I) ELSE 0
    BY DEF SelectInSeq
  <2>2. I # {} => Min(I) # 0
    <3>1. I \in SUBSET Nat /\ 0 \notin I
      BY <1>2
    <3> HIDE DEF I
    <3> QED
      BY <3>1, MinOf
  <2> QED
    BY <2>1, <2>2 DEF FindBuffer
<1>4. CASE I = {}
  <2>1. ASSUME NEW b \in Buffer, bh[b].blk = blk PROVE FALSE
    <3>1. Holds(c, b)
      BY <1>1, <2>1 DEF ListsWhole
    <3> QED
      BY <1>2, <1>4, <2>1, <3>1 DEF Holds
  <2> QED
    BY <1>3, <1>4, <2>1
<1>5. CASE I # {}
  <2>1. I \in SUBSET Nat
    BY <1>2
  <2>2. Min(I) \in I
    <3> HIDE DEF I
    <3> QED
      BY <1>5, <2>1, MinOf
  <2> QED
    BY <1>2, <1>3, <1>5, <2>2
<1> QED
  BY <1>4, <1>5

----------------------------------------------------------------------------
\* One lemma for each step, in the order of the calls.

\* A step that leaves buffers and wait queues alone leaves no task behind in a queue.
LEMMA QueuesStill ==
    ASSUME Sound, UNCHANGED <<bh, b_wait, buffer_wait, wait_for_request>>
    PROVE  QueuesOK'
BY DEF Sound, TypeOK, QueuesOK, NoLostBuffer, Unused

\* What the operations of the wait queues give is a queue that loses nobody.
LEMMA QueueValues ==
    ASSUME NEW w \in QueueOf(Task), NEW t \in Task
    PROVE  /\ Joined(w, t) \in QueueOf(Task) /\ Woken(w) \in QueueOf(Task) /\ Left(w, t) \in QueueOf(Task)
           /\ Left(w, t).waiting # {} => Left(w, t).signalled
           /\ Woken(w).waiting # {} => Woken(w).signalled
<1>1. w.waiting \in SUBSET Task /\ w.signalled \in BOOLEAN
  BY DEF QueueOf
<1>2. w.waiting \cup {t} \in SUBSET Task /\ w.waiting \ {t} \in SUBSET Task
  BY <1>1
<1>3. (w.waiting # {}) \in BOOLEAN /\ (w.waiting \ {t} # {}) \in BOOLEAN
  OBVIOUS
<1>4. Joined(w, t) \in QueueOf(Task) /\ Woken(w) \in QueueOf(Task) /\ Left(w, t) \in QueueOf(Task)
  BY <1>1, <1>2, <1>3, Zenon DEF QueueOf, Joined, Woken, Left
<1>5. /\ Left(w, t).waiting # {} => Left(w, t).signalled
      /\ Woken(w).waiting # {} => Woken(w).signalled
  BY Zenon DEF Left, Woken
<1> QED
  BY <1>4, <1>5

\* wait_on_buffer sleeps (buffer.c:16-22).
LEMMA SleepOnLockKeeps == ASSUME Sound, NEW t \in Task, SleepOnLock(t) PROVE Sound'
<1>1. /\ task[t].b \in Buffer /\ bh[task[t].b].lock /\ cpu = t /\ cpu' = None /\ task[t].at # "victim"
      /\ b_wait' = [b_wait EXCEPT ![task[t].b] = Joined(b_wait[task[t].b], t)]
      /\ UNCHANGED <<cache, buffer_wait, wait_for_request, device, task>>
  <2>1. task[t].b \in Buffer
    BY DEF SleepOnLock, Sound, LocalsFit, Fits
  <2> QED
    BY <2>1 DEF SleepOnLock, Sound, VictimFree
<1>2. UNCHANGED <<bh, data, sent, free_list, hash_table, request, chain, disk>>
  BY <1>1 DEF cache, device
<1>3. TypeOK'
  <2>1. b_wait' \in [Buffer -> QueueOf(Task)]
    BY <1>1, QueueValues DEF Sound, TypeOK
  <2>2. QueueTypeOK'
    BY <1>2 DEF Sound, TypeOK, QueueTypeOK
  <2> QED
    BY <1>1, <1>2, <2>1, <2>2 DEF Sound, TypeOK
<1>4. VictimFree'
  BY <1>1, <1>2, CacheAssumption DEF Sound, VictimFree
<1>5. NoLostBuffer'
  BY <1>1, <1>2 DEF Sound, NoLostBuffer, Unused
<1> QED
  BY <1>1, <1>3, <1>4, <1>5, StillKeeps

\* A task that was woken runs on, behind its __sleep_on (sched.c:93-119).
LEMMA ResumeKeeps == ASSUME Sound, NEW t \in Task, Resume(t) PROVE Sound'
<1>1. /\ cpu = None /\ cpu' = t /\ UNCHANGED <<cache, wait_for_request, device, task>>
      /\ \/ /\ \E b \in Buffer : b_wait' = [b_wait EXCEPT ![b] = Left(b_wait[b], t)]
            /\ UNCHANGED buffer_wait
         \/ buffer_wait' = Left(buffer_wait, t) /\ UNCHANGED b_wait
  BY DEF Resume
<1>2. UNCHANGED <<bh, data, sent, free_list, hash_table, request, chain, disk>>
  BY <1>1 DEF cache, device
<1>3. TypeOK'
  <2>1. b_wait' \in [Buffer -> QueueOf(Task)] /\ buffer_wait' \in QueueOf(Task)
    <3>1. b_wait \in [Buffer -> QueueOf(Task)] /\ buffer_wait \in QueueOf(Task)
      BY DEF Sound, TypeOK
    <3>2. \A w \in QueueOf(Task) : Left(w, t) \in QueueOf(Task)
      BY QueueValues
    <3> QED
      BY <1>1, <3>1, <3>2
  <2>2. QueueTypeOK'
    BY <1>2 DEF Sound, TypeOK, QueueTypeOK
  <2> QED
    BY <1>1, <1>2, <2>1, <2>2 DEF Sound, TypeOK
<1>4. VictimFree'
  BY <1>1, <1>2, CacheAssumption DEF Sound, VictimFree
<1>5. NoLostBuffer'
  <2>1. buffer_wait \in QueueOf(Task)
    BY DEF Sound, TypeOK
  <2>2. UNCHANGED buffer_wait \/ (buffer_wait'.waiting # {} => buffer_wait'.signalled)
    BY <1>1, <2>1, QueueValues
  <2> QED
    BY <1>2, <2>2 DEF Sound, NoLostBuffer, Unused
<1> QED
  BY <1>1, <1>3, <1>4, <1>5, StillKeeps

\* make_request finds no free slot and sleeps (ll_rw_blk.c:91-94).
LEMMA SlotNoneKeeps == ASSUME Sound, NEW t \in Task, SlotNone(t) PROVE Sound'
<1>1. /\ cpu = t /\ cpu' = None /\ task[t].at = "slot"
      /\ wait_for_request' = Joined(wait_for_request, t)
      /\ UNCHANGED <<cache, b_wait, buffer_wait, device, task>>
  BY DEF SlotNone, At
<1>2. UNCHANGED <<bh, data, sent, free_list, hash_table, request, chain, disk>>
  BY <1>1 DEF cache, device
<1>3. TypeOK'
  <2>1. wait_for_request' \in QueueOf(Task)
    BY <1>1, QueueValues DEF Sound, TypeOK
  <2>2. QueueTypeOK'
    BY <1>2 DEF Sound, TypeOK, QueueTypeOK
  <2> QED
    BY <1>1, <1>2, <2>1, <2>2 DEF Sound, TypeOK
<1>4. VictimFree'
  BY <1>1, <1>2, CacheAssumption DEF Sound, VictimFree
<1>5. NoLostBuffer'
  BY <1>1, <1>2 DEF Sound, NoLostBuffer, Unused
<1> QED
  BY <1>1, <1>3, <1>4, <1>5, StillKeeps

\* bread is called (buffer.c:186-188).
LEMMA CallBreadKeeps ==
    ASSUME Sound, NEW t \in Task, NEW blk \in Block, CallBread(t, blk) PROVE Sound'
<1> DEFINE l == [task[t] EXCEPT !.at = "find", !.blk = blk]
<1>1. /\ cpu = None /\ cpu' = t /\ task[t].at = "user" /\ task[t].hold = None
      /\ task' = [task EXCEPT ![t] = l] /\ UNCHANGED <<cache, queues, device>>
  BY DEF CallBread, Goes
<1>2. task[t] \in Local /\ task \in [Task -> Local] /\ None \notin Buffer
  BY CacheAssumption DEF Sound, TypeOK
<1>3. Moves(t, l)
  BY <1>1, <1>2 DEF Moves, Fits, Local, Place, AtBuffer, Uses
<1> QED
  BY <1>1, <1>3, MovesKeeps, QueuesStill DEF cache, queues

\* get_hash_table finds no buffer of the block (buffer.c:114-115).
LEMMA FindMissKeeps == ASSUME Sound, NEW t \in Task, FindMiss(t) PROVE Sound'
<1> DEFINE l == [task[t] EXCEPT !.at = "scan"]
<1>1. /\ cpu = t /\ cpu' = t /\ task[t].at = "find"
      /\ task' = [task EXCEPT ![t] = l] /\ UNCHANGED <<cache, queues, device>>
  BY DEF FindMiss, At, Goes
<1>2. task[t] \in Local /\ task \in [Task -> Local] /\ None \notin Buffer /\ Fits(task[t])
  BY CacheAssumption DEF Sound, TypeOK, LocalsFit
<1>3. Moves(t, l)
  BY <1>1, <1>2 DEF Moves, Fits, Local, Place, AtBuffer, Uses
<1> QED
  BY <1>1, <1>3, MovesKeeps, QueuesStill DEF cache, queues

\* brelse is called for the buffer held (buffer.c:176-180).
LEMMA CallBrelseKeeps == ASSUME Sound, NEW t \in Task, CallBrelse(t) PROVE Sound'
<1> DEFINE l == [Idle EXCEPT !.at = "release", !.b = task[t].hold]
<1>1. /\ cpu = None /\ cpu' = t /\ task[t].at = "user" /\ task[t].hold # None
      /\ task' = [task EXCEPT ![t] = l] /\ UNCHANGED <<cache, queues, device>>
  BY DEF CallBrelse, Goes
<1>2. task[t] \in Local /\ task \in [Task -> Local] /\ None \notin Buffer /\ Fits(task[t])
  BY CacheAssumption DEF Sound, TypeOK, LocalsFit
<1>3. Moves(t, l)
  BY <1>1, <1>2 DEF Moves, Fits, Local, Place, AtBuffer, Uses, Idle
<1> QED
  BY <1>1, <1>3, MovesKeeps, QueuesStill DEF cache, queues

\* sys_sync is called and starts at the first buffer (buffer.c:24-30).
LEMMA CallSyncKeeps == ASSUME Sound, NEW t \in Task, CallSync(t) PROVE Sound'
<1> DEFINE l == [Idle EXCEPT !.at = "sync", !.b = 1, !.rw = WRITE]
<1>1. /\ cpu = None /\ cpu' = t /\ task[t].at = "user" /\ task[t].hold = None
      /\ task' = [task EXCEPT ![t] = l] /\ UNCHANGED <<cache, queues, device>>
  BY DEF CallSync, Goes
<1>2. task[t] \in Local /\ task \in [Task -> Local] /\ None \notin Buffer /\ Fits(task[t])
  BY CacheAssumption DEF Sound, TypeOK, LocalsFit
<1>a. 1 \in Buffer
  BY CacheAssumption, BufferAssumption
<1>b. /\ l \in Local /\ Fits(l) /\ l.at = "sync" /\ l.b = 1 /\ l.hold = None
  BY <1>a DEF Idle, Local, Place, Fits, AtBuffer
<1>c. \A c \in Buffer : UsesAs(l, c) <=> Uses(t, c)
  <2> HIDE DEF l
  <2> QED
    BY <1>1, <1>2, <1>b DEF UsesAs, Uses
<1>3. Moves(t, l)
  <2> HIDE DEF l
  <2> QED
    BY <1>1, <1>2, <1>b, <1>c, MovesTo DEF UsesAs
<1> QED
  BY <1>1, <1>3, MovesKeeps, QueuesStill DEF cache, queues

\* getblk finds every buffer in use and sleeps on buffer_wait (buffer.c:145-148).
LEMMA ScanNoneKeeps == ASSUME Sound, NEW t \in Task, ScanNone(t) PROVE Sound'
<1> DEFINE l == [task[t] EXCEPT !.at = "find"]
<1>1. /\ cpu = t /\ cpu' = None /\ task[t].at = "scan" /\ Unused = {}
      /\ buffer_wait' = Joined(buffer_wait, t)
      /\ task' = [task EXCEPT ![t] = l] /\ UNCHANGED <<cache, b_wait, wait_for_request, device>>
  BY DEF ScanNone, At, Returns
<1>2. task[t] \in Local /\ task \in [Task -> Local] /\ None \notin Buffer /\ Fits(task[t])
  BY CacheAssumption DEF Sound, TypeOK, LocalsFit
<1>3. Moves(t, l)
  BY <1>1, <1>2 DEF Moves, Fits, Local, Place, AtBuffer, Uses
<1>4. QueuesOK'
  <2>1. /\ b_wait \in [Buffer -> QueueOf(Task)] /\ buffer_wait \in QueueOf(Task)
        /\ wait_for_request \in QueueOf(Task)
    BY DEF Sound, TypeOK
  <2>2. buffer_wait' \in QueueOf(Task)
    BY <1>1, <2>1, QueueValues
  <2>3. Unused' = {}
    BY <1>1 DEF Unused, cache
  <2> QED
    BY <1>1, <2>1, <2>2, <2>3 DEF QueuesOK, NoLostBuffer
<1> QED
  BY <1>3, <1>4, MovesKeeps

\* bread wakes after its read: the buffer is returned, or released (buffer.c:194-199).
LEMMA ReadKeeps == ASSUME Sound, NEW t \in Task, Read(t) PROVE Sound'
<1> DEFINE b == task[t].b
           l == IF bh[b].uptodate THEN [Idle EXCEPT !.blk = task[t].blk, !.hold = b]
                ELSE [task[t] EXCEPT !.at = "release"]
<1>1. /\ cpu = t /\ cpu' \in {t, None} /\ task[t].at = "read"
      /\ task' = [task EXCEPT ![t] = l] /\ UNCHANGED <<cache, queues, device>>
  BY DEF Read, AtUnlocked, At, Returns, Goes
<1>2. task[t] \in Local /\ task \in [Task -> Local] /\ None \notin Buffer /\ Fits(task[t])
  BY CacheAssumption DEF Sound, TypeOK, LocalsFit
<1>3. b \in Buffer /\ task[t].hold = None /\ bh[b].blk = task[t].blk /\ task[t].blk \in Block
  BY <1>1, <1>2 DEF Sound, Fits, AtBuffer, UsersKeep, Uses
<1>4. bh[b].uptodate => Home(b)
  BY <1>3 DEF Sound, DataAtHome
<1>5. CASE bh[b].uptodate
  <2>a. l = Holding(task[t].blk, b)
    BY <1>5 DEF Holding
  <2>2. /\ l \in Local /\ Fits(l) /\ l.at = "user" /\ l.b = None /\ l.hold = b /\ l.blk = task[t].blk
    <3> HIDE DEF l, b
    <3> QED
      BY <1>3, <2>a, HoldingIs
  <2>3. \A c \in Buffer : UsesAs(l, c) <=> Uses(t, c)
    <3> HIDE DEF l
    <3> QED
      BY <1>1, <1>2, <1>3, <2>2 DEF UsesAs, Uses
  <2>1. Moves(t, l)
    <3> HIDE DEF l
    <3> QED
      BY <1>1, <1>2, <1>3, <1>4, <1>5, <2>2, <2>3, MovesTo DEF UsesAs
  <2> QED
    BY <1>1, <2>1, MovesKeeps, QueuesStill DEF cache, queues
<1>6. CASE ~bh[b].uptodate
  <2>1. Moves(t, l)
    BY <1>1, <1>2, <1>3, <1>6 DEF Moves, Fits, Local, Place, AtBuffer, Uses
  <2> QED
    BY <1>1, <2>1, MovesKeeps, QueuesStill DEF cache, queues
<1> QED
  BY <1>5, <1>6

BufferHead == [blk : Block \cup {NoBlock}, count : 0 .. 255,
               dirt : BOOLEAN, uptodate : BOOLEAN, lock : BOOLEAN]

UsersOf(b) == {t \in Task : Uses(t, b)}

\* b_count of a buffer is the number of its users, and never wraps at 256.
LEMMA UsersCounted ==
    ASSUME Sound, NEW b \in Buffer
    PROVE  LET U == {t \in Task : Uses(t, b)}
           IN  /\ IsFiniteSet(U) /\ bh[b].count = Cardinality(U)
               /\ Cardinality(U) \in 0 .. 255
               /\ Cardinality(U) = 0 <=> U = {}
<1> DEFINE U == {t \in Task : Uses(t, b)}
<1>1. U \in SUBSET Task
  OBVIOUS
<1>2. bh[b].count = Cardinality(U)
  BY DEF Sound, CountIsUsers
<1> HIDE DEF U
<1>3. IsFiniteSet(U) /\ Cardinality(U) <= Cardinality(Task)
  BY <1>1, TaskAssumption, FS_Subset
<1>4. Cardinality(U) \in Nat /\ Cardinality(Task) \in Nat
  BY <1>3, TaskAssumption, FS_CardinalityType
<1>5. Cardinality(U) = 0 <=> U = {}
  BY <1>3, FS_EmptySet
<1> QED
  BY <1>2, <1>3, <1>4, <1>5, TaskAssumption DEF U

\* sys_sync's next buffer.
LEMMA NextBufferMoves ==
    ASSUME Sound, NEW t \in Task, NextBuffer(t), UNCHANGED <<cache, device>>, cpu = t,
           \/ task[t].at = "sync"
           \/ task[t].at = "lock" /\ task[t].rw = WRITE
    PROVE  \E l : Moves(t, l)
<1>1. task[t] \in Local /\ task \in [Task -> Local] /\ None \notin Buffer /\ Fits(task[t])
  BY CacheAssumption DEF Sound, TypeOK, LocalsFit
<1>2. task[t].b \in Buffer /\ task[t].hold = None /\ task[t].rw = WRITE
  BY <1>1 DEF Fits, AtBuffer
<1>3. CASE task[t].b = NR_BUFFERS
  <2>1. task' = [task EXCEPT ![t] = Idle] /\ cpu' = None
    BY <1>3 DEF NextBuffer, Returns
  <2>2. Moves(t, Idle)
    BY <1>1, <1>2, <2>1 DEF Moves, Fits, Local, Place, AtBuffer, Uses, Idle
  <2> QED
    BY <2>2
<1>4. CASE task[t].b # NR_BUFFERS
  <2> DEFINE l == [task[t] EXCEPT !.at = "sync", !.b = task[t].b + 1]
  <2>1. task' = [task EXCEPT ![t] = l] /\ cpu' = t
    BY <1>4 DEF NextBuffer, Goes
  <2>2. task[t].b + 1 \in Buffer
    BY <1>2, <1>4, CacheAssumption, BufferAssumption
  <2>3. task'[t] = l /\ l.at = "sync" /\ l.rw = WRITE /\ l.hold = None /\ l.b \in Buffer
    BY <1>1, <1>2, <2>1, <2>2 DEF Local
  <2>4. l \in Local /\ Fits(l)
    BY <1>1, <1>2, <2>2 DEF Local, Place, AtBuffer, Fits
  <2>5. \A c \in Buffer : ~Uses(t, c) /\ ~Uses(t, c)'
    BY <1>1, <1>2, <2>3 DEF Uses
  <2> HIDE DEF l
  <2>6. Moves(t, l)
    BY <2>1, <2>3, <2>4, <2>5 DEF Moves
  <2> QED
    BY <2>6
<1> QED
  BY <1>3, <1>4

\* sys_sync looks at one buffer: it writes a dirty one, or goes on (buffer.c:30-34).
LEMMA SyncKeeps == ASSUME Sound, NEW t \in Task, Sync(t) PROVE Sound'
<1>1. cpu = t /\ task[t].at = "sync" /\ UNCHANGED <<cache, queues, device>>
  BY DEF Sync, AtUnlocked, At
<1>2. QueuesOK'
  BY <1>1, QueuesStill DEF cache, queues
<1>3. CASE bh[task[t].b].dirt
  <2> DEFINE l == [task[t] EXCEPT !.at = "lock"]
  <2>1. task' = [task EXCEPT ![t] = l] /\ cpu' = t
    BY <1>3 DEF Sync, Goes
  <2>2. task[t] \in Local /\ task \in [Task -> Local] /\ None \notin Buffer /\ Fits(task[t])
    BY CacheAssumption DEF Sound, TypeOK, LocalsFit
  <2>3. Moves(t, l)
    BY <1>1, <2>1, <2>2 DEF Moves, Fits, Local, Place, AtBuffer, Uses
  <2> QED
    BY <1>2, <2>3, MovesKeeps
<1>4. CASE ~bh[task[t].b].dirt
  <2>1. NextBuffer(t)
    BY <1>4 DEF Sync
  <2>2. PICK l : Moves(t, l)
    BY <1>1, <2>1, NextBufferMoves
  <2> QED
    BY <1>2, <2>2, MovesKeeps
<1> QED
  BY <1>3, <1>4

\* The task that has not locked the buffer after all.
LEMMA SkipKeeps ==
    ASSUME Sound, NEW t \in Task, AtUnlocked(t, "lock"), AfterIO(t), Wake(task[t].b),
           UNCHANGED <<cache, buffer_wait, wait_for_request, device>>
    PROVE  Sound'
<1>1. task[t] \in Local /\ task \in [Task -> Local] /\ None \notin Buffer /\ Fits(task[t])
  BY CacheAssumption DEF Sound, TypeOK, LocalsFit
<1>2. cpu = t /\ task[t].at = "lock" /\ task[t].b \in Buffer /\ task[t].hold = None
  BY <1>1 DEF AtUnlocked, At, Fits, AtBuffer
<1>3. QueuesOK'
  <2>1. b_wait \in [Buffer -> QueueOf(Task)] /\ \A w \in QueueOf(Task) : Woken(w) \in QueueOf(Task)
    BY QueueValues DEF Sound, TypeOK
  <2>2. b_wait' \in [Buffer -> QueueOf(Task)]
    BY <1>2, <2>1 DEF Wake
  <2> QED
    BY <2>2 DEF Sound, TypeOK, QueuesOK, NoLostBuffer, Unused, cache
<1>4. CASE task[t].rw = READ
  <2> DEFINE l == [task[t] EXCEPT !.at = "read"]
  <2>1. task' = [task EXCEPT ![t] = l] /\ cpu' = t
    BY <1>4 DEF AfterIO, Goes
  <2>2. bh[task[t].b].blk = task[t].blk
    BY <1>2, <1>4 DEF Sound, UsersKeep, Uses
  <2>3. Moves(t, l)
    BY <1>1, <1>2, <1>4, <2>1, <2>2 DEF Moves, Fits, Local, Place, AtBuffer, Uses
  <2> QED
    BY <1>3, <2>3, MovesKeeps
<1>5. CASE task[t].rw = WRITE
  <2>1. NextBuffer(t)
    BY <1>5 DEF AfterIO
  <2>2. PICK l : Moves(t, l)
    BY <1>2, <1>5, <2>1, NextBufferMoves
  <2> QED
    BY <1>3, <2>2, MovesKeeps
<1>6. task[t].rw \in {READ, WRITE}
  BY <1>1 DEF Local
<1> QED
  BY <1>4, <1>5, <1>6

\* A buffer that getblk was found to hold the block has kept it.
LEMMA FoundKeeps == ASSUME Sound, NEW t \in Task, Found(t) PROVE Sound'
<1> DEFINE b == task[t].b
           l == IF bh[b].uptodate THEN [Idle EXCEPT !.blk = task[t].blk, !.hold = b]
                ELSE [Idle EXCEPT !.at = "lock", !.blk = task[t].blk, !.b = b]
<1>1. task[t] \in Local /\ task \in [Task -> Local] /\ None \notin Buffer /\ Fits(task[t])
  BY CacheAssumption DEF Sound, TypeOK, LocalsFit
<1>2. cpu = t /\ task[t].at = "found" /\ UNCHANGED <<data, sent, free_list, hash_table, queues, device>>
  BY DEF Found, AtUnlocked, At
<1>3. b \in Buffer /\ task[t].hold = None /\ task[t].blk \in Block /\ bh[b].blk = task[t].blk
  BY <1>1, <1>2 DEF Fits, AtBuffer, Sound, UsersKeep, Uses
<1>4. /\ cpu' \in {t, None} /\ task' = [task EXCEPT ![t] = l]
      /\ UNCHANGED <<cache, queues, device>>
  BY <1>3 DEF Found, GetblkReturns, Goes, Returns, cache, queues, device
<1>5. CASE bh[b].uptodate
  <2>1. Home(b)
    BY <1>3, <1>5 DEF Sound, DataAtHome
  <2>a. l = Holding(task[t].blk, b)
    BY <1>5 DEF Holding
  <2>2. /\ l \in Local /\ Fits(l) /\ l.at = "user" /\ l.b = None /\ l.hold = b /\ l.blk = task[t].blk
    <3> HIDE DEF l, b
    <3> QED
      BY <1>3, <2>a, HoldingIs
  <2>3. \A c \in Buffer : UsesAs(l, c) <=> Uses(t, c)
    <3> HIDE DEF l
    <3> QED
      BY <1>1, <1>2, <1>3, <2>2 DEF UsesAs, Uses
  <2>4. Moves(t, l)
    <3> HIDE DEF l
    <3> QED
      BY <1>1, <1>2, <1>3, <1>4, <2>1, <2>2, <2>3, MovesTo DEF UsesAs
  <2> QED
    BY <1>4, <2>4, MovesKeeps, QueuesStill DEF cache, queues
<1>6. CASE ~bh[b].uptodate
  <2>2. /\ l \in Local /\ Fits(l) /\ l.at = "lock" /\ l.b = b /\ l.hold = None /\ l.blk = task[t].blk
        /\ l.rw = READ
    BY <1>1, <1>3, <1>6 DEF Idle, Local, Place, Fits, AtBuffer
  <2>3. \A c \in Buffer : UsesAs(l, c) <=> Uses(t, c)
    <3> HIDE DEF l
    <3> QED
      BY <1>1, <1>2, <1>3, <2>2 DEF UsesAs, Uses
  <2>1. Moves(t, l)
    <3> HIDE DEF l
    <3> QED
      BY <1>1, <1>2, <1>3, <1>4, <2>2, <2>3, MovesTo DEF UsesAs
  <2> QED
    BY <1>4, <2>1, MovesKeeps, QueuesStill DEF cache, queues
<1> QED
  BY <1>5, <1>6

\* The loop over the free list comes to a buffer that nobody uses.
LEMMA ChosenUnused ==
    ASSUME Sound, Unused # {}
    PROVE  Chosen \in Unused /\ \A c \in Unused : Badness(Chosen) <= Badness(c)
<1> DEFINE best == {b \in Unused : \A c \in Unused : Badness(b) <= Badness(c)}
           I == {i \in 1 .. Len(free_list) : free_list[i] \in best}
<1>1. best # {}
  <2> DEFINE T == {Badness(b) : b \in Unused}
  <2>1. T \in SUBSET Nat /\ T # {}
    BY DEF Badness
  <2> HIDE DEF T
  <2>2. PICK n \in T : \A k \in T : n <= k
    BY <2>1, LeastNumber
  <2> QED
    BY <2>2 DEF T
<1>2. /\ best \subseteq Unused /\ Unused \subseteq Buffer
      /\ \A b \in best : \A c \in Unused : Badness(b) <= Badness(c)
  BY DEF Unused
<1>3. Chosen = free_list[SelectInSeq(free_list, LAMBDA b : b \in best)]
  BY DEF Chosen
<1> HIDE DEF best
<1>4. Len(free_list) \in Nat /\ DOMAIN free_list = 1 .. Len(free_list)
  BY LenProperties DEF Sound, TypeOK
<1>5. I # {} /\ I \in SUBSET Nat
  <2>1. PICK b \in best : TRUE
    BY <1>1
  <2>2. Holds(free_list, b)
    BY <1>2 DEF Sound, ListsWhole
  <2>3. PICK i \in 1 .. Len(free_list) : free_list[i] = b
    BY <1>4, <2>2 DEF Holds
  <2> QED
    BY <1>4, <2>3
<1>6. SelectInSeq(free_list, LAMBDA b : b \in best) = Min(I)
  BY <1>5 DEF SelectInSeq
<1>7. Min(I) \in I
  <2> HIDE DEF I
  <2> QED
    BY <1>5, MinOf
<1> QED
  BY <1>2, <1>3, <1>6, <1>7

\* getblk's loop takes the first clean, unlocked buffer (buffer.c:133-143).
LEMMA ScanKeeps ==
    ASSUME Sound, NEW t \in Task, Scan(t), Badness(Chosen) = 0 PROVE Sound'
<1> DEFINE l == [task[t] EXCEPT !.at = "victim", !.b = Chosen, !.tmp = Chosen]
<1>1. /\ cpu = t /\ cpu' = t /\ task[t].at = "scan" /\ Unused # {}
      /\ task' = [task EXCEPT ![t] = l] /\ UNCHANGED <<cache, queues, device>>
  BY DEF Scan, ScanEnd, At, Goes
<1>2. task[t] \in Local /\ task \in [Task -> Local] /\ None \notin Buffer /\ Fits(task[t])
  BY CacheAssumption DEF Sound, TypeOK, LocalsFit
<1>3. Chosen \in Buffer /\ bh[Chosen].count = 0
  BY <1>1, ChosenUnused DEF Unused
<1>4. ~bh[Chosen].lock /\ ~bh[Chosen].dirt
  BY DEF Badness
<1> HIDE DEF Chosen
<1>5. Moves(t, l)
  BY <1>1, <1>2, <1>3, <1>4 DEF Moves, Fits, Local, Place, AtBuffer, Uses
<1> QED
  BY <1>1, <1>5, MovesKeeps, QueuesStill DEF cache, queues

\* Task t takes new local variables, and of the buffer heads only b_count of b changes.
Counts(t, l, b, n) ==
    /\ cpu = t /\ cpu' \in {t, None}
    /\ task[t].at \notin {"slot", "victim"} /\ l.at \notin {"slot", "victim"}
    /\ task' = [task EXCEPT ![t] = l] /\ l \in Local /\ Fits(l) /\ l.hold = None
    /\ bh' = [bh EXCEPT ![b].count = n] /\ n \in 0 .. 255
    /\ UNCHANGED <<data, sent, free_list, hash_table, device>>
    /\ \A c \in Buffer : Uses(t, c)' /\ l.at # "release" => bh[c].blk = l.blk

\* A step that moves a task and changes one buffer's count keeps the invariant, if the
\* counts still count the users.
LEMMA CountsKeeps ==
    ASSUME Sound, NEW t \in Task, NEW l, NEW b \in Buffer, NEW n, Counts(t, l, b, n),
           CountIsUsers', QueuesOK'
    PROVE  Sound'
<1>1. UNCHANGED <<data, sent, free_list, hash_table, request, chain, disk>>
  BY DEF Counts, device
<1>2. /\ task \in [Task -> Local] /\ task' = [task EXCEPT ![t] = l] /\ task'[t] = l
      /\ \A u \in Task : u # t => task'[u] = task[u]
  BY DEF Counts, Sound, TypeOK
<1>3. bh' \in [Buffer -> BufferHead]
  <2>1. bh \in [Buffer -> BufferHead]
    BY DEF Sound, TypeOK, BufferHead
  <2>2. bh' = [bh EXCEPT ![b] = [bh[b] EXCEPT !.count = n]] /\ n \in 0 .. 255
    BY <2>1 DEF Counts
  <2>3. \A r \in BufferHead : [r EXCEPT !.count = n] \in BufferHead
    BY <2>2 DEF BufferHead
  <2> QED
    BY <2>1, <2>2, <2>3
<1>4. \A c \in Buffer : /\ bh'[c].blk = bh[c].blk /\ bh'[c].dirt = bh[c].dirt
                        /\ bh'[c].uptodate = bh[c].uptodate /\ bh'[c].lock = bh[c].lock
  BY DEF Counts, Sound, TypeOK
<1>5. TypeOK'
  <2>1. QueueTypeOK'
    BY <1>1 DEF Sound, TypeOK, QueueTypeOK
  <2>2. task' \in [Task -> Local] /\ cpu' \in Task \cup {None}
    BY <1>2 DEF Counts
  <2> QED
    BY <1>1, <1>3, <2>1, <2>2 DEF Sound, TypeOK, QueuesOK, BufferHead
<1>6. \A s \in Pending : request[s].bh \in Buffer
  BY DEF Sound, TypeOK, QueueTypeOK, Pending, Request
<1>7. \A u \in Task : (task'[u].at = "slot" \/ task[u].at = "slot") => task'[u] = task[u] /\ task[u].b \in Buffer
  BY <1>2 DEF Counts, Sound, LocalsFit, Fits
<1>8. ChainsSound' /\ LocalsFit'
  BY <1>1, <1>2, ChainsKept DEF Sound, LocalsFit, Counts, Fits
<1>9. ListsWhole' /\ OneBufferPerBlock'
  BY <1>1, <1>4 DEF Sound, ListsWhole, OneBufferPerBlock, HashOf
<1>10. LocksOwned'
  BY <1>1, <1>4, <1>6, <1>7 DEF Sound, LocksOwned, Pending
<1>11. RequestFitsBuffer'
  BY <1>1, <1>4, <1>6 DEF Sound, RequestFitsBuffer, Pending
<1>12. UsersKeep'
  <2> SUFFICES ASSUME NEW u \in Task, NEW c \in Buffer, Uses(u, c)', task'[u].at # "release"
               PROVE  bh[c].blk = task'[u].blk
    BY <1>4 DEF UsersKeep
  <2>1. CASE u = t
    BY <1>2, <2>1 DEF Counts
  <2>2. CASE u # t
    BY <1>2, <2>2 DEF Sound, UsersKeep, Uses
  <2> QED
    BY <2>1, <2>2
<1>13. VictimFree'
  BY <1>2, CacheAssumption DEF Sound, VictimFree, Counts
<1>14. DataAtHome'
  <2>1. \A c \in Buffer : Home(c) => Home(c)'
    BY <1>1, <1>4 DEF Home
  <2>2. \A u \in Task : task'[u].hold # None => task[u].hold = task'[u].hold /\ task[u].hold \in Buffer
    BY <1>2 DEF Counts, Local
  <2> QED
    BY <1>1, <1>4, <1>6, <1>7, <2>1, <2>2 DEF Sound, DataAtHome, Pending
<1>15. ReadsStale' /\ WritesSent'
  BY <1>1, <1>4, <1>6, <1>7 DEF Sound, ReadsStale, WritesSent, Pending
<1>16. CleanMatchesDisk'
  BY <1>1, <1>4 DEF Sound, CleanMatchesDisk
<1> QED
  BY <1>5, <1>8, <1>9, <1>10, <1>11, <1>12, <1>13, <1>14, <1>15, <1>16 DEF Sound, QueuesOK

\* One user more, in the number.
LEMMA UserComes ==
    ASSUME Sound, NEW t \in Task, NEW b \in Buffer, ~Uses(t, b),
           \A u \in Task, c \in Buffer : Uses(u, c)' <=> Uses(u, c) \/ (u = t /\ c = b)
    PROVE  /\ Cardinality(UsersOf(b)') = bh[b].count + 1 /\ bh[b].count + 1 \in 0 .. 255
           /\ \A c \in Buffer : c # b => Cardinality(UsersOf(c)') = bh[c].count
<1>1. UsersOf(b)' = UsersOf(b) \cup {t} /\ t \notin UsersOf(b) /\ UsersOf(b)' \in SUBSET Task
  BY DEF UsersOf
<1>2. \A c \in Buffer : c # b => UsersOf(c)' = UsersOf(c)
  BY DEF UsersOf
<1>3. \A c \in Buffer : /\ bh[c].count = Cardinality(UsersOf(c)) /\ IsFiniteSet(UsersOf(c))
                        /\ Cardinality(UsersOf(c)) \in Nat
  BY UsersCounted DEF UsersOf
<1> HIDE DEF UsersOf
<1>4. Cardinality(UsersOf(b)') = bh[b].count + 1
  <2>1. IsFiniteSet(UsersOf(b)) /\ bh[b].count = Cardinality(UsersOf(b))
    BY <1>3
  <2>2. Cardinality(UsersOf(b) \cup {t}) = Cardinality(UsersOf(b)) + 1
    BY <1>1, <2>1, FS_AddElement
  <2> QED
    BY <1>1, <2>1, <2>2
<1>5. Cardinality(UsersOf(b)') <= Cardinality(Task) /\ Cardinality(Task) \in Nat
  BY <1>1, TaskAssumption, FS_Subset, FS_CardinalityType
<1>6. bh[b].count \in Nat /\ bh[b].count + 1 <= 255
  BY <1>3, <1>4, <1>5, TaskAssumption
<1>7. bh[b].count + 1 \in 0 .. 255
  BY <1>6
<1> QED
  BY <1>2, <1>3, <1>4, <1>7

\* One user less, in the number.
LEMMA UserGoes ==
    ASSUME Sound, NEW t \in Task, NEW b \in Buffer, Uses(t, b),
           \A u \in Task, c \in Buffer : Uses(u, c)' <=> Uses(u, c) /\ ~(u = t /\ c = b)
    PROVE  /\ Cardinality(UsersOf(b)') = bh[b].count - 1 /\ bh[b].count \in 1 .. 255
           /\ \A c \in Buffer : c # b => Cardinality(UsersOf(c)') = bh[c].count
<1>1. UsersOf(b)' = UsersOf(b) \ {t} /\ t \in UsersOf(b)
  BY DEF UsersOf
<1>2. \A c \in Buffer : c # b => UsersOf(c)' = UsersOf(c)
  BY DEF UsersOf
<1>3. \A c \in Buffer : /\ bh[c].count = Cardinality(UsersOf(c)) /\ IsFiniteSet(UsersOf(c))
                        /\ Cardinality(UsersOf(c)) \in 0 .. 255
                        /\ Cardinality(UsersOf(c)) = 0 <=> UsersOf(c) = {}
  BY UsersCounted DEF UsersOf
<1> HIDE DEF UsersOf
<1>4. Cardinality(UsersOf(b)') = bh[b].count - 1
  <2>1. IsFiniteSet(UsersOf(b)) /\ bh[b].count = Cardinality(UsersOf(b))
    BY <1>3
  <2>2. Cardinality(UsersOf(b) \ {t}) = Cardinality(UsersOf(b)) - 1
    BY <1>1, <2>1, FS_RemoveElement
  <2> QED
    BY <1>1, <2>1, <2>2
<1>5. bh[b].count \in 0 .. 255 /\ bh[b].count # 0
  BY <1>1, <1>3
<1> QED
  BY <1>2, <1>3, <1>4, <1>5

\* get_hash_table finds the block and counts its user (buffer.c:116).
LEMMA FindHitKeeps == ASSUME Sound, NEW t \in Task, FindHit(t) PROVE Sound'
<1>1. task[t] \in Local /\ task \in [Task -> Local] /\ None \notin Buffer /\ Fits(task[t])
  BY CacheAssumption DEF Sound, TypeOK, LocalsFit
<1>2. task[t].at = "find" /\ task[t].blk \in Block
  BY <1>1 DEF FindHit, At, Fits
<1>3. PICK b \in Buffer : b = FindBuffer(task[t].blk) /\ bh[b].blk = task[t].blk
  BY <1>1, <1>2, FindBufferFinds DEF FindHit, Sound
<1>4. PICK n : n = (bh[b].count + 1) % 256
  OBVIOUS
<1>5. PICK l : l = [task[t] EXCEPT !.at = "found", !.b = b]
  OBVIOUS
<1>6. /\ cpu = t /\ cpu' = t /\ task' = [task EXCEPT ![t] = l] /\ bh' = [bh EXCEPT ![b].count = n]
      /\ UNCHANGED <<data, sent, free_list, hash_table, queues, device>>
  BY <1>3, <1>4, <1>5 DEF FindHit, At, Goes, Counted
<1>7. task'[t] = l /\ l \in Local /\ l.at = "found" /\ l.b = b /\ l.hold = None /\ l.blk = task[t].blk
  BY <1>1, <1>2, <1>3, <1>5, <1>6 DEF Local, Place, AtBuffer, Fits
<1>8. Fits(l)
  BY <1>2, <1>3, <1>7 DEF Fits
<1>9. /\ \A c \in Buffer : ~Uses(t, c) /\ (Uses(t, c)' <=> c = b)
      /\ \A u \in Task, c \in Buffer : Uses(u, c)' <=> Uses(u, c) \/ (u = t /\ c = b)
  <2>1. \A c \in Buffer : ~Uses(t, c) /\ (Uses(t, c)' <=> c = b)
    BY <1>1, <1>2, <1>7 DEF Uses, Fits
  <2>2. \A u \in Task, c \in Buffer : u # t => (Uses(u, c)' <=> Uses(u, c))
    BY <1>1, <1>6 DEF Uses
  <2> QED
    BY <2>1, <2>2
<1>10. /\ Cardinality(UsersOf(b)') = bh[b].count + 1 /\ bh[b].count + 1 \in 0 .. 255
       /\ \A c \in Buffer : c # b => Cardinality(UsersOf(c)') = bh[c].count
  <2>1. ~Uses(t, b)
    BY <1>9
  <2>2. \A u \in Task, c \in Buffer : Uses(u, c)' <=> Uses(u, c) \/ (u = t /\ c = b)
    BY <1>9
  <2> HIDE DEF UsersOf
  <2> QED
    BY <2>1, <2>2, UserComes
<1>11. bh \in [Buffer -> BufferHead] /\ bh[b].count \in 0 .. 255
  BY <1>3 DEF Sound, TypeOK, BufferHead
<1>12. n = bh[b].count + 1
  <2>1. \A k \in 0 .. 255 : k + 1 \in 0 .. 255 => (k + 1) % 256 = k + 1
    OBVIOUS
  <2>2. PICK k \in 0 .. 255 : k = bh[b].count
    BY <1>11
  <2>3. n = (k + 1) % 256 /\ k + 1 \in 0 .. 255
    BY <1>4, <1>10, <2>2
  <2> QED
    BY <2>1, <2>2, <2>3
<1>13. bh'[b].count = n /\ \A c \in Buffer : c # b => bh'[c].count = bh[c].count
  <2>1. PICK h : h = [bh[b] EXCEPT !.count = n]
    OBVIOUS
  <2>2. bh[b] \in BufferHead
    BY <1>3, <1>11
  <2>3. h.count = n
    BY <2>1, <2>2 DEF BufferHead
  <2>4. bh' = [bh EXCEPT ![b] = h]
    BY <1>6, <2>1
  <2> QED
    BY <1>3, <1>11, <2>3, <2>4
<1>14. CountIsUsers'
  BY <1>10, <1>12, <1>13 DEF CountIsUsers, UsersOf
<1>15. Counts(t, l, b, n)
  BY <1>2, <1>3, <1>6, <1>7, <1>8, <1>9, <1>10, <1>12 DEF Counts
<1>16. QueuesOK'
  <2>1. Unused' \subseteq Unused
    <3>1. \A k \in 0 .. 255 : k + 1 # 0
      OBVIOUS
    <3>2. bh'[b].count # 0
      BY <1>11, <1>12, <1>13, <3>1
    <3> QED
      BY <1>13, <3>2 DEF Unused
  <2> QED
    BY <1>6, <2>1 DEF Sound, TypeOK, QueuesOK, NoLostBuffer, queues
<1> QED
  BY <1>3, <1>14, <1>15, <1>16, CountsKeeps

\* brelse never comes to its panic.
LEMMA ReleaseKeeps == ASSUME Sound, NEW t \in Task, Release(t) PROVE Sound'
<1>1. task[t] \in Local /\ task \in [Task -> Local] /\ None \notin Buffer /\ Fits(task[t])
  BY CacheAssumption DEF Sound, TypeOK, LocalsFit
<1>2. PICK b \in Buffer : b = task[t].b
  BY <1>1 DEF Release, AtUnlocked, At, Fits, AtBuffer
<1>3. PICK n : n = (bh[b].count + 255) % 256
  OBVIOUS
<1>4. /\ cpu = t /\ task[t].at = "release" /\ task[t].hold = None
      /\ UNCHANGED <<data, sent, free_list, hash_table, b_wait, wait_for_request, device>>
  BY <1>1 DEF Release, AtUnlocked, At, Fits
<1>5. \A c \in Buffer : Uses(t, c) <=> c = b
  BY <1>1, <1>2, <1>4 DEF Uses
<1>6. bh[b].count \in 1 .. 255
  <2>1. t \in UsersOf(b)
    BY <1>5 DEF UsersOf
  <2>2. /\ bh[b].count = Cardinality(UsersOf(b)) /\ Cardinality(UsersOf(b)) \in 0 .. 255
        /\ Cardinality(UsersOf(b)) = 0 <=> UsersOf(b) = {}
    BY UsersCounted DEF UsersOf
  <2> HIDE DEF UsersOf
  <2>3. bh[b].count \in 0 .. 255 /\ bh[b].count # 0
    BY <2>1, <2>2
  <2> QED
    BY <2>3
<1>7. /\ bh' = [bh EXCEPT ![b].count = n] /\ buffer_wait' = Woken(buffer_wait)
      /\ task' = [task EXCEPT ![t] = Idle] /\ cpu' = None
  <2>1. bh[b].count > 0
    BY <1>6
  <2> QED
    BY <1>2, <1>3, <2>1 DEF Release, Uncounted, PoolWoken, Returns
<1>8. task'[t] = Idle /\ Idle \in Local /\ Fits(Idle) /\ \A c \in Buffer : ~Uses(t, c)'
  BY <1>1, <1>7 DEF Idle, Local, Place, AtBuffer, Fits, Uses
<1>9. \A u \in Task, c \in Buffer : Uses(u, c)' <=> Uses(u, c) /\ ~(u = t /\ c = b)
  <2>1. \A u \in Task, c \in Buffer : u # t => (Uses(u, c)' <=> Uses(u, c))
    BY <1>1, <1>7 DEF Uses
  <2> QED
    BY <1>5, <1>8, <2>1
<1>10. /\ Cardinality(UsersOf(b)') = bh[b].count - 1
       /\ \A c \in Buffer : c # b => Cardinality(UsersOf(c)') = bh[c].count
  BY <1>5, <1>9, UserGoes
<1>11. n = bh[b].count - 1 /\ n \in 0 .. 255
  <2>1. PICK k \in 1 .. 255 : k = bh[b].count
    BY <1>6
  <2>2. n = (k + 255) % 256
    BY <1>3, <2>1
  <2>3. (k + 255) % 256 = k - 1 /\ k - 1 \in 0 .. 255
    OBVIOUS
  <2> QED
    BY <2>1, <2>2, <2>3
<1>12. bh \in [Buffer -> BufferHead]
  BY DEF Sound, TypeOK, BufferHead
<1>13. bh'[b].count = n /\ \A c \in Buffer : c # b => bh'[c].count = bh[c].count
  BY <1>7, <1>12 DEF BufferHead
<1>14. CountIsUsers'
  BY <1>10, <1>11, <1>13 DEF CountIsUsers, UsersOf
<1>15. Counts(t, Idle, b, n)
  BY <1>4, <1>7, <1>8, <1>11 DEF Counts, Idle
<1>16. QueuesOK'
  <2>1. buffer_wait \in QueueOf(Task)
    BY DEF Sound, TypeOK
  <2>2. buffer_wait' \in QueueOf(Task) /\ (buffer_wait'.waiting # {} => buffer_wait'.signalled)
    BY <1>7, <2>1, QueueValues
  <2> QED
    BY <1>4, <2>2 DEF Sound, TypeOK, QueuesOK, NoLostBuffer
<1> QED
  BY <1>14, <1>15, <1>16, CountsKeeps

\* A pending request is of a buffer, for a block of the device.
LEMMA PendingTyped ==
    ASSUME Sound, NEW s \in Pending
    PROVE  /\ s \in Slot /\ request[s] # Free
           /\ request[s].bh \in Buffer /\ request[s].block \in Block /\ request[s].cmd \in {READ, WRITE}
BY DEF Sound, TypeOK, QueueTypeOK, Pending, Request, Cmd, READ, WRITE

\* make_request locks the buffer, or finds nothing to do for it (ll_rw_blk.c:73-79).
LEMMA LockKeeps == ASSUME Sound, NEW t \in Task, Lock(t) PROVE Sound'
<1>1. task[t] \in Local /\ task \in [Task -> Local] /\ None \notin Buffer /\ Fits(task[t])
  BY CacheAssumption DEF Sound, TypeOK, LocalsFit
<1>2. PICK b \in Buffer : b = task[t].b
  BY <1>1 DEF Lock, AtUnlocked, At, Fits, AtBuffer
<1>3. PICK l : l = [task[t] EXCEPT !.at = "slot"]
  OBVIOUS
<1>4. /\ cpu = t /\ task[t].at = "lock" /\ task[t].hold = None /\ ~bh[b].lock
      /\ UNCHANGED <<data, sent, free_list, hash_table, buffer_wait, wait_for_request, request, chain, disk>>
  BY <1>1, <1>2 DEF Lock, AtUnlocked, At, Fits, device
<1>5. CASE Skips(t)
  <2>1. AtUnlocked(t, "lock") /\ AfterIO(t) /\ Wake(task[t].b) /\ UNCHANGED <<cache, buffer_wait, wait_for_request, device>>
    BY <1>5 DEF Lock, cache
  <2> QED
    BY <2>1, SkipKeeps
<1>6. CASE ~Skips(t)
  <2>1. /\ bh' = [bh EXCEPT ![b].lock = TRUE] /\ UNCHANGED b_wait
        /\ task' = [task EXCEPT ![t] = l] /\ cpu' = t
    BY <1>2, <1>3, <1>6 DEF Lock, Goes
  <2>2. /\ task[t].rw = WRITE => bh[b].dirt
        /\ task[t].rw = READ => ~bh[b].uptodate
    BY <1>2, <1>6 DEF Skips
  <2>3. task'[t] = l /\ l \in Local /\ l.at = "slot" /\ l.b = b /\ l.hold = None /\ l.blk = task[t].blk /\ l.rw = task[t].rw
    BY <1>1, <1>2, <1>3, <1>4, <2>1 DEF Local, Place
  <2>4. Fits(l)
    BY <1>1, <1>2, <1>4, <2>3 DEF Fits, AtBuffer
  <2>5. \A u \in Task : u # t => task'[u] = task[u]
    BY <1>1, <2>1
  <2>6. bh \in [Buffer -> BufferHead] /\ bh' \in [Buffer -> BufferHead]
    <3>1. bh \in [Buffer -> BufferHead]
      BY DEF Sound, TypeOK, BufferHead
    <3>2. bh' = [bh EXCEPT ![b] = [bh[b] EXCEPT !.lock = TRUE]]
      BY <2>1, <3>1
    <3>3. \A r \in BufferHead : [r EXCEPT !.lock = TRUE] \in BufferHead
      BY DEF BufferHead
    <3> QED
      BY <3>1, <3>2, <3>3
  <2>7. /\ bh'[b].lock /\ \A c \in Buffer : c # b => bh'[c].lock = bh[c].lock
        /\ \A c \in Buffer : /\ bh'[c].blk = bh[c].blk /\ bh'[c].dirt = bh[c].dirt
                             /\ bh'[c].uptodate = bh[c].uptodate /\ bh'[c].count = bh[c].count
    BY <2>1, <2>6 DEF BufferHead
  <2>8. TypeOK'
    <3>1. QueueTypeOK'
      BY <1>4 DEF Sound, TypeOK, QueueTypeOK
    <3>2. task' \in [Task -> Local] /\ cpu' \in Task \cup {None}
      BY <1>1, <2>1, <2>3
    <3> QED
      BY <1>4, <2>1, <2>6, <3>1, <3>2 DEF Sound, TypeOK, BufferHead
  <2>9. \A u \in Task, c \in Buffer : Uses(u, c)' <=> Uses(u, c)
    <3>1. \A c \in Buffer : Uses(t, c)' <=> Uses(t, c)
      BY <1>2, <1>4, <2>3 DEF Uses
    <3> QED
      BY <2>5, <3>1 DEF Uses
  <2>10. CountIsUsers'
    BY <2>7, <2>9 DEF Sound, CountIsUsers
  <2>11. ChainsSound' /\ LocalsFit' /\ ListsWhole' /\ OneBufferPerBlock'
    <3>1. ChainsSound' /\ LocalsFit'
      BY <1>4, <2>3, <2>4, <2>5, ChainsKept DEF Sound, LocalsFit, Fits
    <3> QED
      BY <1>4, <2>7, <3>1 DEF Sound, ListsWhole, OneBufferPerBlock, HashOf
  <2>12. \A s \in Pending : request[s].bh \in Buffer /\ request[s].bh # b
    BY <1>4, PendingTyped DEF Sound, LocksOwned
  <2>13. \A u \in Task : task[u].at = "slot" => u # t /\ task[u].b # b /\ task[u].b \in Buffer
    BY <1>4 DEF Sound, LocksOwned, LocalsFit, Fits
  <2>14. LocksOwned'
    <3>1. \A s \in Pending : bh'[request[s].bh].lock
      BY <2>7, <2>12 DEF Sound, LocksOwned
    <3>2. ASSUME NEW u \in Task, task'[u].at = "slot"
          PROVE  bh'[task'[u].b].lock /\ \A s \in Pending : request[s].bh # task'[u].b
      <4>1. CASE u = t
        BY <2>3, <2>7, <2>12, <4>1
      <4>2. CASE u # t
        BY <2>5, <2>7, <2>13, <3>2, <4>2 DEF Sound, LocksOwned
      <4> QED
        BY <4>1, <4>2
    <3>3. ASSUME NEW u \in Task, NEW v \in Task, task'[u].at = "slot", task'[v].at = "slot",
                 task'[u].b = task'[v].b
          PROVE  u = v
      BY <2>3, <2>5, <2>13, <3>3 DEF Sound, LocksOwned
    <3>4. ASSUME NEW c \in Buffer, bh'[c].lock
          PROVE  \/ \E s \in Pending : request[s].bh = c
                 \/ \E u \in Task : task'[u].at = "slot" /\ task'[u].b = c
      <4>1. CASE c = b
        BY <2>3, <4>1
      <4>2. CASE c # b
        BY <2>5, <2>7, <2>13, <3>4, <4>2 DEF Sound, LocksOwned
      <4> QED
        BY <4>1, <4>2
    <3>5. \A s, q \in Pending : request[s].bh = request[q].bh => s = q
      BY DEF Sound, LocksOwned
    <3> QED
      BY <1>4, <3>1, <3>2, <3>3, <3>4, <3>5 DEF LocksOwned, Pending
  <2>15. RequestFitsBuffer'
    BY <1>4, <2>7, <2>12 DEF Sound, RequestFitsBuffer, Pending
  <2>16. UsersKeep'
    <3> SUFFICES ASSUME NEW u \in Task, NEW c \in Buffer, Uses(u, c)', task'[u].at # "release"
                 PROVE  bh[c].blk = task'[u].blk
      BY <2>7 DEF UsersKeep
    <3>1. Uses(u, c)
      BY <2>9
    <3> QED
      BY <1>4, <2>3, <2>5, <3>1 DEF Sound, UsersKeep
  <2>17. VictimFree'
    BY <1>4, <2>3, <2>5 DEF Sound, VictimFree
  <2>18. DataAtHome'
    <3> DEFINE Now(c) == data'[c].blk = bh'[c].blk /\ bh'[c].blk \in Block
    <3>1. \A c \in Buffer : Home(c) => Now(c)
      BY <1>4, <2>7 DEF Home
    <3>2. task[t].rw = WRITE => Home(b)
      BY <2>2 DEF Sound, DataAtHome
    <3>3. \A u \in Task : task'[u].hold # None => task[u].hold = task'[u].hold /\ task[u].hold \in Buffer
      BY <1>1, <2>3, <2>5 DEF Local
    <3>4. \A u \in Task : task'[u].at = "slot" /\ task'[u].rw = WRITE => Now(task'[u].b)
      <4> HIDE DEF Now
      <4> QED
        BY <2>3, <2>5, <2>13, <3>1, <3>2 DEF Sound, DataAtHome
    <3>5. \A c \in Buffer : bh'[c].uptodate \/ bh'[c].dirt => Now(c)
      <4> HIDE DEF Now
      <4> QED
        BY <2>7, <3>1 DEF Sound, DataAtHome
    <3>6. \A u \in Task : task'[u].hold # None => Now(task'[u].hold)
      <4> HIDE DEF Now
      <4> QED
        BY <3>1, <3>3 DEF Sound, DataAtHome
    <3>7. \A s \in Pending : request[s].cmd = WRITE => Now(request[s].bh)
      <4> HIDE DEF Now
      <4> QED
        BY <2>12, <3>1 DEF Sound, DataAtHome
    <3>8. \A blk \in Block : disk'[blk].blk = blk
      BY <1>4 DEF Sound, DataAtHome
    <3> QED
      BY <1>4, <3>4, <3>5, <3>6, <3>7, <3>8 DEF DataAtHome, Home, Pending
  <2>19. ReadsStale' /\ WritesSent'
    <3>1. \A u \in Task : task'[u].at = "slot" /\ task'[u].rw = READ => ~bh'[task'[u].b].uptodate
      BY <2>2, <2>3, <2>5, <2>7, <2>13 DEF Sound, ReadsStale
    <3> QED
      BY <1>4, <2>7, <2>12, <3>1 DEF Sound, ReadsStale, WritesSent, Pending
  <2>20. CleanMatchesDisk'
    BY <1>4, <2>7 DEF Sound, CleanMatchesDisk
  <2>21. NoLostBuffer'
    BY <1>4, <2>7 DEF Sound, NoLostBuffer, Unused
  <2> QED
    BY <2>8, <2>10, <2>11, <2>14, <2>15, <2>16, <2>17, <2>18, <2>19, <2>20, <2>21 DEF Sound
<1> QED
  BY <1>5, <1>6

\* The holder's change.
LEMMA ModifyKeeps == ASSUME Sound, NEW t \in Task, Modify(t) PROVE Sound'
<1>1. task[t] \in Local /\ task \in [Task -> Local] /\ None \notin Buffer /\ None \notin Task /\ Fits(task[t])
  BY CacheAssumption DEF Sound, TypeOK, LocalsFit
<1>2. PICK b \in Buffer : b = task[t].hold
  BY <1>1 DEF Modify, Local
<1>3. /\ cpu = None /\ task[t].at = "user" /\ data[b].writes < MaxWrites
      /\ data' = [data EXCEPT ![b].writes = data[b].writes + 1]
      /\ bh' = [bh EXCEPT ![b].dirt = TRUE]
      /\ UNCHANGED <<sent, free_list, hash_table, queues, request, chain, disk, cpu, task>>
  BY <1>2 DEF Modify, Dirtied, device, Sound, TypeOK
<1>4. bh \in [Buffer -> BufferHead] /\ bh' \in [Buffer -> BufferHead]
  <2>1. bh \in [Buffer -> BufferHead]
    BY DEF Sound, TypeOK, BufferHead
  <2>2. bh' = [bh EXCEPT ![b] = [bh[b] EXCEPT !.dirt = TRUE]]
    BY <1>3, <2>1
  <2>3. \A r \in BufferHead : [r EXCEPT !.dirt = TRUE] \in BufferHead
    BY DEF BufferHead
  <2> QED
    BY <2>1, <2>2, <2>3
<1>5. /\ bh'[b].dirt /\ \A c \in Buffer : c # b => bh'[c].dirt = bh[c].dirt
      /\ \A c \in Buffer : /\ bh'[c].blk = bh[c].blk /\ bh'[c].lock = bh[c].lock
                           /\ bh'[c].uptodate = bh[c].uptodate /\ bh'[c].count = bh[c].count
  BY <1>3, <1>4 DEF BufferHead
<1>6. data \in [Buffer -> Content] /\ data' \in [Buffer -> Content]
  <2>1. data \in [Buffer -> Content] /\ MaxWrites \in Nat
    BY CacheAssumption DEF Sound, TypeOK
  <2>2. data[b].writes + 1 \in 0 .. MaxWrites
    BY <1>3, <2>1 DEF Content
  <2>3. data' = [data EXCEPT ![b] = [data[b] EXCEPT !.writes = data[b].writes + 1]]
    BY <1>3, <2>1
  <2>4. [data[b] EXCEPT !.writes = data[b].writes + 1] \in Content
    BY <2>1, <2>2 DEF Content
  <2> QED
    BY <2>1, <2>3, <2>4
<1>7. (\A c \in Buffer : data'[c].blk = data[c].blk) /\ \A c \in Buffer : c # b => data'[c] = data[c]
  BY <1>3, <1>6 DEF Content
<1>8. TypeOK'
  <2>1. QueueTypeOK'
    BY <1>3 DEF Sound, TypeOK, QueueTypeOK
  <2> QED
    BY <1>3, <1>4, <1>6, <2>1 DEF Sound, TypeOK, BufferHead, queues
<1>9. ChainsSound' /\ LocalsFit' /\ ListsWhole' /\ OneBufferPerBlock'
  <2>1. ChainsSound' /\ LocalsFit'
    BY <1>3, ChainsKept DEF Sound, LocalsFit, Fits
  <2> QED
    BY <1>3, <1>5, <2>1 DEF Sound, ListsWhole, OneBufferPerBlock, HashOf
<1>10. CountIsUsers' /\ UsersKeep'
  <2>1. \A u \in Task, c \in Buffer : Uses(u, c)' <=> Uses(u, c)
    BY <1>3 DEF Uses
  <2>2. CountIsUsers'
    BY <1>5, <2>1 DEF Sound, CountIsUsers
  <2> QED
    BY <1>3, <1>5, <2>1, <2>2 DEF Sound, UsersKeep
<1>11. /\ \A s \in Pending : request[s].bh \in Buffer
       /\ \A u \in Task : task[u].at = "slot" => task[u].b \in Buffer
       /\ \A u \in Task : task[u].hold # None => task[u].hold \in Buffer
  BY <1>1, PendingTyped DEF Sound, LocalsFit, Fits, Local
<1>12. LocksOwned' /\ RequestFitsBuffer'
  BY <1>3, <1>5, <1>11 DEF Sound, LocksOwned, RequestFitsBuffer, Pending
<1>13. VictimFree'
  BY <1>1, <1>3 DEF Sound, VictimFree
<1>14. DataAtHome'
  <2>1. \A c \in Buffer : Home(c) => Home(c)'
    BY <1>3, <1>5, <1>7 DEF Home
  <2>2. Home(b)
    BY <1>1, <1>2 DEF Sound, DataAtHome
  <2> QED
    BY <1>3, <1>5, <1>11, <2>1, <2>2 DEF Sound, DataAtHome, Pending
<1>15. ReadsStale' /\ WritesSent'
  BY <1>3, <1>5, <1>7, <1>11 DEF Sound, ReadsStale, WritesSent, Pending
<1>16. CleanMatchesDisk'
  BY <1>3, <1>5, <1>7 DEF Sound, CleanMatchesDisk
<1>17. NoLostBuffer'
  BY <1>3, <1>5 DEF Sound, NoLostBuffer, Unused, queues
<1> QED
  BY <1>8, <1>9, <1>10, <1>12, <1>13, <1>14, <1>15, <1>16, <1>17 DEF Sound

\* A buffer's change of identity, in the lists.
LEMMA RenameKeepsLists ==
    ASSUME TypeOK, ListsWhole, NEW b \in Buffer, NEW blk \in Block, Rename(b, blk)
    PROVE  /\ free_list' \in Seq(Buffer) /\ hash_table' \in [Hash -> Seq(Buffer)]
           /\ ListsWhole'
<1> DEFINE old == bh[b].blk
           rest(h) == IF old # NoBlock /\ h = HashOf(old) THEN RemoveFirst(hash_table[h], b)
                      ELSE hash_table[h]
<1>1. free_list \in Seq(Buffer) /\ hash_table \in [Hash -> Seq(Buffer)] /\ bh \in [Buffer -> BufferHead]
  BY DEF TypeOK, BufferHead
<1>2. bh'[b].blk = blk /\ blk # NoBlock /\ \A c \in Buffer : c # b => bh'[c].blk = bh[c].blk
  <2>1. bh' = Claimed(b, blk)
    BY DEF Rename
  <2> QED
    BY <1>1, <2>1, CacheAssumption DEF Claimed
<1>3. free_list' = Append(RemoveFirst(free_list, b), b)
  BY DEF Rename
<1>4. hash_table' = [h \in Hash |-> IF h = HashOf(blk) THEN <<b>> \o rest(h) ELSE rest(h)]
  BY DEF Rename, InFront
<1>5. free_list' \in Seq(Buffer) /\ EachOnce(free_list') /\ \A c \in Buffer : Holds(free_list', c)
  <2> DEFINE out == RemoveFirst(free_list, b)
  <2>1. /\ out \in Seq(Buffer) /\ EachOnce(out)
        /\ \A y : Holds(out, y) <=> Holds(free_list, y) /\ y # b
    BY <1>1, RemovedOnce DEF ListsWhole
  <2> DEFINE one == <<b>>
  <2>2. one \in Seq(Buffer) /\ EachOnce(one) /\ \A y : Holds(one, y) <=> y = b
    BY SingleOnce
  <2>3. free_list' = out \o one
    BY <1>3, <2>1, AppendIsConcat
  <2> HIDE DEF out, one
  <2>4. \A i \in DOMAIN out : \A j \in DOMAIN one : out[i] # one[j]
    BY <2>1, <2>2 DEF Holds
  <2>5. /\ out \o one \in Seq(Buffer) /\ EachOnce(out \o one)
        /\ \A y : Holds(out \o one, y) <=> Holds(out, y) \/ Holds(one, y)
    BY <2>1, <2>2, <2>4, JoinedOnce
  <2> QED
    BY <2>1, <2>2, <2>3, <2>5 DEF ListsWhole
<1>6. ASSUME NEW h \in Hash
      PROVE  /\ hash_table'[h] \in Seq(Buffer) /\ EachOnce(hash_table'[h])
             /\ \A c \in Buffer : Holds(hash_table'[h], c) <=> bh'[c].blk # NoBlock /\ HashOf(bh'[c].blk) = h
  <2> DEFINE c0 == hash_table[h]
             r == rest(h)
  <2>1. /\ c0 \in Seq(Buffer) /\ EachOnce(c0)
        /\ \A c \in Buffer : Holds(c0, c) <=> bh[c].blk # NoBlock /\ HashOf(bh[c].blk) = h
    BY <1>1 DEF ListsWhole
  <2>2. /\ r \in Seq(Buffer) /\ EachOnce(r)
        /\ \A c \in Buffer : Holds(r, c) <=> Holds(c0, c) /\ c # b
    <3>1. CASE old # NoBlock /\ h = HashOf(old)
      <4>1. r = RemoveFirst(c0, b)
        BY <3>1
      <4> HIDE DEF r, c0
      <4> QED
        BY <2>1, <4>1, RemovedOnce
    <3>2. CASE ~(old # NoBlock /\ h = HashOf(old))
      <4>1. r = c0 /\ ~Holds(c0, b)
        BY <2>1, <3>2
      <4> HIDE DEF r, c0
      <4> QED
        BY <2>1, <4>1
    <3> QED
      BY <3>1, <3>2
  <2>3. hash_table'[h] = IF h = HashOf(blk) THEN <<b>> \o r ELSE r
    BY <1>4
  <2> HIDE DEF c0, r
  <2>4. CASE h = HashOf(blk)
    <3> DEFINE one == <<b>>
    <3>1. one \in Seq(Buffer) /\ EachOnce(one) /\ \A y : Holds(one, y) <=> y = b
      BY SingleOnce
    <3> HIDE DEF one
    <3>2. \A i \in DOMAIN one : \A j \in DOMAIN r : one[i] # r[j]
      BY <2>2, <3>1 DEF Holds
    <3>3. /\ one \o r \in Seq(Buffer) /\ EachOnce(one \o r)
          /\ \A y : Holds(one \o r, y) <=> Holds(one, y) \/ Holds(r, y)
      BY <2>2, <3>1, <3>2, JoinedOnce
    <3>4. hash_table'[h] = one \o r
      BY <2>3, <2>4 DEF one
    <3> QED
      BY <1>2, <2>1, <2>2, <2>4, <3>1, <3>3, <3>4
  <2>5. CASE h # HashOf(blk)
    BY <1>2, <2>1, <2>2, <2>3, <2>5
  <2> QED
    BY <2>4, <2>5
<1>7. hash_table' \in [Hash -> Seq(Buffer)]
  <2>1. hash_table' = [h \in Hash |-> hash_table'[h]]
    BY <1>4
  <2> QED
    BY <1>6, <2>1
<1> QED
  BY <1>5, <1>6, <1>7 DEF ListsWhole, HashOf

\* getblk starts over, or takes the buffer that nobody uses.
LEMMA VictimKeeps == ASSUME Sound, NEW t \in Task, Victim(t) PROVE Sound'
<1>1. task[t] \in Local /\ task \in [Task -> Local] /\ None \notin Buffer /\ Fits(task[t])
  BY CacheAssumption DEF Sound, TypeOK, LocalsFit
<1>2. cpu = t /\ task[t].at = "victim" /\ UNCHANGED <<queues, device>> /\ task[t].hold = None /\ task[t].blk \in Block
  BY <1>1 DEF Victim, AtUnlocked, At, Fits
<1>3. CASE VictimTaken(t)
  <2> DEFINE l == [task[t] EXCEPT !.at = "find"]
  <2>1. task' = [task EXCEPT ![t] = l] /\ cpu' = t /\ UNCHANGED cache
    BY <1>3 DEF Victim, Goes
  <2>2. Moves(t, l)
    BY <1>1, <1>2, <2>1 DEF Moves, Fits, Local, Place, AtBuffer, Uses
  <2> QED
    BY <1>2, <2>1, <2>2, MovesKeeps, QueuesStill DEF cache, queues
<1>4. CASE ~VictimTaken(t)
  <2>1. PICK b \in Buffer : b = task[t].tmp /\ b = task[t].b /\ bh[b].count = 0 /\ ~bh[b].lock
    BY <1>1, <1>2 DEF Fits, AtBuffer, Sound, VictimFree
  <2>2. PICK blk \in Block : blk = task[t].blk
    BY <1>2
  <2>3. PICK l : l = [Idle EXCEPT !.at = "lock", !.blk = blk, !.b = b]
    OBVIOUS
  <2>4. Rename(b, blk) /\ task' = [task EXCEPT ![t] = l] /\ cpu' = t
    BY <1>4, <2>1, <2>2, <2>3 DEF Victim, GetblkReturns, Goes
  <2>5. \A c \in Buffer : bh[c].blk # blk
    <3>1. FindBuffer(blk) = None
      BY <1>4, <2>2 DEF VictimTaken
    <3> QED
      BY <1>1, <2>2, <3>1, FindBufferFinds DEF Sound
  <2>6. /\ task'[t] = l /\ l \in Local /\ l.at = "lock" /\ l.b = b /\ l.hold = None /\ l.blk = blk
        /\ l.rw = READ /\ Fits(l)
    <3>1. l \in Local /\ l.at = "lock" /\ l.b = b /\ l.hold = None /\ l.blk = blk /\ l.rw = READ
      BY <2>3 DEF Local, Place, AtBuffer, Idle
    <3> QED
      BY <1>1, <2>4, <3>1 DEF Fits, AtBuffer
  <2>7. \A u \in Task : u # t => task'[u] = task[u]
    BY <1>1, <2>4
  <2>8. bh \in [Buffer -> BufferHead] /\ bh' \in [Buffer -> BufferHead]
    <3>1. bh \in [Buffer -> BufferHead] /\ bh' = Claimed(b, blk)
      BY <2>4 DEF Sound, TypeOK, BufferHead, Rename
    <3> QED
      BY <3>1 DEF Claimed, BufferHead
  <2>9. /\ bh'[b].blk = blk /\ bh'[b].count = 1 /\ ~bh'[b].dirt /\ ~bh'[b].uptodate /\ ~bh'[b].lock
        /\ \A c \in Buffer : c # b => bh'[c] = bh[c]
    <3>1. bh' = Claimed(b, blk)
      BY <2>4 DEF Rename
    <3>2. bh' = [bh EXCEPT ![b] = [blk |-> blk, count |-> 1, dirt |-> FALSE, uptodate |-> FALSE, lock |-> bh[b].lock]]
      BY <2>8, <3>1 DEF Claimed
    <3> QED
      BY <2>1, <2>8, <3>2
  <2>10. UNCHANGED <<data, sent, b_wait, buffer_wait, wait_for_request, request, chain, disk>>
    BY <1>2, <2>4 DEF queues, device, Rename
  <2>11. free_list' \in Seq(Buffer) /\ hash_table' \in [Hash -> Seq(Buffer)] /\ ListsWhole'
    BY <2>4, RenameKeepsLists DEF Sound
  <2>12. TypeOK'
    <3>1. QueueTypeOK'
      BY <2>10 DEF Sound, TypeOK, QueueTypeOK
    <3>2. task' \in [Task -> Local] /\ cpu' \in Task \cup {None}
      BY <1>1, <2>4, <2>6
    <3> QED
      BY <2>8, <2>10, <2>11, <3>1, <3>2 DEF Sound, TypeOK, BufferHead
  <2>13. ChainsSound' /\ LocalsFit'
    BY <2>6, <2>7, <2>10, ChainsKept DEF Sound, LocalsFit, Fits
  <2>14. OneBufferPerBlock'
    BY <2>5, <2>9 DEF Sound, OneBufferPerBlock
\* Before, nobody used b.
  <2>15. \A u \in Task : ~Uses(u, b)
    <3>1. UsersOf(b) = {}
      <4>1. /\ bh[b].count = Cardinality(UsersOf(b))
            /\ Cardinality(UsersOf(b)) = 0 <=> UsersOf(b) = {}
        BY UsersCounted DEF UsersOf
      <4> HIDE DEF UsersOf
      <4> QED
        BY <2>1, <4>1
    <3> QED
      BY <3>1 DEF UsersOf
  <2>16. \A u \in Task, c \in Buffer : Uses(u, c)' <=> Uses(u, c) \/ (u = t /\ c = b)
    <3>1. \A c \in Buffer : ~Uses(t, c) /\ (Uses(t, c)' <=> c = b)
      BY <1>1, <1>2, <2>6 DEF Uses
    <3>2. \A u \in Task, c \in Buffer : u # t => (Uses(u, c)' <=> Uses(u, c))
      BY <2>7 DEF Uses
    <3> QED
      BY <3>1, <3>2
  <2>17. CountIsUsers'
    <3>1. /\ Cardinality(UsersOf(b)') = bh[b].count + 1
          /\ \A c \in Buffer : c # b => Cardinality(UsersOf(c)') = bh[c].count
      BY <2>15, <2>16, UserComes
    <3>2. Cardinality(UsersOf(b)') = 1
      BY <2>1, <3>1
    <3> QED
      BY <2>9, <3>1, <3>2 DEF CountIsUsers, UsersOf
  <2>18. \A s \in Pending : request[s].bh \in Buffer /\ request[s].bh # b
    BY <2>1, PendingTyped DEF Sound, LocksOwned
  <2>19. \A u \in Task : (task[u].at = "slot" \/ task'[u].at = "slot") =>
            task'[u] = task[u] /\ task[u].b # b /\ task[u].b \in Buffer
    BY <1>2, <2>1, <2>6, <2>7 DEF Sound, LocksOwned, LocalsFit, Fits
  <2>20. LocksOwned'
    <3>1. \A s \in Pending : bh'[request[s].bh].lock
      BY <2>9, <2>18 DEF Sound, LocksOwned
    <3>2. \A u \in Task : task'[u].at = "slot" =>
              bh'[task'[u].b].lock /\ \A s \in Pending : request[s].bh # task'[u].b
      BY <2>9, <2>19 DEF Sound, LocksOwned
    <3>3. \A u, v \in Task : task'[u].at = "slot" /\ task'[v].at = "slot" /\ task'[u].b = task'[v].b => u = v
      BY <2>19 DEF Sound, LocksOwned
    <3>4. \A c \in Buffer : bh'[c].lock => \/ \E s \in Pending : request[s].bh = c
                                          \/ \E u \in Task : task'[u].at = "slot" /\ task'[u].b = c
      <4> SUFFICES ASSUME NEW c \in Buffer, bh'[c].lock
                   PROVE  \/ \E s \in Pending : request[s].bh = c
                          \/ \E u \in Task : task'[u].at = "slot" /\ task'[u].b = c
        OBVIOUS
      <4>1. bh[c].lock
        BY <2>9
      <4> QED
        BY <2>19, <4>1 DEF Sound, LocksOwned
    <3>5. \A s, q \in Pending : request[s].bh = request[q].bh => s = q
      BY DEF Sound, LocksOwned
    <3> QED
      BY <2>10, <3>1, <3>2, <3>3, <3>4, <3>5 DEF LocksOwned, Pending
  <2>21. RequestFitsBuffer'
    BY <2>9, <2>10, <2>18 DEF Sound, RequestFitsBuffer, Pending
  <2>22. UsersKeep'
    <3> SUFFICES ASSUME NEW u \in Task, NEW c \in Buffer, Uses(u, c)', task'[u].at # "release"
                 PROVE  bh'[c].blk = task'[u].blk
      BY DEF UsersKeep
    <3>1. CASE u = t
      <4>1. c = b
        BY <1>1, <2>6, <3>1 DEF Uses
      <4> QED
        BY <2>6, <2>9, <3>1, <4>1
    <3>2. CASE u # t
      <4>1. Uses(u, c) /\ c # b
        BY <2>15, <2>16, <3>2
      <4> QED
        BY <2>7, <2>9, <3>2, <4>1 DEF Sound, UsersKeep
    <3> QED
      BY <3>1, <3>2
  <2>23. VictimFree'
    BY <1>2, <2>6, <2>7 DEF Sound, VictimFree
  <2>24. DataAtHome'
    <3> DEFINE Now(c) == data'[c].blk = bh'[c].blk /\ bh'[c].blk \in Block
    <3>1. \A c \in Buffer : c # b /\ Home(c) => Now(c)
      BY <2>9, <2>10 DEF Home
    <3> HIDE DEF Now
    <3>2. \A c \in Buffer : bh'[c].uptodate \/ bh'[c].dirt => Now(c)
      BY <2>9, <3>1 DEF Sound, DataAtHome
    <3>3. \A u \in Task : task'[u].hold # None => task'[u] = task[u] /\ task[u].hold \in Buffer /\ task[u].hold # b
      BY <1>1, <2>6, <2>7, <2>15 DEF Local, Uses
    <3>4. \A u \in Task : task'[u].hold # None => Now(task'[u].hold)
      BY <3>1, <3>3 DEF Sound, DataAtHome
    <3>5. \A u \in Task : task'[u].at = "slot" /\ task'[u].rw = WRITE => Now(task'[u].b)
      BY <2>19, <3>1 DEF Sound, DataAtHome
    <3>6. \A s \in Pending : request[s].cmd = WRITE => Now(request[s].bh)
      BY <2>18, <3>1 DEF Sound, DataAtHome
    <3>7. \A k \in Block : disk'[k].blk = k
      BY <2>10 DEF Sound, DataAtHome
    <3> QED
      BY <2>10, <3>2, <3>4, <3>5, <3>6, <3>7 DEF DataAtHome, Home, Now, Pending
  <2>25. ReadsStale' /\ WritesSent'
    BY <2>9, <2>10, <2>18, <2>19 DEF Sound, ReadsStale, WritesSent, Pending
  <2>26. CleanMatchesDisk'
    BY <2>9, <2>10 DEF Sound, CleanMatchesDisk
  <2>27. NoLostBuffer'
    <3>1. Unused' \subseteq Unused
      BY <2>9 DEF Unused
    <3> QED
      BY <2>10, <3>1 DEF Sound, NoLostBuffer
  <2> QED
    BY <2>11, <2>12, <2>13, <2>14, <2>17, <2>20, <2>21, <2>22, <2>23, <2>24, <2>25, <2>26, <2>27 DEF Sound
<1> QED
  BY <1>3, <1>4

\* Where the caller of ll_rw_block goes on, with local variables l.
GoesOn(t, l) ==
    /\ task' = [task EXCEPT ![t] = l] /\ cpu' \in {t, None} /\ l \in Local /\ Fits(l) /\ l.hold = None
    /\ task[t].rw = READ => l.at = "read" /\ l.b = task[t].b /\ l.blk = task[t].blk
    /\ task[t].rw = WRITE => l.at \in {"user", "sync"}

\* Where a task goes on once its request is made.
LEMMA AfterIOGoes ==
    ASSUME Sound, NEW t \in Task, task[t].at = "slot", AfterIO(t)
    PROVE  \E l : GoesOn(t, l)
<1>1. task[t] \in Local /\ None \notin Buffer /\ Fits(task[t]) /\ task[t].b \in Buffer /\ task[t].hold = None
  BY CacheAssumption DEF Sound, TypeOK, LocalsFit, Fits
<1>2. CASE task[t].rw = READ
  <2> DEFINE l == [task[t] EXCEPT !.at = "read"]
  <2>1. task' = [task EXCEPT ![t] = l] /\ cpu' = t
    BY <1>2 DEF AfterIO, Goes
  <2>2. l \in Local /\ l.at = "read" /\ l.b = task[t].b /\ l.blk = task[t].blk /\ l.hold = None
    BY <1>1 DEF Local, Place, AtBuffer
  <2>3. Fits(l)
    BY <1>1, <1>2, <2>2 DEF Fits
  <2>4. GoesOn(t, l)
    BY <1>2, <2>1, <2>2, <2>3 DEF GoesOn
  <2> QED
    BY <2>4
<1>3. CASE task[t].rw = WRITE
  <2>1. NextBuffer(t)
    BY <1>3 DEF AfterIO
  <2>2. CASE task[t].b = NR_BUFFERS
    <3>1. task' = [task EXCEPT ![t] = Idle] /\ cpu' = None
      BY <2>1, <2>2 DEF NextBuffer, Returns
    <3>2. Idle \in Local /\ Fits(Idle) /\ Idle.at = "user" /\ Idle.hold = None
      BY <1>1 DEF Idle, Local, Place, AtBuffer, Fits
    <3>3. GoesOn(t, Idle)
      BY <1>3, <3>1, <3>2 DEF GoesOn
    <3> QED
      BY <3>3
  <2>3. CASE task[t].b # NR_BUFFERS
    <3> DEFINE l == [task[t] EXCEPT !.at = "sync", !.b = task[t].b + 1]
    <3>1. task' = [task EXCEPT ![t] = l] /\ cpu' = t
      BY <2>1, <2>3 DEF NextBuffer, Goes
    <3>2. task[t].b + 1 \in Buffer
      BY <1>1, <2>3, CacheAssumption, BufferAssumption
    <3>3. l \in Local /\ l.at = "sync" /\ l.b \in Buffer /\ l.rw = WRITE /\ l.hold = None
      BY <1>1, <1>3, <3>2 DEF Local, Place, AtBuffer
    <3>4. Fits(l)
      BY <3>3 DEF Fits
    <3>5. GoesOn(t, l)
      BY <1>3, <3>1, <3>3, <3>4 DEF GoesOn
    <3> QED
      BY <3>5
  <2> QED
    BY <2>2, <2>3
<1>4. task[t].rw \in {READ, WRITE}
  BY <1>1 DEF Local
<1> QED
  BY <1>2, <1>3, <1>4

\* make_request adds no second request for a block: the only buffer of the block is
\* locked, by the task itself.
LEMMA SlotSubmits == ASSUME Sound, NEW t \in Task, TakeSlot(t) PROVE QueueNext
<1>1. PICK b \in Buffer : b = task[t].b /\ task[t].at = "slot"
  BY DEF TakeSlot, At, Sound, LocalsFit, Fits
<1>2. PICK rw \in Cmd : rw = task[t].rw
  BY DEF Sound, TypeOK, Local, Cmd, READ, WRITE
<1>3. bh[b].blk \in Block
  <2>1. CASE rw = WRITE
    BY <1>1, <1>2, <2>1 DEF Sound, DataAtHome, Home
  <2>2. CASE rw = READ
    <3>1. Uses(t, b) /\ task[t].at # "release" /\ task[t].blk \in Block
      BY <1>1, <1>2, <2>2 DEF Uses, Sound, LocalsFit, Fits
    <3> QED
      BY <3>1 DEF Sound, UsersKeep
  <2> QED
    BY <2>1, <2>2 DEF Cmd, READ, WRITE
<1>4. AddRequest(rw, bh[b].blk, b)
  BY <1>1, <1>2 DEF TakeSlot
<1>5. bh[b].blk \notin PendingBlocks
  <2>1. \A q \in Pending : /\ request[q].bh \in Buffer /\ request[q].bh # b
                           /\ request[q].block = bh[request[q].bh].blk
    BY <1>1, PendingTyped DEF Sound, LocksOwned, RequestFitsBuffer
  <2>2. bh[b].blk # NoBlock
    BY <1>3, CacheAssumption
  <2> QED
    BY <2>1, <2>2 DEF Sound, OneBufferPerBlock, PendingBlocks
<1> QED
  BY <1>3, <1>4, <1>5 DEF QueueNext, Submit

\* make_request hands the buffer to the device, clean from now on.
LEMMA SlotKeeps == ASSUME Sound, NEW t \in Task, TakeSlot(t) PROVE Sound'
<1>1. task[t] \in Local /\ task \in [Task -> Local] /\ None \notin Buffer /\ Fits(task[t])
  BY CacheAssumption DEF Sound, TypeOK, LocalsFit
<1>2. cpu = t /\ task[t].at = "slot" /\ task[t].hold = None
  BY <1>1 DEF TakeSlot, At, Fits
<1>3. PICK b \in Buffer : b = task[t].b
  BY <1>1, <1>2 DEF Fits
<1>4. PICK rw \in {READ, WRITE} : rw = task[t].rw
  BY <1>1 DEF Local
<1>5. /\ bh[b].blk \in Block /\ bh[b].lock
      /\ rw = WRITE => Home(b)
      /\ rw = READ => ~bh[b].uptodate /\ bh[b].blk = task[t].blk
  <2>1. bh[b].lock
    BY <1>2, <1>3 DEF Sound, LocksOwned
  <2>2. rw = WRITE => Home(b)
    BY <1>2, <1>3, <1>4 DEF Sound, DataAtHome
  <2>3. rw = READ => ~bh[b].uptodate
    BY <1>2, <1>3, <1>4 DEF Sound, ReadsStale
  <2>4. rw = READ => bh[b].blk = task[t].blk /\ task[t].blk \in Block
    BY <1>1, <1>2, <1>3, <1>4 DEF Sound, UsersKeep, Uses, Fits
  <2> QED
    BY <2>1, <2>2, <2>3, <2>4 DEF Home
<1>6. PICK blk \in Block : blk = bh[b].blk
  BY <1>5
<1>7. AddRequest(rw, blk, b) /\ FreeSlots(rw) # {}
  BY <1>3, <1>4, <1>6 DEF TakeSlot, AddRequest
<1>8. PICK s \in Slot : s = ChosenSlot(rw) /\ request[s] = Free
  BY <1>7, ChosenIsFree
<1>9. PICK r \in Request : r = [cmd |-> rw, block |-> blk, bh |-> b]
  BY DEF Request, Cmd, READ, WRITE
<1>10. request' = [request EXCEPT ![s] = r] /\ r.cmd = rw /\ r.block = blk /\ r.bh = b /\ r # Free
  BY <1>7, <1>8, <1>9, FreeAssumption DEF AddRequest
<1>11. PICK l :
         /\ task' = [task EXCEPT ![t] = l] /\ cpu' \in {t, None} /\ l \in Local /\ Fits(l) /\ l.hold = None
         /\ rw = READ => l.at = "read" /\ l.b = b /\ l.blk = task[t].blk
         /\ rw = WRITE => l.at \in {"user", "sync"}
  <2>1. PICK l : GoesOn(t, l)
    BY <1>2, AfterIOGoes DEF TakeSlot
  <2> QED
    BY <1>3, <1>4, <2>1 DEF GoesOn
<1>12. /\ bh' = [bh EXCEPT ![b].dirt = FALSE] /\ sent' = [sent EXCEPT ![b] = data[b].writes]
       /\ UNCHANGED <<data, free_list, hash_table, b_wait, buffer_wait, wait_for_request, disk>>
  BY <1>3 DEF TakeSlot, queues
<1>13. bh \in [Buffer -> BufferHead] /\ bh' \in [Buffer -> BufferHead]
  <2>1. bh \in [Buffer -> BufferHead]
    BY DEF Sound, TypeOK, BufferHead
  <2>2. bh' = [bh EXCEPT ![b] = [bh[b] EXCEPT !.dirt = FALSE]]
    BY <1>12, <2>1
  <2>3. \A x \in BufferHead : [x EXCEPT !.dirt = FALSE] \in BufferHead
    BY DEF BufferHead
  <2> QED
    BY <2>1, <2>2, <2>3
<1>14. /\ ~bh'[b].dirt /\ \A c \in Buffer : c # b => bh'[c].dirt = bh[c].dirt
       /\ \A c \in Buffer : /\ bh'[c].blk = bh[c].blk /\ bh'[c].lock = bh[c].lock
                            /\ bh'[c].uptodate = bh[c].uptodate /\ bh'[c].count = bh[c].count
  BY <1>12, <1>13 DEF BufferHead
<1>15. sent' \in [Buffer -> 0 .. MaxWrites] /\ sent'[b] = data[b].writes /\ \A c \in Buffer : c # b => sent'[c] = sent[c]
  <2>1. sent \in [Buffer -> 0 .. MaxWrites] /\ data[b].writes \in 0 .. MaxWrites
    BY DEF Sound, TypeOK, Content
  <2> QED
    BY <1>12, <2>1
<1>16. \A q \in Pending : /\ q # s /\ request[q].bh \in Buffer /\ request[q].bh # b
                          /\ request[q].block = bh[request[q].bh].blk
  BY <1>2, <1>3, <1>8, PendingTyped DEF Sound, LocksOwned, RequestFitsBuffer, Pending
<1>17. request \in [Slot -> Request \cup {Free}]
  BY DEF Sound, TypeOK, QueueTypeOK
<1>18. /\ \A q : q \in Pending' <=> q \in Pending \/ q = s
       /\ request'[s] = r /\ \A q \in Pending : request'[q] = request[q]
  <2>1. request'[s] = r /\ \A q \in Slot : q # s => request'[q] = request[q]
    BY <1>10, <1>17
  <2> QED
    BY <1>8, <1>10, <2>1 DEF Pending
<1>19. ChainsSound'
  BY SlotSubmits, ChainsKept DEF Sound
<1>21. QueueTypeOK'
  BY <1>19 DEF ChainsSound, QueueTypeOK, Slot, Request, Cmd, READ, WRITE
<1>22. TypeOK'
  <2>1. task' \in [Task -> Local] /\ cpu' \in Task \cup {None}
    BY <1>1, <1>11
  <2> QED
    BY <1>12, <1>13, <1>15, <1>21, <2>1 DEF Sound, TypeOK, BufferHead
<1>23. task'[t] = l /\ l.at \in {"read", "user", "sync"} /\ \A u \in Task : u # t => task'[u] = task[u]
  BY <1>1, <1>11
<1>24. LocalsFit' /\ ListsWhole' /\ OneBufferPerBlock'
  <2>1. LocalsFit'
    BY <1>11, <1>23 DEF Sound, LocalsFit, Fits
  <2> QED
    BY <1>12, <1>14, <2>1 DEF Sound, ListsWhole, OneBufferPerBlock, HashOf
<1>25. \A u \in Task, c \in Buffer : Uses(u, c)' <=> Uses(u, c)
  <2>1. \A c \in Buffer : Uses(t, c)' <=> Uses(t, c)
    BY <1>1, <1>2, <1>3, <1>4, <1>11, <1>23 DEF Uses
  <2> QED
    BY <1>23, <2>1 DEF Uses
<1>26. CountIsUsers' /\ UsersKeep'
  <2>1. CountIsUsers'
    BY <1>14, <1>25 DEF Sound, CountIsUsers
  <2>2. ASSUME NEW u \in Task, NEW c \in Buffer, Uses(u, c)', task'[u].at # "release"
        PROVE  bh[c].blk = task'[u].blk
    <3>1. Uses(u, c)
      BY <1>25, <2>2
    <3>2. CASE u = t
      <4>1. rw = READ /\ c = b
        BY <1>1, <1>2, <1>3, <1>4, <3>1, <3>2 DEF Uses
      <4> QED
        BY <1>5, <1>11, <1>23, <3>2, <4>1
    <3>3. CASE u # t
      BY <1>23, <2>2, <3>1, <3>3 DEF Sound, UsersKeep
    <3> QED
      BY <3>2, <3>3
  <2> QED
    BY <1>14, <2>1, <2>2 DEF UsersKeep
<1>27. \A u \in Task : task'[u].at = "slot" => u # t /\ task'[u] = task[u] /\ task[u].b # b /\ task[u].b \in Buffer
  BY <1>2, <1>3, <1>23 DEF Sound, LocksOwned, LocalsFit, Fits
<1>28. \A u \in Task : task[u].at = "slot" /\ u # t => task'[u].at = "slot"
  BY <1>23
<1>29. LocksOwned'
  <2>1. \A q \in Pending' : bh'[request'[q].bh].lock
    BY <1>5, <1>10, <1>14, <1>16, <1>18 DEF Sound, LocksOwned
  <2>2. \A q, p \in Pending' : request'[q].bh = request'[p].bh => q = p
    BY <1>10, <1>16, <1>18 DEF Sound, LocksOwned
  <2>3. \A u \in Task : task'[u].at = "slot" =>
           bh'[task'[u].b].lock /\ \A q \in Pending' : request'[q].bh # task'[u].b
    BY <1>10, <1>14, <1>18, <1>27 DEF Sound, LocksOwned
  <2>4. \A u, v \in Task : task'[u].at = "slot" /\ task'[v].at = "slot" /\ task'[u].b = task'[v].b => u = v
    BY <1>27 DEF Sound, LocksOwned
  <2>5. ASSUME NEW c \in Buffer, bh'[c].lock
        PROVE  \/ \E q \in Pending' : request'[q].bh = c
               \/ \E u \in Task : task'[u].at = "slot" /\ task'[u].b = c
    <3>1. CASE c = b
      BY <1>10, <1>18, <3>1
    <3>2. CASE c # b
      <4>1. bh[c].lock
        BY <1>14, <2>5
      <4> QED
        BY <1>3, <1>18, <1>23, <3>2, <4>1 DEF Sound, LocksOwned
    <3> QED
      BY <3>1, <3>2
  <2> QED
    BY <2>1, <2>2, <2>3, <2>4, <2>5 DEF LocksOwned
<1>30. RequestFitsBuffer'
  <2>1. \A q \in Pending' : request'[q].block = bh'[request'[q].bh].blk
    BY <1>6, <1>10, <1>14, <1>16, <1>18
  <2> QED
    BY <2>1 DEF RequestFitsBuffer
<1>31. VictimFree'
  <2>1. \A u \in Task : task'[u].at # "victim"
    BY <1>2, <1>23 DEF Sound, VictimFree
  <2> QED
    BY <2>1 DEF VictimFree
<1>32. DataAtHome'
  <2> DEFINE Now(c) == data'[c].blk = bh'[c].blk /\ bh'[c].blk \in Block
  <2>1. \A c \in Buffer : Home(c) => Now(c)
    BY <1>12, <1>14 DEF Home
  <2>2. \A u \in Task : task'[u].hold # None => task[u].hold = task'[u].hold /\ task[u].hold \in Buffer
    BY <1>1, <1>11, <1>23 DEF Local
  <2>3. \A x \in Block : disk'[x].blk = x
    BY <1>12 DEF Sound, DataAtHome
  <2> HIDE DEF Now
  <2>4. \A c \in Buffer : bh'[c].uptodate \/ bh'[c].dirt => Now(c)
    BY <1>14, <2>1 DEF Sound, DataAtHome
  <2>5. \A u \in Task : task'[u].hold # None => Now(task'[u].hold)
    BY <2>1, <2>2 DEF Sound, DataAtHome
  <2>6. \A u \in Task : task'[u].at = "slot" /\ task'[u].rw = WRITE => Now(task'[u].b)
    BY <1>27, <2>1 DEF Sound, DataAtHome
  <2>7. \A q \in Pending' : request'[q].cmd = WRITE => Now(request'[q].bh)
    BY <1>5, <1>10, <1>16, <1>18, <2>1 DEF Sound, DataAtHome
  <2> QED
    BY <2>3, <2>4, <2>5, <2>6, <2>7 DEF DataAtHome, Home, Now
<1>33. ReadsStale'
  <2>1. \A q \in Pending' : request'[q].cmd = READ => ~bh'[request'[q].bh].uptodate
    BY <1>5, <1>10, <1>14, <1>16, <1>18 DEF Sound, ReadsStale
  <2>2. \A u \in Task : task'[u].at = "slot" /\ task'[u].rw = READ => ~bh'[task'[u].b].uptodate
    BY <1>14, <1>27 DEF Sound, ReadsStale
  <2> QED
    BY <2>1, <2>2 DEF ReadsStale
<1>34. WritesSent'
  <2>1. ASSUME NEW q \in Pending', request'[q].cmd = WRITE, ~bh'[request'[q].bh].dirt
        PROVE  data'[request'[q].bh].writes = sent'[request'[q].bh]
    <3>1. CASE q = s
      BY <1>10, <1>12, <1>15, <1>18, <3>1
    <3>2. CASE q # s
      BY <1>12, <1>14, <1>15, <1>16, <1>18, <2>1, <3>2 DEF Sound, WritesSent
    <3> QED
      BY <3>1, <3>2
  <2> QED
    BY <2>1 DEF WritesSent
<1>35. CleanMatchesDisk'
  BY <1>5, <1>12, <1>14 DEF Sound, CleanMatchesDisk
<1>36. NoLostBuffer'
  BY <1>12, <1>14 DEF Sound, NoLostBuffer, Unused
<1> QED
  BY <1>19, <1>22, <1>24, <1>26, <1>29, <1>30, <1>31, <1>32, <1>33, <1>34, <1>35, <1>36 DEF Sound

\* The request at the head of a device's chain.
LEMMA HeadPending ==
    ASSUME Sound, NEW m \in Major, chain[m] # <<>>
    PROVE  Head(chain[m]) \in Pending
<1>1. chain[m] \in Seq(Slot) /\ request \in [Slot -> Request \cup {Free}]
  BY DEF Sound, TypeOK, QueueTypeOK
<1>2. 1 \in DOMAIN chain[m] /\ Head(chain[m]) = chain[m][1] /\ Head(chain[m]) \in Slot
  BY <1>1
<1>3. request[chain[m][1]] # Free
  BY <1>2 DEF Sound, ChainsSound, TableMatchesChains
<1> QED
  BY <1>2, <1>3 DEF Pending

\* wake_up leaves a queue that loses nobody.
LEMMA WokenValue ==
    ASSUME NEW w \in QueueOf(Task) PROVE Woken(w) \in QueueOf(Task)
<1>1. w.waiting \in SUBSET Task /\ (w.waiting # {}) \in BOOLEAN
  BY DEF QueueOf
<1> QED
  BY <1>1, Zenon DEF QueueOf, Woken

\* The device's answer.
LEMMA CompleteKeeps ==
    ASSUME Sound, NEW m \in Major, NEW ok \in BOOLEAN, NEW v, Complete(m, ok, v) PROVE Sound'
<1>1. PICK s \in Pending : s = Head(chain[m])
  BY HeadPending DEF Complete
<1>2. PICK r : r = request[s]
  OBVIOUS
<1>3. PICK b \in Buffer : b = r.bh
  BY <1>2, PendingTyped
<1>4. PICK blk \in Block : blk = r.block
  BY <1>2, PendingTyped
<1>5. s \in Slot /\ r # Free /\ r.cmd \in {READ, WRITE} /\ bh[b].blk = blk /\ bh[b].lock /\ blk # NoBlock
  BY <1>2, <1>3, <1>4, PendingTyped, CacheAssumption DEF Sound, RequestFitsBuffer, LocksOwned
<1>6. /\ v \in sent[b] .. data[b].writes
      /\ data' = IF ok /\ r.cmd = READ THEN [data EXCEPT ![b] = disk[blk]] ELSE data
      /\ disk' = IF ok /\ r.cmd = WRITE THEN [disk EXCEPT ![blk] = [data[b] EXCEPT !.writes = v]] ELSE disk
      /\ bh' = [bh EXCEPT ![b].uptodate = ok, ![b].lock = FALSE]
      /\ b_wait' = [b_wait EXCEPT ![b] = Woken(b_wait[b])]
      /\ EndRequest(m) /\ request' = [request EXCEPT ![s] = Free]
      /\ UNCHANGED <<sent, free_list, hash_table, buffer_wait, wait_for_request, cpu, task>>
  BY <1>1, <1>2, <1>3, <1>4 DEF Complete, Current, Answered, Wake, EndRequest
<1>7. data \in [Buffer -> Content] /\ sent \in [Buffer -> 0 .. MaxWrites] /\ disk \in [Block -> Content] /\ MaxWrites \in Nat
  BY CacheAssumption DEF Sound, TypeOK
<1>8. v \in 0 .. MaxWrites
  <2>1. data[b].writes \in 0 .. MaxWrites /\ sent[b] \in 0 .. MaxWrites
    BY <1>7 DEF Content
  <2> QED
    BY <1>6, <1>7, <2>1
<1>9. /\ data' \in [Buffer -> Content] /\ disk' \in [Block -> Content]
      /\ \A c \in Buffer : c # b => data'[c] = data[c]
      /\ ok /\ r.cmd = READ => data'[b] = disk[blk] /\ disk' = disk
      /\ ~(ok /\ r.cmd = READ) => data' = data
      /\ \A x \in Block : x # blk => disk'[x] = disk[x]
      /\ ok /\ r.cmd = WRITE => disk'[blk] = [data[b] EXCEPT !.writes = v]
      /\ ~(ok /\ r.cmd = WRITE) => disk' = disk
  <2>1. [data[b] EXCEPT !.writes = v] \in Content
    BY <1>7, <1>8 DEF Content
  <2> QED
    BY <1>6, <1>7, <2>1
<1>10. bh \in [Buffer -> BufferHead] /\ bh' \in [Buffer -> BufferHead]
  <2>1. bh \in [Buffer -> BufferHead]
    BY DEF Sound, TypeOK, BufferHead
  <2>2. bh' = [bh EXCEPT ![b] = [bh[b] EXCEPT !.uptodate = ok, !.lock = FALSE]]
    BY <1>6, <2>1
  <2>3. \A x \in BufferHead : [x EXCEPT !.uptodate = ok, !.lock = FALSE] \in BufferHead
    BY DEF BufferHead
  <2> QED
    BY <2>1, <2>2, <2>3
<1>11. /\ ~bh'[b].lock /\ (bh'[b].uptodate <=> ok)
       /\ \A c \in Buffer : c # b => bh'[c].lock = bh[c].lock /\ bh'[c].uptodate = bh[c].uptodate
       /\ \A c \in Buffer : bh'[c].blk = bh[c].blk /\ bh'[c].dirt = bh[c].dirt /\ bh'[c].count = bh[c].count
  <2>1. PICK h : h = [bh[b] EXCEPT !.uptodate = ok, !.lock = FALSE]
    OBVIOUS
  <2>2. bh[b] \in BufferHead
    BY <1>10
  <2>3. ~h.lock /\ h.uptodate = ok /\ h.blk = bh[b].blk /\ h.dirt = bh[b].dirt /\ h.count = bh[b].count
    BY <2>1, <2>2 DEF BufferHead
  <2>4. bh' = [bh EXCEPT ![b] = h]
    BY <1>6, <1>10, <2>1
  <2>5. bh'[b] = h /\ \A c \in Buffer : c # b => bh'[c] = bh[c]
    BY <1>10, <2>4
  <2> QED
    BY <2>3, <2>5
<1>12. /\ \A q : q \in Pending' <=> q \in Pending /\ q # s
       /\ \A q \in Pending' : request'[q] = request[q]
  <2>1. request \in [Slot -> Request \cup {Free}]
    BY DEF Sound, TypeOK, QueueTypeOK
  <2>2. request'[s] = Free /\ \A q \in Slot : q # s => request'[q] = request[q]
    BY <1>5, <1>6, <2>1
  <2> QED
    BY <1>5, <2>2 DEF Pending
<1>13. \A q \in Pending' : q \in Pending /\ request'[q] = request[q] /\ request[q].bh \in Buffer /\ request[q].bh # b
  BY <1>1, <1>2, <1>3, <1>12, PendingTyped DEF Sound, LocksOwned
<1>14. \A u \in Task : task[u].at = "slot" => task[u].b \in Buffer /\ task[u].b # b
  BY <1>1, <1>2, <1>3 DEF Sound, LocksOwned, LocalsFit, Fits
<1>15. \A u \in Task : task[u].hold # None => task[u].hold \in Buffer
  BY DEF Sound, TypeOK, Local
<1>16. ChainsSound' /\ QueueTypeOK'
  <2>1. ChainsSound'
    BY <1>6, ChainsKept DEF Sound, QueueNext
  <2> QED
    BY <2>1 DEF ChainsSound, QueueTypeOK, Slot, Request, Cmd, READ, WRITE
<1>17. TypeOK'
  <2>1. b_wait' \in [Buffer -> QueueOf(Task)]
    <3>1. b_wait \in [Buffer -> QueueOf(Task)] /\ \A w \in QueueOf(Task) : Woken(w) \in QueueOf(Task)
      BY WokenValue DEF Sound, TypeOK
    <3> QED
      BY <1>6, <3>1
  <2> QED
    BY <1>6, <1>9, <1>10, <1>16, <2>1 DEF Sound, TypeOK, BufferHead
<1>18. LocalsFit' /\ ListsWhole' /\ OneBufferPerBlock'
  <2>1. LocalsFit'
    BY <1>6 DEF Sound, LocalsFit, Fits
  <2>2. free_list' = free_list /\ hash_table' = hash_table /\ \A c \in Buffer : bh'[c].blk = bh[c].blk
    BY <1>6, <1>11
  <2>3. ListsWhole'
    BY <2>2 DEF Sound, ListsWhole, HashOf
  <2>4. OneBufferPerBlock'
    BY <2>2 DEF Sound, OneBufferPerBlock
  <2> QED
    BY <2>1, <2>3, <2>4
<1>19. CountIsUsers' /\ UsersKeep'
  <2>1. \A u \in Task, c \in Buffer : Uses(u, c)' <=> Uses(u, c)
    BY <1>6 DEF Uses
  <2>2. CountIsUsers'
    BY <1>11, <2>1 DEF Sound, CountIsUsers
  <2>3. UsersKeep'
    <3>1. task' = task /\ \A c \in Buffer : bh'[c].blk = bh[c].blk
      BY <1>6, <1>11
    <3> QED
      BY <2>1, <3>1 DEF Sound, UsersKeep
  <2> QED
    BY <2>2, <2>3
<1>20. LocksOwned'
  <2>1. \A q \in Pending' : bh'[request'[q].bh].lock
    BY <1>11, <1>13 DEF Sound, LocksOwned
  <2>2. \A q, p \in Pending' : request'[q].bh = request'[p].bh => q = p
    BY <1>13 DEF Sound, LocksOwned
  <2>3. ASSUME NEW u \in Task, task'[u].at = "slot"
        PROVE  bh'[task'[u].b].lock /\ \A q \in Pending' : request'[q].bh # task'[u].b
    <3>1. PICK c \in Buffer : c = task[u].b /\ c # b
      BY <1>6, <1>14, <2>3
    <3>2. task' = task /\ bh[c].lock /\ \A q \in Pending : request[q].bh # c
      BY <1>6, <2>3, <3>1 DEF Sound, LocksOwned
    <3>3. \A q \in Pending' : request'[q].bh # c
      BY <1>13, <3>2
    <3> QED
      BY <1>11, <3>1, <3>2, <3>3
  <2>4. \A u, w \in Task : task'[u].at = "slot" /\ task'[w].at = "slot" /\ task'[u].b = task'[w].b => u = w
    BY <1>6 DEF Sound, LocksOwned
  <2>5. ASSUME NEW c \in Buffer, bh'[c].lock
        PROVE  \/ \E q \in Pending' : request'[q].bh = c
               \/ \E u \in Task : task'[u].at = "slot" /\ task'[u].b = c
    <3>1. bh[c].lock /\ c # b
      BY <1>11, <2>5
    <3>2. CASE \E q \in Pending : request[q].bh = c
      <4>1. PICK q \in Pending : request[q].bh = c
        BY <3>2
      <4>2. q \in Pending' /\ request'[q] = request[q]
        BY <1>2, <1>3, <1>12, <3>1, <4>1
      <4> QED
        BY <4>1, <4>2
    <3>3. CASE \E u \in Task : task[u].at = "slot" /\ task[u].b = c
      BY <1>6, <3>3
    <3> QED
      BY <3>1, <3>2, <3>3 DEF Sound, LocksOwned
  <2> QED
    BY <2>1, <2>2, <2>3, <2>4, <2>5 DEF LocksOwned
<1>21. RequestFitsBuffer'
  <2>1. \A q \in Pending' : request'[q].block = bh'[request'[q].bh].blk
    BY <1>11, <1>13 DEF Sound, RequestFitsBuffer
  <2> QED
    BY <2>1 DEF RequestFitsBuffer
<1>22. VictimFree'
  <2>1. \A u \in Task : task[u].at = "victim" => task[u].b \in Buffer
    BY DEF Sound, LocalsFit, Fits, AtBuffer
  <2>2. ASSUME NEW u \in Task, task[u].at = "victim"
        PROVE  cpu = u /\ task[u].tmp = task[u].b /\ bh'[task[u].b].count = 0 /\ ~bh'[task[u].b].lock /\ ~bh'[task[u].b].dirt
    BY <1>11, <2>1, <2>2 DEF Sound, VictimFree
  <2> QED
    BY <1>6, <2>2 DEF VictimFree
<1>23. DataAtHome'
  <2> DEFINE Now(c) == data'[c].blk = bh'[c].blk /\ bh'[c].blk \in Block
  <2>1. (\A x \in Block : disk[x].blk = x) /\ (r.cmd = WRITE => Home(b))
    BY <1>2, <1>3 DEF Sound, DataAtHome
  <2>2. \A c \in Buffer : c # b => (Home(c) => Now(c))
    BY <1>9, <1>11 DEF Home
  <2>3. Home(b) => Now(b)
    <3>1. CASE ok /\ r.cmd = READ
      BY <1>5, <1>9, <1>11, <2>1, <3>1 DEF Home
    <3>2. CASE ~(ok /\ r.cmd = READ)
      BY <1>9, <1>11, <3>2 DEF Home
    <3> QED
      BY <3>1, <3>2
  <2>4. ok => Now(b)
    <3>1. CASE r.cmd = READ
      BY <1>5, <1>9, <1>11, <2>1, <3>1
    <3>2. CASE r.cmd = WRITE
      BY <2>1, <2>3, <3>2
    <3> QED
      BY <1>5, <3>1, <3>2
  <2>5. \A x \in Block : disk'[x].blk = x
    <3>1. CASE ok /\ r.cmd = WRITE
      <4>1. data[b].blk = blk /\ data[b] \in Content
        BY <1>5, <1>7, <2>1, <3>1 DEF Home
      <4>2. disk'[blk].blk = blk
        BY <1>9, <3>1, <4>1 DEF Content
      <4> QED
        BY <1>9, <2>1, <4>2
    <3>2. CASE ~(ok /\ r.cmd = WRITE)
      BY <1>9, <2>1, <3>2
    <3> QED
      BY <3>1, <3>2
  <2> HIDE DEF Now
  <2>6. \A c \in Buffer : Home(c) => Now(c)
    BY <2>2, <2>3
  <2>7. \A c \in Buffer : bh'[c].uptodate \/ bh'[c].dirt => Now(c)
    BY <1>11, <2>4, <2>6 DEF Sound, DataAtHome
  <2>8. \A u \in Task : task'[u].hold # None => Now(task'[u].hold)
    BY <1>6, <1>15, <2>6 DEF Sound, DataAtHome
  <2>9. \A u \in Task : task'[u].at = "slot" /\ task'[u].rw = WRITE => Now(task'[u].b)
    BY <1>6, <1>14, <2>6 DEF Sound, DataAtHome
  <2>10. \A q \in Pending' : request'[q].cmd = WRITE => Now(request'[q].bh)
    BY <1>13, <2>6 DEF Sound, DataAtHome
  <2> QED
    BY <2>5, <2>7, <2>8, <2>9, <2>10 DEF DataAtHome, Home, Now
<1>24. ReadsStale'
  <2>1. \A q \in Pending' : request'[q].cmd = READ => ~bh'[request'[q].bh].uptodate
    BY <1>11, <1>13 DEF Sound, ReadsStale
  <2>2. ASSUME NEW u \in Task, task'[u].at = "slot", task'[u].rw = READ PROVE ~bh'[task'[u].b].uptodate
    <3>1. task' = task
      BY <1>6
    <3>2. ~bh[task[u].b].uptodate
      BY <2>2, <3>1 DEF Sound, ReadsStale
    <3>3. task[u].b \in Buffer /\ task[u].b # b
      BY <1>14, <2>2, <3>1
    <3> QED
      BY <1>11, <3>1, <3>2, <3>3
  <2> QED
    BY <2>1, <2>2 DEF ReadsStale
<1>25. WritesSent'
  <2>1. ASSUME NEW q \in Pending', request'[q].cmd = WRITE, ~bh'[request'[q].bh].dirt
        PROVE  data'[request'[q].bh].writes = sent'[request'[q].bh]
    <3>1. PICK c \in Buffer : c = request[q].bh /\ c # b
      BY <1>13
    <3>2. q \in Pending /\ request'[q] = request[q] /\ data'[c] = data[c] /\ sent' = sent /\ bh'[c].dirt = bh[c].dirt
      BY <1>6, <1>9, <1>11, <1>13, <3>1
    <3>3. data[c].writes = sent[c]
      BY <2>1, <3>1, <3>2 DEF Sound, WritesSent
    <3> QED
      BY <3>1, <3>2, <3>3
  <2> QED
    BY <2>1 DEF WritesSent
<1>26. CleanMatchesDisk'
  <2> SUFFICES ASSUME NEW c \in Buffer, bh'[c].uptodate, ~bh'[c].dirt, ~bh'[c].lock
               PROVE  data'[c] = disk'[bh'[c].blk]
    BY DEF CleanMatchesDisk
  <2>1. CASE c # b
    <3>1. data'[c] = data[c] /\ bh'[c].blk = bh[c].blk /\ data[c] = disk[bh[c].blk] /\ bh[c].blk \in Block
      BY <1>9, <1>11, <2>1 DEF Sound, CleanMatchesDisk, DataAtHome, Home
    <3>2. bh[c].blk # blk
      BY <1>5, <2>1 DEF Sound, OneBufferPerBlock
    <3> QED
      BY <1>9, <3>1, <3>2
  <2>2. CASE c = b
    <3>1. ok /\ ~bh[b].dirt /\ bh'[b].blk = blk
      BY <1>5, <1>11, <2>2
    <3>2. CASE r.cmd = READ
      BY <1>9, <2>2, <3>1, <3>2
    <3>3. CASE r.cmd = WRITE
      <4>1. data[b].writes = sent[b]
        BY <1>2, <1>3, <3>1, <3>3 DEF Sound, WritesSent
      <4>2. data[b] \in Content /\ data[b].writes \in 0 .. MaxWrites
        BY <1>7 DEF Content
      <4>3. v = data[b].writes
        BY <1>6, <1>7, <4>1, <4>2
      <4>4. [data[b] EXCEPT !.writes = data[b].writes] = data[b]
        BY <4>2 DEF Content
      <4>5. data' = data /\ disk'[blk] = [data[b] EXCEPT !.writes = v]
        BY <1>9, <3>1, <3>3
      <4> QED
        BY <2>2, <3>1, <4>3, <4>4, <4>5
    <3> QED
      BY <1>5, <3>2, <3>3
  <2> QED
    BY <2>1, <2>2
<1>27. NoLostBuffer'
  BY <1>6, <1>11 DEF Sound, NoLostBuffer, Unused
<1> QED
  BY <1>16, <1>17, <1>18, <1>19, <1>20, <1>21, <1>22, <1>23, <1>24, <1>25, <1>26, <1>27 DEF Sound

----------------------------------------------------------------------------
\* buffer_init and blk_dev_init.
LEMMA InitSound == Init => Sound
<1> SUFFICES ASSUME Init PROVE Sound
  OBVIOUS
<1>1. /\ \A b \in Buffer : /\ bh[b].blk = NoBlock /\ bh[b].count = 0 /\ ~bh[b].dirt
                           /\ ~bh[b].uptodate /\ ~bh[b].lock
      /\ \A t \in Task : task[t] = Idle
      /\ \A s \in Slot : request[s] = Free
  BY DEF Init, QueueInit
<1>2. Pending = {}
  BY <1>1 DEF Pending
<1>3. Idle \in Local /\ Fits(Idle) /\ Idle.hold = None /\ Idle.b = None /\ Idle.at = "user"
  BY DEF Idle, Local, Place, Fits, AtBuffer
<1>4. EmptyQueue \in QueueOf(Task) /\ EmptyQueue.waiting = {}
  BY DEF EmptyQueue, QueueOf
<1>5. free_list \in Seq(Buffer) /\ DOMAIN free_list = Buffer /\ \A b \in Buffer : free_list[b] = b
  <2>1. free_list = [b \in 1 .. NR_BUFFERS |-> b] /\ NR_BUFFERS \in Nat
    BY CacheAssumption, BufferAssumption DEF Init
  <2> QED
    BY <2>1, BufferAssumption
<1>6. ChainsSound /\ QueueTypeOK
  <2>1. QueueInit
    BY DEF Init, QueueInit, Slot
  <2>2. ChainsSound
    BY <2>1, QueueInitSound
  <2> QED
    BY <2>2 DEF ChainsSound, QueueTypeOK, Slot, Request, Cmd, READ, WRITE
<1>7. TypeOK
  <2>1. bh \in [Buffer -> BufferHead]
    BY DEF Init, BufferHead
  <2>2. /\ data \in [Buffer -> Content] /\ sent \in [Buffer -> 0 .. MaxWrites]
        /\ disk \in [Block -> Content]
    BY CacheAssumption DEF Init, Content
  <2>3. hash_table \in [Hash -> Seq(Buffer)]
    BY DEF Init
  <2>4. /\ b_wait \in [Buffer -> QueueOf(Task)] /\ buffer_wait \in QueueOf(Task)
        /\ wait_for_request \in QueueOf(Task)
    BY <1>4 DEF Init
  <2>5. cpu \in Task \cup {None} /\ task \in [Task -> Local]
    BY <1>3 DEF Init
  <2> QED
    BY <1>5, <1>6, <2>1, <2>2, <2>3, <2>4, <2>5 DEF TypeOK, BufferHead
<1>8. LocalsFit /\ OneBufferPerBlock /\ VictimFree
  BY <1>1, <1>3 DEF LocalsFit, OneBufferPerBlock, VictimFree
<1>9. ListsWhole
  <2>1. \A h \in Hash : hash_table[h] = <<>>
    BY DEF Init
  <2> QED
    BY <1>1, <1>5, <2>1 DEF ListsWhole, EachOnce, Holds
<1>10. \A t \in Task, b \in Buffer : ~Uses(t, b)
  BY <1>1, <1>3, CacheAssumption DEF Uses
<1>11. CountIsUsers /\ UsersKeep
  <2>1. \A b \in Buffer : {t \in Task : Uses(t, b)} = {}
    BY <1>10
  <2>2. Cardinality({}) = 0
    BY FS_EmptySet
  <2> QED
    BY <1>1, <1>10, <2>1, <2>2 DEF CountIsUsers, UsersKeep
<1>12. LocksOwned /\ RequestFitsBuffer /\ ReadsStale /\ WritesSent
  BY <1>1, <1>2, <1>3 DEF LocksOwned, RequestFitsBuffer, ReadsStale, WritesSent
<1>13. DataAtHome
  <2>1. \A blk \in Block : disk[blk].blk = blk
    BY DEF Init
  <2> QED
    BY <1>1, <1>2, <1>3, <2>1 DEF DataAtHome
<1>14. CleanMatchesDisk /\ NoLostBuffer
  BY <1>1, <1>4 DEF CleanMatchesDisk, NoLostBuffer, Init
<1> QED
  BY <1>6, <1>7, <1>8, <1>9, <1>11, <1>12, <1>13, <1>14 DEF Sound

\* getblk's loop over the free list breaks off at a buffer that is clean and unlocked.
ScanBreaksOff == \A t \in Task : Scan(t) => Badness(Chosen) = 0

\* It always does.
ScansEnd == [][ScanBreaksOff]_vars

\* Every step keeps the invariant, as long as getblk's loop ends at a buffer it may take.
LEMMA StepKeepsSound ==
    ASSUME Sound, [Next]_vars, [ScanBreaksOff]_vars PROVE Sound'
<1>1. CASE UNCHANGED vars
  <2>1. UNCHANGED <<cache, device, task, cpu, b_wait, buffer_wait, wait_for_request>>
    BY <1>1 DEF vars, cache, device
  <2>2. TypeOK' /\ VictimFree' /\ NoLostBuffer'
    BY <1>1 DEF vars, Sound, TypeOK, QueueTypeOK, VictimFree, NoLostBuffer, Unused
  <2> QED
    BY <2>1, <2>2, StillKeeps
<1>2. CASE Next /\ ~UNCHANGED vars
  <2>1. ASSUME NEW t \in Task, KernelStep(t) PROVE Sound'
    <3>1. Scan(t) => Badness(Chosen) = 0
      BY <1>2 DEF ScanBreaksOff
    <3> QED
      BY <2>1, <3>1, SleepOnLockKeeps, FindMissKeeps, FindHitKeeps, FoundKeeps, ScanNoneKeeps, ScanKeeps,
         VictimKeeps, LockKeeps, SlotNoneKeeps, SlotKeeps, ReadKeeps, ReleaseKeeps, SyncKeeps
      DEF KernelStep
  <2> QED
    BY <1>2, <2>1, CallBreadKeeps, CallBrelseKeeps, ModifyKeeps, CallSyncKeeps, ResumeKeeps, CompleteKeeps
    DEF Next
<1> QED
  BY <1>1, <1>2

\* For any number of tasks, buffers, blocks and devices, and whatever fails: as long as
\* getblk's loop comes to a clean, unlocked buffer, the inductive invariant holds.
THEOREM SoundTheorem == Spec /\ ScansEnd => []Sound
BY InitSound, StepKeepsSound, PTL DEF Spec, ScansEnd

\* Then a buffer that is up to date, clean and unlocked has what the disk has, although
\* its holder may change it while the device writes it (make_request, end_request;
\* buffer.c, ll_rw_blk.c).
THEOREM CleanTheorem == Spec /\ ScansEnd => []CleanMatchesDisk
<1>1. Sound => CleanMatchesDisk
  BY DEF Sound
<1> QED
  BY <1>1, SoundTheorem, PTL

\* Every step of the cache is a step of the request layer, or leaves it alone.
LEMMA StepOfRequests ==
    ASSUME Sound, [Next]_vars PROVE [QueueNext]_(queueVars)
<1>1. ASSUME NEW t \in Task, KernelStep(t) PROVE UNCHANGED <<request, chain>> \/ QueueNext
  <2>1. TakeSlot(t) => QueueNext
    BY SlotSubmits
  <2>2. CASE SleepOnLock(t) \/ FindMiss(t) \/ FindHit(t) \/ Found(t) \/ ScanNone(t) \/ Scan(t)
    BY <2>2 DEF SleepOnLock, FindMiss, FindHit, Found, ScanNone, Scan, device
  <2>3. CASE Victim(t) \/ Lock(t) \/ SlotNone(t) \/ Read(t) \/ Release(t) \/ Sync(t)
    BY <2>3 DEF Victim, Lock, SlotNone, Read, Release, Sync, device
  <2> QED
    BY <1>1, <2>1, <2>2, <2>3 DEF KernelStep
<1>2. ASSUME NEW t \in Task,
             \/ \E blk \in Block : CallBread(t, blk)
             \/ CallBrelse(t) \/ Modify(t) \/ CallSync(t) \/ Resume(t)
      PROVE  UNCHANGED <<request, chain>>
  BY <1>2 DEF CallBread, CallBrelse, Modify, CallSync, Resume, device
<1>3. ASSUME NEW m \in Major, NEW ok \in BOOLEAN, NEW v \in 0 .. MaxWrites, Complete(m, ok, v)
      PROVE  QueueNext
  BY <1>3 DEF Complete, QueueNext
<1>4. CASE UNCHANGED vars
  BY <1>4 DEF vars, queueVars
<1> QED
  BY <1>1, <1>2, <1>3, <1>4 DEF Next, queueVars

\* Then the cache uses the request layer as QueueSpec has it: for a block that has a
\* request pending nobody makes a second one, in every interleaving of getblk, bread and
\* sys_sync (ll_rw_blk.c:73-106).
THEOREM RequestLayerTheorem == Spec /\ ScansEnd => RequestLayer
<1>1. Init => QueueInit
  BY DEF Init
<1> QED
  BY <1>1, SoundTheorem, StepOfRequests, PTL DEF Spec, RequestLayer, QueueSpec

\* The counting forms follow from the forms of the invariant.
LEMMA LocksCounted == ASSUME Sound PROVE LockHasOwner
<1> SUFFICES ASSUME NEW b \in Buffer
             PROVE  Cardinality(PendingFor(b)) + Cardinality(Preparing(b)) = (IF bh[b].lock THEN 1 ELSE 0)
  BY DEF LockHasOwner
<1>1. Cardinality({}) = 0 /\ \A x : Cardinality({x}) = 1
  BY FS_EmptySet, FS_Singleton
<1>2. CASE ~bh[b].lock
  <2>1. PendingFor(b) = {} /\ Preparing(b) = {}
    BY <1>2 DEF PendingFor, Preparing, Sound, LocksOwned
  <2>2. Cardinality(PendingFor(b)) = 0 /\ Cardinality(Preparing(b)) = 0
    BY <1>1, <2>1
  <2> QED
    BY <1>2, <2>2
<1>3. CASE \E s \in Pending : request[s].bh = b
  <2>1. PICK s \in Pending : request[s].bh = b
    BY <1>3
  <2>2. PendingFor(b) = {s} /\ Preparing(b) = {} /\ bh[b].lock
    BY <2>1 DEF PendingFor, Preparing, Sound, LocksOwned
  <2>3. Cardinality(PendingFor(b)) = 1 /\ Cardinality(Preparing(b)) = 0
    BY <1>1, <2>2
  <2> QED
    BY <2>2, <2>3
<1>4. CASE \E t \in Task : task[t].at = "slot" /\ task[t].b = b
  <2>1. PICK t \in Task : task[t].at = "slot" /\ task[t].b = b
    BY <1>4
  <2>2. PendingFor(b) = {} /\ Preparing(b) = {t} /\ bh[b].lock
    BY <2>1 DEF PendingFor, Preparing, Sound, LocksOwned
  <2>3. Cardinality(PendingFor(b)) = 0 /\ Cardinality(Preparing(b)) = 1
    BY <1>1, <2>2
  <2> QED
    BY <2>2, <2>3
<1> QED
  BY <1>2, <1>3, <1>4 DEF Sound, LocksOwned

\* The counting form of the lists follows likewise.
LEMMA ListsCounted == ASSUME Sound PROVE ListsIntact
<1>1. free_list \in Seq(Buffer) /\ hash_table \in [Hash -> Seq(Buffer)]
  BY DEF Sound, TypeOK
<1>2. ASSUME NEW c \in Seq(Buffer) PROVE ToSet(c) = {b \in Buffer : Holds(c, b)}
  <2>1. \A i \in DOMAIN c : c[i] \in Buffer
    BY LenProperties, ElementOfSeq
  <2> QED
    BY <2>1 DEF ToSet, Holds
<1>3. ToSet(free_list) = Buffer
  BY <1>1, <1>2 DEF Sound, ListsWhole
<1>4. Len(free_list) = NR_BUFFERS
  <2>1. Cardinality(Buffer) = NR_BUFFERS
    BY CacheAssumption, BufferAssumption, FS_Interval
  <2>2. Cardinality(ToSet(free_list)) = Len(free_list)
    BY <1>1, OnceCounts DEF Sound, ListsWhole
  <2> QED
    BY <1>3, <2>1, <2>2
<1>5. ASSUME NEW h \in Hash
      PROVE  /\ ToSet(hash_table[h]) = {b \in Buffer : bh[b].blk # NoBlock /\ HashOf(bh[b].blk) = h}
             /\ Len(hash_table[h]) = Cardinality(ToSet(hash_table[h]))
  <2>1. hash_table[h] \in Seq(Buffer)
    BY <1>1
  <2>2. EachOnce(hash_table[h]) /\ \A b \in Buffer :
            Holds(hash_table[h], b) <=> bh[b].blk # NoBlock /\ HashOf(bh[b].blk) = h
    BY DEF Sound, ListsWhole
  <2> QED
    BY <1>2, <2>1, <2>2, OnceCounts
<1> QED
  BY <1>3, <1>4, <1>5 DEF ListsIntact

\* The inductive invariant gives what the runs check of the bookkeeping.
LEMMA SoundMeans == ASSUME Sound PROVE Consistent /\ HeldIdentity /\ NoLostBuffer
<1>1. HeldIdentity
  BY DEF Sound, UsersKeep, HeldIdentity, ReliesOn
<1> QED
  BY <1>1, LocksCounted, ListsCounted DEF Sound, Consistent

\* Then lists, hash chains, counts, locks and requests agree, brelse never finds a count
\* of zero, no block is in two buffers, a task that uses a buffer finds its own block in
\* it, and nobody waits for a buffer while there is one (buffer.c:91-189).
THEOREM BookkeepingTheorem ==
    Spec /\ ScansEnd => [](Consistent /\ HeldIdentity /\ NoLostBuffer)
BY SoundTheorem, SoundMeans, PTL


----------------------------------------------------------------------------
\* The parts of the inductive invariant, beside Sound.

\* Only the blocks that are written are ever dirty, or on their way to the disk.
DirtyWritable ==
    /\ \A b \in Buffer : bh[b].dirt => bh[b].blk \in Writable
    /\ \A t \in Task : task[t].at = "slot" /\ task[t].rw = WRITE => bh[task[t].b].blk \in Writable
    /\ \A s \in Pending : request[s].cmd = WRITE => request[s].block \in Writable

\* For each read that the device has to do somebody waits in bread.
ReadersWait == \A s \in Pending : request[s].cmd = READ =>
    \E t \in Task : task[t].at = "read" /\ task[t].b = request[s].bh

\* What bread has returned stays up to date, if no write fails.
HeldValid == \A t \in Task : task[t].hold # None => bh[task[t].hold].uptodate

\* The disk never has a newer version than a buffer that is up to date.
DiskBehind ==
    /\ \A b \in Buffer : bh[b].uptodate => disk[bh[b].blk].writes <= data[b].writes
    /\ \A b \in Buffer : bh[b].dirt => bh[b].uptodate
    /\ \A t \in Task : task[t].at = "slot" /\ task[t].rw = WRITE => bh[task[t].b].uptodate
    /\ \A s \in Pending : request[s].cmd = WRITE => bh[request[s].bh].uptodate

DataSound ==
    /\ DirtyWritable /\ ReadersWait
    /\ WRITE \notin Failures => HeldValid /\ DiskBehind

\* A newer version of a block, on disk or in a valid buffer, where there was one of it.
Older(blk, n) == \/ n <= disk[blk].writes
                 \/ \E b \in Buffer : bh[b].uptodate /\ data[b].blk = blk /\ n <= data[b].writes

----------------------------------------------------------------------------
\* Steps that leave the device, the data and all but the counts of the buffers alone.
Quiet ==
    /\ UNCHANGED <<data, request, chain, disk>>
    /\ \A b \in Buffer : /\ bh'[b].blk = bh[b].blk /\ bh'[b].dirt = bh[b].dirt
                         /\ bh'[b].uptodate = bh[b].uptodate /\ bh'[b].lock = bh[b].lock
    /\ \/ UNCHANGED task
       \/ \E t \in Task, l \in Local :
            /\ task' = [task EXCEPT ![t] = l]
            /\ task[t].at # "slot" /\ l.at # "slot"
            /\ task[t].at = "read" => ~bh[task[t].b].lock
            /\ l.hold # None => l.hold = task[t].hold \/ bh[l.hold].uptodate

\* Such a step keeps the invariant of the data.
LEMMA QuietKeepsData == ASSUME Sound, DataSound, Quiet PROVE DataSound'
<1>1. /\ Pending' = Pending /\ UNCHANGED <<data, request, disk>>
      /\ \A s \in Pending : request[s].bh \in Buffer
  BY PendingTyped DEF Quiet, Pending
<1>2. /\ \A b \in Buffer : /\ bh'[b].blk = bh[b].blk /\ bh'[b].dirt = bh[b].dirt
                           /\ bh'[b].uptodate = bh[b].uptodate /\ bh'[b].lock = bh[b].lock
  BY DEF Quiet
<1>3. /\ \A u \in Task : task'[u].at = "slot" => task'[u] = task[u] /\ task[u].b \in Buffer
      /\ \A u \in Task : task[u].at = "read" /\ bh[task[u].b].lock => task'[u] = task[u]
      /\ \A u \in Task : task'[u].hold # None =>
            task'[u].hold \in Buffer /\ (task'[u].hold = task[u].hold \/ bh[task'[u].hold].uptodate)
  <2>1. task \in [Task -> Local] /\ \A u \in Task : task[u].at = "slot" => task[u].b \in Buffer
    BY DEF Sound, TypeOK, LocalsFit, Fits
  <2>2. CASE UNCHANGED task
    BY <2>1, <2>2 DEF Local
  <2>3. CASE ~UNCHANGED task
    <3>1. PICK t \in Task, l \in Local :
            /\ task' = [task EXCEPT ![t] = l]
            /\ task[t].at # "slot" /\ l.at # "slot"
            /\ task[t].at = "read" => ~bh[task[t].b].lock
            /\ l.hold # None => l.hold = task[t].hold \/ bh[l.hold].uptodate
      BY <2>3 DEF Quiet
    <3>2. task'[t] = l /\ \A u \in Task : u # t => task'[u] = task[u]
      BY <2>1, <3>1
    <3>3. \A x \in Local : x.hold # None => x.hold \in Buffer
      BY DEF Local
    <3> QED
      BY <2>1, <3>1, <3>2, <3>3
  <2> QED
    BY <2>2, <2>3
<1>4. DirtyWritable'
  <2>1. \A u \in Task : task'[u].at = "slot" /\ task'[u].rw = WRITE => bh'[task'[u].b].blk \in Writable
    BY <1>2, <1>3 DEF DataSound, DirtyWritable
  <2>2. \A b \in Buffer : bh'[b].dirt => bh'[b].blk \in Writable
    BY <1>2 DEF DataSound, DirtyWritable
  <2>3. \A s \in Pending' : request'[s].cmd = WRITE => request'[s].block \in Writable
    BY <1>1 DEF DataSound, DirtyWritable
  <2> QED
    BY <2>1, <2>2, <2>3 DEF DirtyWritable
<1>5. ReadersWait'
  <2>1. ASSUME NEW s \in Pending, request[s].cmd = READ
        PROVE  \E u \in Task : task'[u].at = "read" /\ task'[u].b = request[s].bh
    <3>1. PICK u \in Task : task[u].at = "read" /\ task[u].b = request[s].bh
      BY <2>1 DEF DataSound, ReadersWait
    <3>2. bh[request[s].bh].lock
      BY DEF Sound, LocksOwned
    <3> QED
      BY <1>3, <3>1, <3>2
  <2> QED
    BY <1>1, <2>1 DEF ReadersWait
<1>6. ASSUME WRITE \notin Failures PROVE HeldValid' /\ DiskBehind'
  <2>1. HeldValid /\ DiskBehind
    BY <1>6 DEF DataSound
  <2>2. \A u \in Task : task'[u].hold # None => bh'[task'[u].hold].uptodate
    BY <1>2, <1>3, <2>1 DEF HeldValid
  <2>3. \A b \in Buffer : /\ bh'[b].uptodate => disk'[bh'[b].blk].writes <= data'[b].writes
                          /\ bh'[b].dirt => bh'[b].uptodate
    BY <1>1, <1>2, <2>1 DEF DiskBehind
  <2>4. \A u \in Task : task'[u].at = "slot" /\ task'[u].rw = WRITE => bh'[task'[u].b].uptodate
    BY <1>2, <1>3, <2>1 DEF DiskBehind
  <2>5. \A s \in Pending' : request'[s].cmd = WRITE => bh'[request'[s].bh].uptodate
    BY <1>1, <1>2, <2>1 DEF DiskBehind
  <2> QED
    BY <2>2, <2>3, <2>4, <2>5 DEF HeldValid, DiskBehind
<1> QED
  BY <1>4, <1>5, <1>6 DEF DataSound

\* sys_sync's next buffer.
LEMMA NextBufferGoes ==
    ASSUME Sound, NEW t \in Task, NextBuffer(t), task[t].at \in AtBuffer
    PROVE  \E l \in Local : task' = [task EXCEPT ![t] = l] /\ l.at # "slot" /\ l.hold = None
<1>1. task[t] \in Local /\ task[t].b \in Buffer /\ task[t].hold = None /\ Idle \in Local
  BY DEF Sound, TypeOK, LocalsFit, Fits, Idle, Local, Place, AtBuffer
<1>2. CASE task[t].b = NR_BUFFERS
  BY <1>1, <1>2 DEF NextBuffer, Returns, Idle
<1>3. CASE task[t].b # NR_BUFFERS
  <2> DEFINE l == [task[t] EXCEPT !.at = "sync", !.b = task[t].b + 1]
  <2>1. task' = [task EXCEPT ![t] = l]
    BY <1>3 DEF NextBuffer, Goes
  <2>2. task[t].b + 1 \in Buffer
    BY <1>1, <1>3, CacheAssumption, BufferAssumption
  <2>3. l \in Local /\ l.at # "slot" /\ l.hold = None
    BY <1>1, <2>2 DEF Local, Place, AtBuffer
  <2> QED
    BY <2>1, <2>3
<1> QED
  BY <1>2, <1>3

\* A step from place to place that does nothing to the buffers is quiet.
LEMMA GoesQuietly ==
    ASSUME Sound, NEW t \in Task, NEW l \in Local, task' = [task EXCEPT ![t] = l],
           UNCHANGED <<data, request, chain, disk>>,
           UNCHANGED bh \/ \E b \in Buffer, n \in 0 .. 255 : bh' = [bh EXCEPT ![b].count = n],
           task[t].at # "slot", l.at # "slot",
           task[t].at = "read" => ~bh[task[t].b].lock,
           l.hold # None => l.hold = task[t].hold \/ bh[l.hold].uptodate
    PROVE  Quiet
<1>1. bh \in [Buffer -> BufferHead]
  BY DEF Sound, TypeOK, BufferHead
<1>2. \A b \in Buffer : /\ bh'[b].blk = bh[b].blk /\ bh'[b].dirt = bh[b].dirt
                        /\ bh'[b].uptodate = bh[b].uptodate /\ bh'[b].lock = bh[b].lock
  <2>1. CASE \E b \in Buffer, n \in 0 .. 255 : bh' = [bh EXCEPT ![b].count = n]
    <3>1. PICK b \in Buffer, n \in 0 .. 255 : bh' = [bh EXCEPT ![b].count = n]
      BY <2>1
    <3>2. bh' = [bh EXCEPT ![b] = [bh[b] EXCEPT !.count = n]] /\ bh[b] \in BufferHead
      BY <1>1, <3>1
    <3>3. bh'[b] = [bh[b] EXCEPT !.count = n] /\ \A c \in Buffer : c # b => bh'[c] = bh[c]
      BY <1>1, <3>2
    <3>4. /\ bh'[b].blk = bh[b].blk /\ bh'[b].dirt = bh[b].dirt
          /\ bh'[b].uptodate = bh[b].uptodate /\ bh'[b].lock = bh[b].lock
      <4>1. PICK r \in BufferHead : r = bh[b]
        BY <3>2
      <4>2. bh'[b] = [r EXCEPT !.count = n]
        BY <3>3, <4>1
      <4>3. r = [blk |-> r.blk, count |-> r.count, dirt |-> r.dirt, uptodate |-> r.uptodate, lock |-> r.lock]
        BY DEF BufferHead
      <4> QED
        BY <4>1, <4>2, <4>3
    <3> QED
      BY <3>3, <3>4
  <2>2. CASE UNCHANGED bh
    BY <2>2
  <2> QED
    BY <2>1, <2>2
<1> QED
  BY <1>2 DEF Quiet

\* The steps of a task outside getblk's claim and make_request.
LEMMA CallsQuiet ==
    ASSUME Sound, NEW t \in Task,
           \/ \E blk \in Block : CallBread(t, blk)
           \/ CallBrelse(t) \/ CallSync(t) \/ FindMiss(t) \/ ScanNone(t) \/ Scan(t)
    PROVE  Quiet
<1>1. task[t] \in Local /\ task[t].at \in {"user", "find", "scan"} /\ None \notin Buffer
  BY CacheAssumption DEF Sound, TypeOK, CallBread, CallBrelse, CallSync, FindMiss, ScanNone, Scan, At
<1>2. UNCHANGED <<bh, data, request, chain, disk>>
  BY DEF CallBread, CallBrelse, CallSync, FindMiss, ScanNone, Scan, cache, device
<1>3. CASE \E blk \in Block : CallBread(t, blk)
  <2>1. PICK blk \in Block : CallBread(t, blk)
    BY <1>3
  <2> DEFINE l == [task[t] EXCEPT !.at = "find", !.blk = blk]
  <2>2. /\ task' = [task EXCEPT ![t] = l] /\ task[t].hold = None
        /\ l \in Local /\ l.at # "slot" /\ l.hold = None
    BY <1>1, <2>1 DEF CallBread, Goes, Local, Place
  <2> HIDE DEF l
  <2> QED
    BY <1>1, <1>2, <2>2, GoesQuietly
<1>4. CASE CallBrelse(t)
  <2> DEFINE l == [Idle EXCEPT !.at = "release", !.b = task[t].hold]
  <2>1. /\ task' = [task EXCEPT ![t] = l]
        /\ l \in Local /\ l.at # "slot" /\ l.hold = None
    BY <1>1, <1>4 DEF CallBrelse, Goes, Local, Place, AtBuffer, Idle
  <2> HIDE DEF l
  <2> QED
    BY <1>1, <1>2, <2>1, GoesQuietly
<1>5. CASE CallSync(t)
  <2> DEFINE l == [Idle EXCEPT !.at = "sync", !.b = 1, !.rw = WRITE]
  <2>1. 1 \in Buffer
    BY CacheAssumption, BufferAssumption
  <2>2. /\ task' = [task EXCEPT ![t] = l]
        /\ l \in Local /\ l.at # "slot" /\ l.hold = None
    BY <1>1, <1>5, <2>1 DEF CallSync, Goes, Local, Place, AtBuffer, Idle
  <2> HIDE DEF l
  <2> QED
    BY <1>1, <1>2, <2>2, GoesQuietly
<1>6. CASE FindMiss(t) \/ ScanNone(t)
  <2>1. PICK p \in {"find", "scan"} : task' = [task EXCEPT ![t] = [task[t] EXCEPT !.at = p]]
    BY <1>6 DEF FindMiss, ScanNone, Goes, Returns
  <2> DEFINE l == [task[t] EXCEPT !.at = p]
  <2>2. l \in Local /\ l.at # "slot" /\ l.hold = task[t].hold
    BY <1>1 DEF Local, Place
  <2> HIDE DEF l
  <2>3. task' = [task EXCEPT ![t] = l]
    BY <2>1 DEF l
  <2> QED
    BY <1>1, <1>2, <2>2, <2>3, GoesQuietly
<1>7. CASE Scan(t)
  <2>1. Unused # {} /\ task' = [task EXCEPT ![t] = [task[t] EXCEPT !.at = "victim", !.b = Chosen, !.tmp = ScanEnd]]
    BY <1>7 DEF Scan, Goes
  <2>2. Chosen \in Buffer /\ ScanEnd \in Buffer
    <3>1. Chosen \in Buffer
      BY <2>1, ChosenUnused DEF Unused
    <3>2. Head(free_list) \in Buffer
      <4>1. PICK b \in Buffer : TRUE
        BY <3>1
      <4>2. free_list \in Seq(Buffer) /\ Holds(free_list, b)
        BY DEF Sound, TypeOK, ListsWhole
      <4>3. free_list # <<>>
        BY <4>2 DEF Holds
      <4> QED
        BY <4>2, <4>3, HeadTailProperties
    <3> QED
      BY <3>1, <3>2 DEF ScanEnd
  <2> HIDE DEF Chosen, ScanEnd
  <2> DEFINE l == [task[t] EXCEPT !.at = "victim", !.b = Chosen, !.tmp = ScanEnd]
  <2>3. l \in Local /\ l.at # "slot" /\ l.hold = task[t].hold
    BY <1>1, <2>2 DEF Local, Place, AtBuffer
  <2> HIDE DEF l
  <2>4. task' = [task EXCEPT ![t] = l]
    BY <2>1 DEF l
  <2> QED
    BY <1>1, <1>2, <2>3, <2>4, GoesQuietly
<1> QED
  BY <1>3, <1>4, <1>5, <1>6, <1>7

\* The steps behind a wait, and brelse.
LEMMA WaitsQuiet ==
    ASSUME Sound, NEW t \in Task,
           \/ FindHit(t) \/ Found(t) \/ Read(t) \/ Release(t) \/ Sync(t)
           \/ Victim(t) /\ VictimTaken(t)
           \/ Lock(t) /\ Skips(t)
    PROVE  Quiet
<1>1. task[t] \in Local /\ None \notin Buffer /\ Fits(task[t]) /\ Idle \in Local /\ Idle.hold = None /\ Idle.at # "slot"
  BY CacheAssumption DEF Sound, TypeOK, LocalsFit, Idle, Local, Place
<1>2. UNCHANGED <<data, request, chain, disk>>
  BY DEF FindHit, Found, Read, Release, Sync, Victim, Lock, cache, device
<1>3. CASE FindHit(t)
  <2>1. task[t].blk \in Block /\ task[t].at = "find" /\ task[t].hold = None
    BY <1>1, <1>3 DEF FindHit, At, Fits
  <2>2. PICK b \in Buffer : b = FindBuffer(task[t].blk)
    BY <1>3, <2>1, FindBufferFinds DEF FindHit, Sound
  <2>3. PICK n \in 0 .. 255 : n = (bh[b].count + 1) % 256
    <3>1. bh[b].count \in 0 .. 255
      BY DEF Sound, TypeOK
    <3>2. PICK k \in 0 .. 255 : k = bh[b].count
      BY <3>1
    <3>3. (k + 1) % 256 \in 0 .. 255
      OBVIOUS
    <3> QED
      BY <3>2, <3>3
  <2>4. bh' = [bh EXCEPT ![b].count = n] /\ task' = [task EXCEPT ![t] = [task[t] EXCEPT !.at = "found", !.b = b]]
    BY <1>3, <2>2, <2>3 DEF FindHit, Counted, Goes
  <2> DEFINE l == [task[t] EXCEPT !.at = "found", !.b = b]
  <2>5. l \in Local /\ l.at # "slot" /\ l.hold = None
    BY <1>1, <2>1 DEF Local, Place, AtBuffer
  <2> HIDE DEF l
  <2>6. task' = [task EXCEPT ![t] = l]
    BY <2>4 DEF l
  <2> QED
    BY <1>2, <2>1, <2>4, <2>5, <2>6, GoesQuietly
<1>4. CASE Found(t)
  <2>1. task[t].at = "found" /\ bh[task[t].b].blk = task[t].blk
    <3>1. task[t].at = "found" /\ task[t].b \in Buffer
      BY <1>1, <1>4 DEF Found, AtUnlocked, At, Fits, AtBuffer
    <3> QED
      BY <3>1 DEF Sound, UsersKeep, Uses
  <2> DEFINE b == task[t].b
             l == IF bh[b].uptodate THEN [Idle EXCEPT !.blk = task[t].blk, !.hold = b]
                  ELSE [Idle EXCEPT !.at = "lock", !.blk = task[t].blk, !.b = b]
  <2>2. task' = [task EXCEPT ![t] = l] /\ UNCHANGED bh
    BY <1>4, <2>1 DEF Found, GetblkReturns, Goes, Returns
  <2>3. l \in Local /\ l.at # "slot" /\ (l.hold # None => bh[l.hold].uptodate)
    BY <1>1 DEF Local, Place, AtBuffer, Idle
  <2> HIDE DEF l
  <2> QED
    BY <1>2, <2>1, <2>2, <2>3, GoesQuietly
<1>5. CASE Read(t)
  <2> DEFINE b == task[t].b
             l == IF bh[b].uptodate THEN [Idle EXCEPT !.blk = task[t].blk, !.hold = b]
                  ELSE [task[t] EXCEPT !.at = "release"]
  <2>1. task' = [task EXCEPT ![t] = l] /\ UNCHANGED bh /\ task[t].at = "read" /\ ~bh[b].lock /\ task[t].hold = None
    BY <1>1, <1>5 DEF Read, AtUnlocked, At, Goes, Returns, cache, Fits
  <2>a. task[t].blk \in Block /\ b \in Buffer
    BY <1>1, <2>1 DEF Fits, AtBuffer
  <2>2. l \in Local /\ l.at # "slot" /\ (l.hold # None => bh[l.hold].uptodate)
    <3>1. CASE bh[b].uptodate
      <4>1. l = Holding(task[t].blk, b)
        BY <3>1 DEF Holding
      <4> HIDE DEF l, b
      <4> QED
        BY <1>1, <2>a, <3>1, <4>1, HoldingIs
    <3>2. CASE ~bh[b].uptodate
      <4>1. l = [task[t] EXCEPT !.at = "release"]
        BY <3>2
      <4> HIDE DEF l
      <4> QED
        BY <1>1, <2>1, <4>1 DEF Local, Place, AtBuffer
    <3> QED
      BY <3>1, <3>2
  <2> HIDE DEF l
  <2> QED
    BY <1>2, <2>1, <2>2, GoesQuietly
<1>6. CASE Release(t)
  <2>1. task[t].at = "release" /\ task[t].b \in Buffer /\ task[t].hold = None
    BY <1>1, <1>6 DEF Release, AtUnlocked, At, Fits, AtBuffer
  <2>2. CASE bh[task[t].b].count > 0
    <3>1. PICK b \in Buffer : b = task[t].b
      BY <2>1
    <3>2. PICK n \in 0 .. 255 : n = (bh[b].count + 255) % 256
      <4>1. bh[b].count \in 0 .. 255
        BY DEF Sound, TypeOK
      <4>2. PICK k \in 0 .. 255 : k = bh[b].count
        BY <4>1
      <4>3. (k + 255) % 256 \in 0 .. 255
        OBVIOUS
      <4> QED
        BY <4>2, <4>3
    <3>3. bh' = [bh EXCEPT ![b].count = n] /\ task' = [task EXCEPT ![t] = Idle]
      BY <1>6, <2>2, <3>1, <3>2 DEF Release, Uncounted, Returns
    <3> QED
      BY <1>1, <1>2, <2>1, <3>3, GoesQuietly
  <2>3. CASE ~(bh[task[t].b].count > 0)
    <3> DEFINE l == [task[t] EXCEPT !.at = "panic"]
    <3>1. task' = [task EXCEPT ![t] = l] /\ UNCHANGED bh
      BY <1>6, <2>3 DEF Release, Goes
    <3>2. l \in Local /\ l.at # "slot" /\ l.hold = None
      BY <1>1, <2>1 DEF Local, Place
    <3> HIDE DEF l
    <3> QED
      BY <1>2, <2>1, <3>1, <3>2, GoesQuietly
  <2> QED
    BY <2>2, <2>3
<1>7. CASE Victim(t) /\ VictimTaken(t)
  <2> DEFINE l == [task[t] EXCEPT !.at = "find"]
  <2>1. task' = [task EXCEPT ![t] = l] /\ UNCHANGED bh /\ task[t].at = "victim"
    BY <1>7 DEF Victim, AtUnlocked, At, Goes, cache
  <2>2. l \in Local /\ l.at # "slot" /\ l.hold = task[t].hold
    BY <1>1 DEF Local, Place
  <2> HIDE DEF l
  <2> QED
    BY <1>2, <2>1, <2>2, GoesQuietly
<1>8. ASSUME NextBuffer(t), UNCHANGED bh, task[t].at \in AtBuffer \ {"read"} PROVE Quiet
  <2>1. PICK l \in Local : task' = [task EXCEPT ![t] = l] /\ l.at # "slot" /\ l.hold = None
    BY <1>8, NextBufferGoes
  <2>2. task[t].at # "slot" /\ task[t].at # "read"
    BY <1>8 DEF AtBuffer
  <2> QED
    BY <1>2, <1>8, <2>1, <2>2, GoesQuietly
<1>9. CASE Sync(t)
  <2>1. task[t].at = "sync" /\ UNCHANGED bh
    BY <1>9 DEF Sync, AtUnlocked, At, cache
  <2>2. CASE bh[task[t].b].dirt
    <3> DEFINE l == [task[t] EXCEPT !.at = "lock"]
    <3>1. task' = [task EXCEPT ![t] = l]
      BY <1>9, <2>2 DEF Sync, Goes
    <3>2. l \in Local /\ l.at # "slot" /\ l.hold = task[t].hold
      BY <1>1 DEF Local, Place, AtBuffer
    <3> HIDE DEF l
    <3> QED
      BY <1>2, <2>1, <3>1, <3>2, GoesQuietly
  <2>3. CASE ~bh[task[t].b].dirt
    BY <1>8, <1>9, <2>1, <2>3 DEF Sync, AtBuffer
  <2> QED
    BY <2>2, <2>3
<1>10. CASE Lock(t) /\ Skips(t)
  <2>1. task[t].at = "lock" /\ UNCHANGED bh /\ AfterIO(t)
    BY <1>10 DEF Lock, AtUnlocked, At
  <2>2. CASE task[t].rw = READ
    <3> DEFINE l == [task[t] EXCEPT !.at = "read"]
    <3>1. task' = [task EXCEPT ![t] = l]
      BY <2>1, <2>2 DEF AfterIO, Goes
    <3>2. l \in Local /\ l.at # "slot" /\ l.hold = task[t].hold
      BY <1>1 DEF Local, Place, AtBuffer
    <3> HIDE DEF l
    <3> QED
      BY <1>2, <2>1, <3>1, <3>2, GoesQuietly
  <2>3. CASE task[t].rw # READ
    BY <1>8, <2>1, <2>3 DEF AfterIO, AtBuffer
  <2> QED
    BY <2>2, <2>3
<1> QED
  BY <1>3, <1>4, <1>5, <1>6, <1>7, <1>9, <1>10

\* Going to sleep and waking up change no buffer (sleep_on, sched.c:93-127).
LEMMA SleepsQuiet ==
    ASSUME Sound, NEW t \in Task, SleepOnLock(t) \/ Resume(t) \/ SlotNone(t)
    PROVE  Quiet
BY DEF SleepOnLock, Resume, SlotNone, cache, device, Quiet

----------------------------------------------------------------------------
\* The steps that change buffers, data or requests.

\* A version that was there is there after the step, or a newer one.
Kept == \A blk \in Block, n \in Nat : Older(blk, n) => Older(blk, n)'

\* And it loses no version of a block.
LEMMA QuietForgetsNothing == ASSUME Quiet PROVE Kept
BY DEF Quiet, Kept, Older

\* getblk takes a buffer that nobody uses, needs or has to write.
LEMMA ClaimKeepsData ==
    ASSUME Sound, DataSound, NEW t \in Task, Victim(t), ~VictimTaken(t)
    PROVE  DataSound' /\ Kept
<1>1. task[t] \in Local /\ task \in [Task -> Local] /\ None \notin Buffer /\ Fits(task[t])
  BY CacheAssumption DEF Sound, TypeOK, LocalsFit
<1>2. task[t].at = "victim" /\ UNCHANGED <<request, chain, disk, data>>
  BY DEF Victim, AtUnlocked, At, device, Rename
<1>3. PICK b \in Buffer : b = task[t].tmp /\ b = task[t].b /\ bh[b].count = 0 /\ ~bh[b].lock /\ ~bh[b].dirt
  BY <1>1, <1>2 DEF Fits, AtBuffer, Sound, VictimFree
<1>4. PICK blk \in Block : blk = task[t].blk
  BY <1>1, <1>2 DEF Fits
<1>5. PICK l : l = [Idle EXCEPT !.at = "lock", !.blk = blk, !.b = b]
  OBVIOUS
<1>6. Rename(b, blk) /\ task' = [task EXCEPT ![t] = l]
  BY <1>3, <1>4, <1>5 DEF Victim, GetblkReturns, Goes
<1>7. l.at = "lock" /\ l.hold = None
  BY <1>5 DEF Idle
<1>8. task'[t] = l /\ \A u \in Task : u # t => task'[u] = task[u]
  BY <1>1, <1>6
<1>9. /\ ~bh'[b].dirt /\ ~bh'[b].uptodate
      /\ \A c \in Buffer : c # b => bh'[c] = bh[c]
  <2>1. bh \in [Buffer -> BufferHead] /\ bh' = Claimed(b, blk)
    BY <1>6 DEF Sound, TypeOK, BufferHead, Rename
  <2>2. bh' = [bh EXCEPT ![b] = [blk |-> blk, count |-> 1, dirt |-> FALSE, uptodate |-> FALSE, lock |-> bh[b].lock]]
    BY <2>1 DEF Claimed
  <2> QED
    BY <2>1, <2>2
<1>10. \A u \in Task : ~Uses(u, b)
  <2>1. {u \in Task : Uses(u, b)} = {}
    BY <1>3, UsersCounted
  <2> QED
    BY <2>1
<1>11. /\ \A s \in Pending : request[s].bh \in Buffer /\ request[s].bh # b
       /\ \A u \in Task : task[u].at = "slot" => u # t /\ task[u].b \in Buffer /\ task[u].b # b
       /\ \A u \in Task : task[u].hold # None => task[u].hold \in Buffer /\ task[u].hold # b
  <2>1. \A u \in Task : task[u].hold # None => task[u].hold \in Buffer
    BY <1>1 DEF Local
  <2> QED
    BY <1>2, <1>3, <1>10, <2>1, PendingTyped DEF Sound, LocksOwned, LocalsFit, Fits, Uses
<1>12. Pending' = Pending
  BY <1>2 DEF Pending
<1>13. \A u \in Task : /\ task'[u].at = "slot" => task'[u] = task[u] /\ task[u].at = "slot"
                       /\ task'[u].hold # None => task'[u].hold = task[u].hold
                       /\ task[u].at = "read" => task'[u] = task[u]
  BY <1>2, <1>7, <1>8
<1>14. DirtyWritable' /\ ReadersWait'
  <2>1. \A c \in Buffer : bh'[c].dirt => bh'[c].blk \in Writable
    BY <1>9 DEF DataSound, DirtyWritable
  <2>2. \A u \in Task : task'[u].at = "slot" /\ task'[u].rw = WRITE => bh'[task'[u].b].blk \in Writable
    BY <1>9, <1>11, <1>13 DEF DataSound, DirtyWritable
  <2>3. \A s \in Pending' : request'[s].cmd = WRITE => request'[s].block \in Writable
    BY <1>2, <1>12 DEF DataSound, DirtyWritable
  <2>4. ReadersWait'
    BY <1>2, <1>12, <1>13 DEF DataSound, ReadersWait
  <2> QED
    BY <2>1, <2>2, <2>3, <2>4 DEF DirtyWritable
<1>15. ASSUME WRITE \notin Failures PROVE HeldValid' /\ DiskBehind'
  <2>1. HeldValid /\ DiskBehind
    BY <1>15 DEF DataSound
  <2>2. \A u \in Task : task'[u].hold # None => bh'[task'[u].hold].uptodate
    BY <1>9, <1>11, <1>13, <2>1 DEF HeldValid
  <2>3. \A c \in Buffer : /\ bh'[c].uptodate => disk'[bh'[c].blk].writes <= data'[c].writes
                          /\ bh'[c].dirt => bh'[c].uptodate
    BY <1>2, <1>9, <2>1 DEF DiskBehind
  <2>4. \A u \in Task : task'[u].at = "slot" /\ task'[u].rw = WRITE => bh'[task'[u].b].uptodate
    BY <1>9, <1>11, <1>13, <2>1 DEF DiskBehind
  <2>5. \A s \in Pending' : request'[s].cmd = WRITE => bh'[request'[s].bh].uptodate
    BY <1>2, <1>9, <1>11, <1>12, <2>1 DEF DiskBehind
  <2> QED
    BY <2>2, <2>3, <2>4, <2>5 DEF HeldValid, DiskBehind
<1>16. Kept
  <2>1. ASSUME NEW x \in Block, NEW n \in Nat, NEW c \in Buffer, bh[c].uptodate, data[c].blk = x, n <= data[c].writes
        PROVE  \/ n <= disk'[x].writes
               \/ bh'[c].uptodate /\ data'[c].blk = x /\ n <= data'[c].writes
    <3>1. CASE c = b
      BY <1>2, <1>3, <2>1, <3>1 DEF Sound, CleanMatchesDisk, DataAtHome, Home
    <3>2. CASE c # b
      BY <1>2, <1>9, <2>1, <3>2
    <3> QED
      BY <3>1, <3>2
  <2> QED
    BY <1>2, <2>1 DEF Kept, Older
<1> QED
  BY <1>14, <1>15, <1>16 DEF DataSound

\* make_request locks a buffer that has something to read or to write.
LEMMA LockKeepsData ==
    ASSUME Sound, DataSound, NEW t \in Task, Lock(t), ~Skips(t)
    PROVE  DataSound' /\ Kept
<1>1. task[t] \in Local /\ task \in [Task -> Local] /\ None \notin Buffer /\ Fits(task[t])
  BY CacheAssumption DEF Sound, TypeOK, LocalsFit
<1>2. PICK b \in Buffer : b = task[t].b
  BY <1>1 DEF Lock, AtUnlocked, At, Fits, AtBuffer
<1>3. PICK l : l = [task[t] EXCEPT !.at = "slot"]
  OBVIOUS
<1>4. /\ task[t].at = "lock" /\ task[t].hold = None /\ UNCHANGED <<data, request, chain, disk>>
      /\ bh' = [bh EXCEPT ![b].lock = TRUE] /\ task' = [task EXCEPT ![t] = l]
      /\ task[t].rw = WRITE => bh[b].dirt
  BY <1>1, <1>2, <1>3 DEF Lock, AtUnlocked, At, Fits, device, Goes, Skips
<1>5. \A c \in Buffer : /\ bh'[c].blk = bh[c].blk /\ bh'[c].dirt = bh[c].dirt
                        /\ bh'[c].uptodate = bh[c].uptodate
  BY <1>4 DEF Sound, TypeOK
<1>6. l.b = b /\ l.hold = None /\ l.rw = task[t].rw
  BY <1>1, <1>2, <1>3, <1>4 DEF Local
<1>7. task'[t] = l /\ \A u \in Task : u # t => task'[u] = task[u]
  BY <1>1, <1>4
<1>8. \A u \in Task : /\ task'[u].at = "slot" /\ u # t => task'[u] = task[u] /\ task[u].at = "slot" /\ task[u].b \in Buffer
                      /\ task'[u].hold # None => task'[u].hold = task[u].hold /\ task[u].hold \in Buffer
                      /\ task[u].at = "read" => task'[u] = task[u]
  BY <1>1, <1>4, <1>6, <1>7 DEF Local, Sound, LocalsFit, Fits
<1>9. Pending' = Pending /\ \A s \in Pending : request[s].bh \in Buffer
  BY <1>4, PendingTyped DEF Pending
<1>10. DirtyWritable' /\ ReadersWait'
  <2>1. \A c \in Buffer : bh'[c].dirt => bh'[c].blk \in Writable
    BY <1>5 DEF DataSound, DirtyWritable
  <2>2. ASSUME NEW u \in Task, task'[u].at = "slot", task'[u].rw = WRITE PROVE bh'[task'[u].b].blk \in Writable
    <3>1. CASE u = t
      BY <1>4, <1>5, <1>6, <1>7, <2>2, <3>1 DEF DataSound, DirtyWritable
    <3>2. CASE u # t
      BY <1>5, <1>8, <2>2, <3>2 DEF DataSound, DirtyWritable
    <3> QED
      BY <3>1, <3>2
  <2>3. \A s \in Pending' : request'[s].cmd = WRITE => request'[s].block \in Writable
    BY <1>4, <1>9 DEF DataSound, DirtyWritable
  <2>4. ReadersWait'
    BY <1>4, <1>8, <1>9 DEF DataSound, ReadersWait
  <2> QED
    BY <2>1, <2>2, <2>3, <2>4 DEF DirtyWritable
<1>11. ASSUME WRITE \notin Failures PROVE HeldValid' /\ DiskBehind'
  <2>1. HeldValid /\ DiskBehind
    BY <1>11 DEF DataSound
  <2>2. \A u \in Task : task'[u].hold # None => bh'[task'[u].hold].uptodate
    BY <1>5, <1>8, <2>1 DEF HeldValid
  <2>3. \A c \in Buffer : /\ bh'[c].uptodate => disk'[bh'[c].blk].writes <= data'[c].writes
                          /\ bh'[c].dirt => bh'[c].uptodate
    BY <1>4, <1>5, <2>1 DEF DiskBehind
  <2>4. ASSUME NEW u \in Task, task'[u].at = "slot", task'[u].rw = WRITE PROVE bh'[task'[u].b].uptodate
    <3>1. CASE u = t
      BY <1>4, <1>5, <1>6, <1>7, <2>1, <2>4, <3>1 DEF DiskBehind
    <3>2. CASE u # t
      BY <1>5, <1>8, <2>1, <2>4, <3>2 DEF DiskBehind
    <3> QED
      BY <3>1, <3>2
  <2>5. \A s \in Pending' : request'[s].cmd = WRITE => bh'[request'[s].bh].uptodate
    BY <1>4, <1>5, <1>9, <2>1 DEF DiskBehind
  <2> QED
    BY <2>2, <2>3, <2>4, <2>5 DEF HeldValid, DiskBehind
<1>12. Kept
  BY <1>4, <1>5 DEF Kept, Older
<1> QED
  BY <1>10, <1>11, <1>12 DEF DataSound

\* The holder's change makes a newer version of a block that is written.
LEMMA ModifyKeepsData ==
    ASSUME Sound, DataSound, NEW t \in Task, Modify(t) PROVE DataSound' /\ Kept
<1>1. task[t] \in Local /\ task \in [Task -> Local] /\ None \notin Buffer
  BY CacheAssumption DEF Sound, TypeOK
<1>2. PICK b \in Buffer : b = task[t].hold
  BY <1>1 DEF Modify, Local
<1>3. /\ task[t].at = "user" /\ task[t].blk \in Writable /\ UNCHANGED <<request, disk, task>>
      /\ data' = [data EXCEPT ![b].writes = data[b].writes + 1]
      /\ bh' = [bh EXCEPT ![b].dirt = TRUE]
  BY <1>2 DEF Modify, Dirtied, device, Sound, TypeOK
<1>4. /\ \A c \in Buffer : /\ bh'[c].blk = bh[c].blk /\ bh'[c].uptodate = bh[c].uptodate
                           /\ c # b => bh'[c].dirt = bh[c].dirt
  <2>1. bh \in [Buffer -> BufferHead]
    BY DEF Sound, TypeOK, BufferHead
  <2>2. PICK h : h = [bh[b] EXCEPT !.dirt = TRUE]
    OBVIOUS
  <2>3. bh[b] \in BufferHead => h.blk = bh[b].blk /\ h.uptodate = bh[b].uptodate
    BY <2>2 DEF BufferHead
  <2>4. bh' = [bh EXCEPT ![b] = h]
    BY <1>3, <2>2
  <2> QED
    BY <2>1, <2>3, <2>4
<1>5. /\ \A c \in Buffer : data'[c].blk = data[c].blk /\ data[c].writes \in Nat /\ data[c].writes <= data'[c].writes
                           /\ data'[c].writes \in Nat
      /\ \A x \in Block : disk[x].writes \in Nat
  <2>1. data \in [Buffer -> Content] /\ disk \in [Block -> Content] /\ MaxWrites \in Nat
    BY CacheAssumption DEF Sound, TypeOK
  <2>2. \A x \in Content : x.writes \in Nat
    BY <2>1 DEF Content
  <2>3. \A c \in Buffer : c # b => data'[c] = data[c]
    BY <1>3, <2>1
  <2>4. data' = [data EXCEPT ![b] = [data[b] EXCEPT !.writes = data[b].writes + 1]] /\ data[b] \in Content
    BY <1>3, <2>1
  <2>5. PICK r \in Content : r = data[b]
    BY <2>4
  <2>6. data'[b] = [r EXCEPT !.writes = r.writes + 1]
    BY <2>1, <2>4, <2>5
  <2>7. r = [blk |-> r.blk, writes |-> r.writes] /\ r.writes \in Nat
    BY <2>2 DEF Content
  <2>8. data'[b].blk = r.blk /\ data'[b].writes = r.writes + 1
    BY <2>6, <2>7
  <2> QED
    BY <2>1, <2>2, <2>3, <2>5, <2>7, <2>8
<1>6. bh[b].blk \in Writable
  BY <1>1, <1>2, <1>3 DEF Sound, UsersKeep, Uses
<1>7. /\ Pending' = Pending /\ \A s \in Pending : request[s].bh \in Buffer
      /\ \A u \in Task : task[u].at = "slot" => task[u].b \in Buffer
      /\ \A u \in Task : task[u].hold # None => task[u].hold \in Buffer
  BY <1>1, <1>3, PendingTyped DEF Pending, Sound, LocalsFit, Fits, Local
<1>8. DirtyWritable' /\ ReadersWait'
  <2>1. \A c \in Buffer : bh'[c].dirt => bh'[c].blk \in Writable
    BY <1>4, <1>6 DEF DataSound, DirtyWritable
  <2>2. \A u \in Task : task'[u].at = "slot" /\ task'[u].rw = WRITE => bh'[task'[u].b].blk \in Writable
    BY <1>3, <1>4, <1>7 DEF DataSound, DirtyWritable
  <2>3. \A s \in Pending' : request'[s].cmd = WRITE => request'[s].block \in Writable
    BY <1>3, <1>7 DEF DataSound, DirtyWritable
  <2>4. ReadersWait'
    BY <1>3, <1>7 DEF DataSound, ReadersWait
  <2> QED
    BY <2>1, <2>2, <2>3, <2>4 DEF DirtyWritable
<1>9. ASSUME WRITE \notin Failures PROVE HeldValid' /\ DiskBehind'
  <2>1. HeldValid /\ DiskBehind
    BY <1>9 DEF DataSound
  <2>2. \A u \in Task : task'[u].hold # None => bh'[task'[u].hold].uptodate
    BY <1>3, <1>4, <1>7, <2>1 DEF HeldValid
  <2>3. bh[b].uptodate
    BY <1>1, <1>2, <2>1 DEF HeldValid
  <2>4. ASSUME NEW c \in Buffer, bh'[c].uptodate PROVE disk'[bh'[c].blk].writes <= data'[c].writes
    <3>1. disk[bh[c].blk].writes <= data[c].writes /\ bh[c].blk \in Block
      BY <1>4, <2>1, <2>4 DEF DiskBehind, Sound, DataAtHome, Home
    <3> QED
      BY <1>3, <1>4, <1>5, <3>1
  <2>5. \A c \in Buffer : bh'[c].dirt => bh'[c].uptodate
    BY <1>4, <2>1, <2>3 DEF DiskBehind
  <2>6. \A u \in Task : task'[u].at = "slot" /\ task'[u].rw = WRITE => bh'[task'[u].b].uptodate
    BY <1>3, <1>4, <1>7, <2>1 DEF DiskBehind
  <2>7. \A s \in Pending' : request'[s].cmd = WRITE => bh'[request'[s].bh].uptodate
    BY <1>3, <1>4, <1>7, <2>1 DEF DiskBehind
  <2> QED
    BY <2>2, <2>4, <2>5, <2>6, <2>7 DEF HeldValid, DiskBehind
<1>10. Kept
  <2>1. ASSUME NEW n \in Nat, NEW c \in Buffer, n <= data[c].writes PROVE n <= data'[c].writes
    BY <1>5, <2>1
  <2> QED
    BY <1>3, <1>4, <1>5, <2>1 DEF Kept, Older
<1> QED
  BY <1>8, <1>9, <1>10 DEF DataSound

\* make_request hands a buffer to the device.
LEMMA SlotKeepsData ==
    ASSUME Sound, DataSound, NEW t \in Task, TakeSlot(t) PROVE DataSound' /\ Kept
<1>1. task[t] \in Local /\ task \in [Task -> Local] /\ None \notin Buffer /\ Fits(task[t])
  BY CacheAssumption DEF Sound, TypeOK, LocalsFit
<1>2. task[t].at = "slot" /\ task[t].hold = None
  BY <1>1 DEF TakeSlot, At, Fits
<1>3. PICK b \in Buffer : b = task[t].b
  BY <1>1, <1>2 DEF Fits
<1>4. PICK rw \in {READ, WRITE} : rw = task[t].rw
  BY <1>1 DEF Local
<1>5. AddRequest(rw, bh[b].blk, b) /\ FreeSlots(rw) # {}
  BY <1>3, <1>4 DEF TakeSlot, AddRequest
<1>6. PICK s \in Slot : s = ChosenSlot(rw) /\ request[s] = Free
  BY <1>5, ChosenIsFree
<1>7. PICK r : r = [cmd |-> rw, block |-> bh[b].blk, bh |-> b]
  OBVIOUS
<1>8. request' = [request EXCEPT ![s] = r] /\ r.cmd = rw /\ r.block = bh[b].blk /\ r.bh = b
  BY <1>5, <1>6, <1>7 DEF AddRequest
<1>9. PICK l : GoesOn(t, l)
  BY <1>2, AfterIOGoes DEF TakeSlot
<1>10. bh' = [bh EXCEPT ![b].dirt = FALSE] /\ UNCHANGED <<data, disk>>
  BY <1>3 DEF TakeSlot
<1>11. /\ ~bh'[b].dirt /\ \A c \in Buffer : c # b => bh'[c].dirt = bh[c].dirt
       /\ \A c \in Buffer : bh'[c].blk = bh[c].blk /\ bh'[c].uptodate = bh[c].uptodate
  BY <1>10 DEF Sound, TypeOK
<1>12. /\ \A q \in Pending' : \/ q \in Pending /\ request'[q] = request[q]
                              \/ q = s /\ request'[q] = r
       /\ \A q \in Pending : request[q].bh \in Buffer
  <2>1. request \in [Slot -> Request \cup {Free}]
    BY DEF Sound, TypeOK, QueueTypeOK
  <2>2. request'[s] = r /\ \A q \in Slot : q # s => request'[q] = request[q]
    BY <1>8, <2>1
  <2> QED
    BY <2>2, PendingTyped DEF Pending
<1>13. /\ task'[t] = l /\ \A u \in Task : u # t => task'[u] = task[u]
       /\ l.at # "slot" /\ l.hold = None /\ (rw = READ => l.at = "read" /\ l.b = b)
  BY <1>1, <1>3, <1>4, <1>9 DEF GoesOn
<1>14. \A u \in Task : /\ task'[u].at = "slot" => task'[u] = task[u] /\ task[u].b \in Buffer
                       /\ task'[u].hold # None => task'[u].hold = task[u].hold /\ task[u].hold \in Buffer
                       /\ task[u].at = "read" => task'[u] = task[u]
  BY <1>1, <1>2, <1>13 DEF Sound, LocalsFit, Fits, Local
<1>15. DirtyWritable' /\ ReadersWait'
  <2>1. \A c \in Buffer : bh'[c].dirt => bh'[c].blk \in Writable
    BY <1>11 DEF DataSound, DirtyWritable
  <2>2. \A u \in Task : task'[u].at = "slot" /\ task'[u].rw = WRITE => bh'[task'[u].b].blk \in Writable
    BY <1>11, <1>14 DEF DataSound, DirtyWritable
  <2>3. rw = WRITE => bh[b].blk \in Writable
    BY <1>2, <1>3, <1>4 DEF DataSound, DirtyWritable
  <2>4. \A q \in Pending' : request'[q].cmd = WRITE => request'[q].block \in Writable
    BY <1>8, <1>12, <2>3 DEF DataSound, DirtyWritable
  <2>5. \A q \in Pending' : request'[q].cmd = READ =>
            \E u \in Task : task'[u].at = "read" /\ task'[u].b = request'[q].bh
    BY <1>8, <1>12, <1>13, <1>14 DEF DataSound, ReadersWait
  <2> QED
    BY <2>1, <2>2, <2>4, <2>5 DEF DirtyWritable, ReadersWait
<1>16. ASSUME WRITE \notin Failures PROVE HeldValid' /\ DiskBehind'
  <2>1. HeldValid /\ DiskBehind
    BY <1>16 DEF DataSound
  <2>2. \A u \in Task : task'[u].hold # None => bh'[task'[u].hold].uptodate
    BY <1>11, <1>14, <2>1 DEF HeldValid
  <2>3. \A c \in Buffer : /\ bh'[c].uptodate => disk'[bh'[c].blk].writes <= data'[c].writes
                          /\ bh'[c].dirt => bh'[c].uptodate
    BY <1>10, <1>11, <2>1 DEF DiskBehind
  <2>4. \A u \in Task : task'[u].at = "slot" /\ task'[u].rw = WRITE => bh'[task'[u].b].uptodate
    BY <1>11, <1>14, <2>1 DEF DiskBehind
  <2>5. rw = WRITE => bh[b].uptodate
    BY <1>2, <1>3, <1>4, <2>1 DEF DiskBehind
  <2>6. \A q \in Pending' : request'[q].cmd = WRITE => bh'[request'[q].bh].uptodate
    BY <1>8, <1>11, <1>12, <2>1, <2>5 DEF DiskBehind
  <2> QED
    BY <2>2, <2>3, <2>4, <2>6 DEF HeldValid, DiskBehind
<1>17. Kept
  BY <1>10, <1>11 DEF Kept, Older
<1> QED
  BY <1>15, <1>16, <1>17 DEF DataSound

\* The device's answer: a read that fails leaves a buffer that was not valid.
LEMMA CompleteKeepsData ==
    ASSUME Sound, DataSound, NEW m \in Major, NEW ok \in BOOLEAN, NEW v, Complete(m, ok, v)
    PROVE  DataSound' /\ (WRITE \notin Failures => Kept)
<1>1. PICK s \in Pending : s = Head(chain[m])
  BY HeadPending DEF Complete
<1>2. PICK r : r = request[s]
  OBVIOUS
<1>3. PICK b \in Buffer : b = r.bh
  BY <1>2, PendingTyped
<1>4. PICK blk \in Block : blk = r.block
  BY <1>2, PendingTyped
<1>5. r.cmd \in {READ, WRITE} /\ bh[b].blk = blk /\ s \in Slot
  BY <1>2, <1>3, <1>4, PendingTyped DEF Sound, RequestFitsBuffer
<1>6. /\ v \in sent[b] .. data[b].writes /\ (ok \/ r.cmd \in Failures)
      /\ data' = IF ok /\ r.cmd = READ THEN [data EXCEPT ![b] = disk[blk]] ELSE data
      /\ disk' = IF ok /\ r.cmd = WRITE THEN [disk EXCEPT ![blk] = [data[b] EXCEPT !.writes = v]] ELSE disk
      /\ bh' = [bh EXCEPT ![b].uptodate = ok, ![b].lock = FALSE]
      /\ request' = [request EXCEPT ![s] = Free] /\ UNCHANGED task
  BY <1>1, <1>2, <1>3, <1>4 DEF Complete, Current, Answered, EndRequest
<1>7. data \in [Buffer -> Content] /\ disk \in [Block -> Content] /\ \A x \in Content : x.writes \in Nat
  BY CacheAssumption DEF Sound, TypeOK, Content
<1>8. v \in Nat /\ v <= data[b].writes
  <2>1. sent[b] \in Nat /\ data[b].writes \in Nat
    BY <1>7, CacheAssumption DEF Sound, TypeOK
  <2> QED
    BY <1>6, <2>1
<1>9. /\ \A c \in Buffer : c # b => data'[c] = data[c]
      /\ ok /\ r.cmd = READ => data'[b] = disk[blk] /\ disk' = disk
      /\ ~(ok /\ r.cmd = READ) => data' = data
      /\ \A x \in Block : x # blk => disk'[x] = disk[x]
      /\ ok /\ r.cmd = WRITE => disk'[blk].writes = v
      /\ ~(ok /\ r.cmd = WRITE) => disk' = disk
  <2>1. [data[b] EXCEPT !.writes = v].writes = v
    BY <1>7 DEF Content
  <2> QED
    BY <1>6, <1>7, <2>1
<1>10. /\ bh'[b].uptodate <=> ok
       /\ \A c \in Buffer : c # b => bh'[c].uptodate = bh[c].uptodate
       /\ \A c \in Buffer : bh'[c].blk = bh[c].blk /\ bh'[c].dirt = bh[c].dirt
  <2>1. bh \in [Buffer -> BufferHead]
    BY DEF Sound, TypeOK, BufferHead
  <2> QED
    BY <1>6, <2>1 DEF BufferHead
<1>11. \A q \in Pending' : /\ q \in Pending /\ q # s /\ request'[q] = request[q]
                           /\ request[q].bh \in Buffer /\ request[q].bh # b
  <2>1. request \in [Slot -> Request \cup {Free}]
    BY DEF Sound, TypeOK, QueueTypeOK
  <2>2. request'[s] = Free /\ \A q \in Slot : q # s => request'[q] = request[q]
    BY <1>5, <1>6, <2>1
  <2>3. \A q \in Pending' : q \in Pending /\ q # s /\ request'[q] = request[q]
    BY <1>5, <2>2 DEF Pending
  <2> QED
    BY <1>2, <1>3, <2>3, PendingTyped DEF Sound, LocksOwned
<1>12. \A u \in Task : /\ task[u].at = "slot" => task[u].b \in Buffer /\ task[u].b # b
                       /\ task[u].hold # None => task[u].hold \in Buffer
  BY <1>1, <1>2, <1>3 DEF Sound, LocksOwned, LocalsFit, Fits, TypeOK, Local
<1>13. DirtyWritable' /\ ReadersWait'
  <2>1. \A c \in Buffer : bh'[c].dirt => bh'[c].blk \in Writable
    BY <1>10 DEF DataSound, DirtyWritable
  <2>2. \A u \in Task : task'[u].at = "slot" /\ task'[u].rw = WRITE => bh'[task'[u].b].blk \in Writable
    BY <1>6, <1>10, <1>12 DEF DataSound, DirtyWritable
  <2>3. \A q \in Pending' : request'[q].cmd = WRITE => request'[q].block \in Writable
    BY <1>11 DEF DataSound, DirtyWritable
  <2>4. ReadersWait'
    BY <1>6, <1>11 DEF DataSound, ReadersWait
  <2> QED
    BY <2>1, <2>2, <2>3, <2>4 DEF DirtyWritable
<1>14. WRITE \notin Failures /\ ~ok => r.cmd = READ
  BY <1>5, <1>6
<1>15. r.cmd = READ => ~bh[b].uptodate
  BY <1>2, <1>3 DEF Sound, ReadsStale
<1>16. ASSUME WRITE \notin Failures PROVE HeldValid' /\ DiskBehind'
  <2>1. HeldValid /\ DiskBehind
    BY <1>16 DEF DataSound
  <2>2. \A c \in Buffer : bh[c].uptodate => bh'[c].uptodate
    BY <1>10, <1>14, <1>15, <1>16
  <2>3. \A u \in Task : task'[u].hold # None => bh'[task'[u].hold].uptodate
    BY <1>6, <1>12, <2>1, <2>2 DEF HeldValid
  <2>4. ASSUME NEW c \in Buffer, bh'[c].uptodate PROVE disk'[bh'[c].blk].writes <= data'[c].writes
    <3>1. CASE c = b
      <4>1. ok /\ bh'[c].blk = blk
        BY <1>5, <1>10, <2>4, <3>1
      <4>2. CASE r.cmd = READ
        BY <1>7, <1>9, <3>1, <4>1, <4>2
      <4>3. CASE r.cmd = WRITE
        BY <1>8, <1>9, <3>1, <4>1, <4>3
      <4> QED
        BY <1>5, <4>2, <4>3
    <3>2. CASE c # b
      <4>1. bh[c].uptodate /\ bh'[c].blk = bh[c].blk /\ data'[c] = data[c] /\ bh[c].blk \in Block
        BY <1>9, <1>10, <2>4, <3>2 DEF Sound, DataAtHome, Home
      <4>2. bh[c].blk # blk
        BY <1>5, <3>2, CacheAssumption DEF Sound, OneBufferPerBlock
      <4> QED
        BY <1>9, <2>1, <4>1, <4>2 DEF DiskBehind
    <3> QED
      BY <3>1, <3>2
  <2>5. \A c \in Buffer : bh'[c].dirt => bh'[c].uptodate
    BY <1>10, <2>1, <2>2 DEF DiskBehind
  <2>6. \A u \in Task : task'[u].at = "slot" /\ task'[u].rw = WRITE => bh'[task'[u].b].uptodate
    BY <1>6, <1>12, <2>1, <2>2 DEF DiskBehind
  <2>7. \A q \in Pending' : request'[q].cmd = WRITE => bh'[request'[q].bh].uptodate
    BY <1>11, <2>1, <2>2 DEF DiskBehind
  <2> QED
    BY <2>3, <2>4, <2>5, <2>6, <2>7 DEF HeldValid, DiskBehind
<1>17. ASSUME WRITE \notin Failures PROVE Kept
  <2>1. DiskBehind
    BY <1>17 DEF DataSound
  <2>2. \A c \in Buffer : bh[c].uptodate => bh'[c].uptodate /\ data'[c] = data[c]
    BY <1>9, <1>10, <1>14, <1>15, <1>17
  <2>3. ASSUME NEW x \in Block, NEW n \in Nat, n <= disk[x].writes
        PROVE  \/ n <= disk'[x].writes
               \/ bh'[b].uptodate /\ data'[b].blk = x /\ n <= data'[b].writes
    <3>1. CASE ok /\ r.cmd = WRITE /\ x = blk
      <4>1. bh[b].uptodate /\ data[b].blk = x /\ disk[x].writes <= data[b].writes
        BY <1>2, <1>3, <1>5, <2>1, <3>1 DEF DiskBehind, Sound, DataAtHome, Home
      <4>2. disk[x].writes \in Nat /\ data[b].writes \in Nat
        BY <1>7
      <4> QED
        BY <2>2, <2>3, <4>1, <4>2
    <3>2. CASE ~(ok /\ r.cmd = WRITE /\ x = blk)
      BY <1>9, <2>3, <3>2
    <3> QED
      BY <3>1, <3>2
  <2> QED
    BY <2>2, <2>3 DEF Kept, Older
<1> QED
  BY <1>13, <1>16, <1>17 DEF DataSound

----------------------------------------------------------------------------
\* buffer_init's buffers are clean and hold nothing (buffer.c:202-236).
LEMMA InitData == Init => DataSound
<1> SUFFICES ASSUME Init PROVE DataSound
  OBVIOUS
<1>1. /\ \A b \in Buffer : ~bh[b].dirt /\ ~bh[b].uptodate
      /\ \A t \in Task : task[t].at = "user" /\ task[t].hold = None
      /\ Pending = {}
  BY DEF Init, Idle, QueueInit, Pending
<1> QED
  BY <1>1 DEF DataSound, DirtyWritable, ReadersWait, HeldValid, DiskBehind

\* Every step keeps the invariant of the data; without failing writes none loses a version.
LEMMA StepKeepsData ==
    ASSUME Sound, DataSound, [Next]_vars
    PROVE  DataSound' /\ (WRITE \notin Failures => Kept)
<1>1. Quiet => DataSound' /\ Kept
  BY QuietKeepsData, QuietForgetsNothing
<1>2. CASE UNCHANGED vars
  <2>1. Quiet
    BY <1>2 DEF Quiet, vars
  <2> QED
    BY <1>1, <2>1
<1>3. ASSUME NEW t \in Task, KernelStep(t) PROVE DataSound' /\ Kept
  <2>1. CASE \/ SleepOnLock(t) \/ SlotNone(t) \/ FindMiss(t) \/ ScanNone(t) \/ Scan(t)
             \/ FindHit(t) \/ Found(t) \/ Read(t) \/ Release(t) \/ Sync(t)
    BY <1>1, <2>1, SleepsQuiet, CallsQuiet, WaitsQuiet
  <2>2. CASE Victim(t)
    BY <1>1, <2>2, WaitsQuiet, ClaimKeepsData
  <2>3. CASE Lock(t)
    BY <1>1, <2>3, WaitsQuiet, LockKeepsData
  <2>4. CASE TakeSlot(t)
    BY <2>4, SlotKeepsData
  <2> QED
    BY <1>3, <2>1, <2>2, <2>3, <2>4 DEF KernelStep
<1>4. ASSUME NEW t \in Task,
             \/ \E blk \in Block : CallBread(t, blk)
             \/ CallBrelse(t) \/ Modify(t) \/ CallSync(t) \/ Resume(t)
      PROVE  DataSound' /\ Kept
  BY <1>1, <1>4, SleepsQuiet, CallsQuiet, ModifyKeepsData
<1> QED
  BY <1>2, <1>3, <1>4, CompleteKeepsData DEF Next

\* The forms that the runs check.

\* Without failed writes the two invariants together give CacheSound.
LEMMA DataMeans ==
    ASSUME Sound, DataSound, WRITE \notin Failures PROVE CacheSound
<1>1. HeldData
  <2>1. HeldValid
    BY DEF DataSound
  <2>2. ASSUME NEW t \in Task, task[t].hold # None PROVE data[task[t].hold].blk = task[t].blk
    <3>1. PICK b \in Buffer : b = task[t].hold
      BY <2>2 DEF Sound, TypeOK, Local
    <3>2. Home(b) /\ task[t].at # "release"
      BY <2>2, <3>1 DEF Sound, DataAtHome, LocalsFit, Fits
    <3>3. bh[b].blk = task[t].blk
      BY <3>1, <3>2 DEF Sound, UsersKeep, Uses
    <3> QED
      BY <3>1, <3>2, <3>3 DEF Home
  <2> QED
    BY <2>1, <2>2 DEF HeldData, HeldValid
<1> QED
  BY <1>1, SoundMeans DEF CacheSound, HeldBuffers

\* Newest finds the greatest version there is of a block.
NewestFits == \A blk \in Block :
    /\ Newest(blk) \in Nat
    /\ Older(blk, Newest(blk))
    /\ \A n \in Nat : Older(blk, n) => n <= Newest(blk)

\* So it does, in every reachable state.
LEMMA NewestFound == Sound => NewestFits
<1> SUFFICES ASSUME Sound, NEW blk \in Block
    PROVE  Newest(blk) \in Nat /\ Older(blk, Newest(blk)) /\ \A n \in Nat : Older(blk, n) => n <= Newest(blk)
  BY DEF NewestFits
<1> DEFINE T == {disk[blk].writes} \cup {data[b].writes : b \in {c \in Buffer : bh[c].uptodate /\ data[c].blk = blk}}
<1>1. T \in SUBSET (0 .. MaxWrites) /\ T # {} /\ MaxWrites \in Nat
  <2>1. data \in [Buffer -> Content] /\ disk \in [Block -> Content]
    BY DEF Sound, TypeOK
  <2>2. \A x \in Content : x.writes \in 0 .. MaxWrites
    BY DEF Content
  <2>3. disk[blk].writes \in 0 .. MaxWrites /\ \A b \in Buffer : data[b].writes \in 0 .. MaxWrites
    BY <2>1, <2>2
  <2> QED
    BY <2>3, CacheAssumption
<1>2. Newest(blk) = Max(T)
  BY DEF Newest
<1>3. Max(T) \in T /\ \A y \in T : Max(T) >= y
  <2> HIDE DEF T
  <2> QED
    BY <1>1, MaxOf
<1>4. ASSUME NEW n \in Nat
      PROVE  Older(blk, n) <=> \E y \in T : n <= y
  BY DEF Older
<1>5. Max(T) \in Nat
  BY <1>1, <1>3
<1>6. \A y \in T : y \in Nat
  BY <1>1
<1> HIDE DEF T
<1>7. Older(blk, Max(T))
  BY <1>3, <1>4, <1>5
<1>8. ASSUME NEW n \in Nat, Older(blk, n) PROVE n <= Max(T)
  <2>1. PICK y \in T : n <= y
    BY <1>4, <1>8
  <2> QED
    BY <1>3, <1>5, <1>6, <2>1
<1> QED
  BY <1>2, <1>5, <1>7, <1>8

\* What a step keeps of every version it keeps of the newest.
LEMMA NewestKept ==
    ASSUME Sound, Sound', Kept
    PROVE  \A blk \in Block : Newest(blk) <= Newest(blk)'
<1> SUFFICES ASSUME NEW blk \in Block PROVE Newest(blk) <= Newest(blk)'
  OBVIOUS
<1>1. Newest(blk) \in Nat /\ Older(blk, Newest(blk))
  BY NewestFound DEF NewestFits
<1>2. PICK n \in Nat : n = Newest(blk) /\ Older(blk, n)
  BY <1>1
<1>3. Older(blk, n)'
  BY <1>2 DEF Kept
<1>4. NewestFits'
  BY NewestFound, PTL
<1>5. Newest(blk)' \in Nat /\ \A k \in Nat : Older(blk, k)' => k <= Newest(blk)'
  BY <1>4 DEF NewestFits
<1> QED
  BY <1>2, <1>3, <1>5

----------------------------------------------------------------------------
\* A cache with more buffers than the tasks that may hold one while another looks for a
\* buffer, and the blocks that may be dirty or on their way to the disk; or one that
\* only reads.
Roomy == \/ Writable = {}
         \/ IsFiniteSet(Writable) /\ Cardinality(Task) + Cardinality(Writable) <= NR_BUFFERS

\* A buffer that nobody uses and that is dirty or locked has a block that is written.
LEMMA BadWritable ==
    ASSUME Sound, DataSound, NEW b \in Unused, Badness(b) # 0
    PROVE  bh[b].blk \in Writable
<1>1. b \in Buffer /\ bh[b].count = 0
  BY DEF Unused
<1>2. \A u \in Task : ~Uses(u, b)
  <2>1. {u \in Task : Uses(u, b)} = {}
    BY <1>1, UsersCounted
  <2> QED
    BY <2>1
<1>3. CASE bh[b].dirt
  BY <1>1, <1>3 DEF DataSound, DirtyWritable
<1>4. CASE bh[b].lock
  <2>1. CASE \E s \in Pending : request[s].bh = b
    <3>1. PICK s \in Pending : request[s].bh = b
      BY <2>1
    <3>2. request[s].cmd # READ
      BY <1>2, <3>1 DEF DataSound, ReadersWait, Uses
    <3>3. request[s].cmd = WRITE /\ request[s].block = bh[b].blk
      BY <3>1, <3>2, PendingTyped DEF Sound, RequestFitsBuffer
    <3> QED
      BY <3>3 DEF DataSound, DirtyWritable
  <2>2. CASE \E t \in Task : task[t].at = "slot" /\ task[t].b = b
    <3>1. PICK t \in Task : task[t].at = "slot" /\ task[t].b = b
      BY <2>2
    <3>2. task[t].rw = WRITE
      BY <1>2, <3>1 DEF Uses, Sound, TypeOK, Local
    <3> QED
      BY <3>1, <3>2 DEF DataSound, DirtyWritable
  <2> QED
    BY <1>1, <1>4, <2>1, <2>2 DEF Sound, LocksOwned
<1> QED
  BY <1>3, <1>4 DEF Badness

\* No task uses two buffers at once: what bread returned, and the one it waits for.
LEMMA OneUse ==
    ASSUME Sound, NEW t \in Task, NEW b \in Buffer, NEW c \in Buffer, Uses(t, b), Uses(t, c)
    PROVE  b = c
BY CacheAssumption DEF Uses, Sound, LocalsFit, Fits

\* getblk's loop (buffer.c:133-143) ends at a clean, unlocked buffer, if the buffers are
\* more than the other tasks may use and the written blocks may keep dirty or locked.
LEMMA RoomForScan ==
    ASSUME Sound, DataSound, Roomy, NEW t \in Task, Scan(t) PROVE Badness(Chosen) = 0
<1>1. Unused # {} /\ task[t].at = "scan"
  BY DEF Scan, At
<1>2. Chosen \in Unused /\ \A c \in Unused : Badness(Chosen) <= Badness(c)
  BY <1>1, ChosenUnused
<1>3. \A c \in Buffer : Badness(c) \in Nat
  BY DEF Badness
<1>4. \A c \in Unused : c \in Buffer
  BY DEF Unused
<1>5. SUFFICES ASSUME \A c \in Unused : Badness(c) # 0 PROVE FALSE
  <2> HIDE DEF Chosen
  <2>1. CASE \E c \in Unused : Badness(c) = 0
    <3>1. PICK c \in Unused : Badness(c) = 0
      BY <2>1
    <3>2. Badness(Chosen) <= 0 /\ Badness(Chosen) \in Nat
      BY <1>2, <1>3, <1>4, <3>1
    <3> QED
      BY <3>2
  <2> QED
    BY <2>1
<1>6. \A c \in Unused : bh[c].blk \in Writable
  BY <1>5, BadWritable
<1>7. IsFiniteSet(Writable) /\ Cardinality(Task) + Cardinality(Writable) <= NR_BUFFERS
  BY <1>1, <1>6 DEF Roomy
<1>8. IsFiniteSet(Unused) /\ Cardinality(Unused) <= Cardinality(Writable)
  <2> DEFINE f == [c \in Unused |-> bh[c].blk]
  <2>1. f \in Injection(Unused, Writable)
    <3>1. f \in [Unused -> Writable]
      BY <1>6
    <3>2. \A c, d \in Unused : f[c] = f[d] => c = d
      BY <1>4, <1>6, CacheAssumption DEF Sound, OneBufferPerBlock
    <3> QED
      BY <3>1, <3>2 DEF Injection, IsInjective
  <2> HIDE DEF f
  <2> QED
    BY <1>7, <2>1, FS_Injection
<1> DEFINE Used == {c \in Buffer : bh[c].count # 0}
           others == Task \ {t}
<1>9. IsFiniteSet(others) /\ Cardinality(others) = Cardinality(Task) - 1
  BY TaskAssumption, FS_RemoveElement
<1>10. IsFiniteSet(Used) /\ Cardinality(Used) <= Cardinality(others)
  <2> DEFINE g == [c \in Used |-> CHOOSE u \in Task : Uses(u, c)]
  <2>1. \A c \in Used : \E u \in Task : Uses(u, c)
    <3>1. ASSUME NEW c \in Used PROVE {u \in Task : Uses(u, c)} # {}
      BY UsersCounted
    <3> QED
      BY <3>1
  <2>2. \A c \in Used : g[c] \in Task /\ Uses(g[c], c)
    BY <2>1
  <2>3. \A c \in Buffer : ~Uses(t, c)
    BY <1>1, CacheAssumption DEF Uses, Sound, LocalsFit, Fits
  <2>4. g \in [Used -> others]
    BY <2>2, <2>3
  <2>5. \A c, d \in Used : g[c] = g[d] => c = d
    BY <2>2, OneUse
  <2> HIDE DEF g, Used, others
  <2>6. g \in Injection(Used, others)
    BY <2>4, <2>5 DEF Injection, IsInjective
  <2> QED
    BY <1>9, <2>6, FS_Injection
<1>11. /\ 1 .. NR_BUFFERS = Unused \cup Used
       /\ Unused \cap Used = {}
  BY BufferAssumption DEF Unused
<1> HIDE DEF Used, others
<1>12. Cardinality(1 .. NR_BUFFERS) = NR_BUFFERS
  BY CacheAssumption, FS_Interval
<1>13. /\ Cardinality({}) = 0 /\ Cardinality(Unused) \in Nat /\ Cardinality(Used) \in Nat
       /\ Cardinality(Task) \in Nat /\ Cardinality(Writable) \in Nat /\ Cardinality(others) \in Nat
  BY <1>7, <1>8, <1>9, <1>10, TaskAssumption, FS_EmptySet, FS_CardinalityType
<1>14. NR_BUFFERS = Cardinality(Unused) + Cardinality(Used)
  <2>1. Cardinality(Unused \cup Used) = Cardinality(Unused) + Cardinality(Used) - Cardinality(Unused \cap Used)
    BY <1>8, <1>10, FS_Union
  <2>2. Cardinality(Unused \cap Used) = 0
    BY <1>11, <1>13
  <2>3. Cardinality(Unused \cup Used) = NR_BUFFERS
    BY <1>11, <1>12
  <2> QED
    BY <1>13, <2>1, <2>2, <2>3
<1> QED
  BY <1>7, <1>8, <1>9, <1>10, <1>13, <1>14

----------------------------------------------------------------------------
\* NoWriteForgotten, of one step.
LEMMA NewestHolds ==
    ASSUME Sound, DataSound, Sound', WRITE \notin Failures, [Next]_vars
    PROVE  [\A blk \in Block : Newest(blk) <= Newest(blk)']_vars
BY StepKeepsData, NewestKept

\* So with room each step is what the theorems suppose.
LEMMA RoomEnds ==
    ASSUME Sound, DataSound, Roomy, [Next]_vars
    PROVE  ScanBreaksOff /\ Sound' /\ DataSound'
<1>1. ScanBreaksOff
  BY RoomForScan DEF ScanBreaksOff
<1> QED
  BY <1>1, StepKeepsSound, StepKeepsData

\* If every scan of getblk ends at a clean, unlocked buffer and no write fails, then the
\* chains, counts and locks fit, and a buffer that bread returned stays valid and keeps
\* its block until its holder's brelse, over all its sleeps (buffer.c:176-200: b_uptodate
\* is tested once, and nothing tests it again).
THEOREM CacheTheorem ==
    ASSUME WRITE \notin Failures
    PROVE  Spec /\ ScansEnd => []CacheSound
<1>1. Init => Sound /\ DataSound
  BY InitSound, InitData
<1>2. Sound /\ DataSound /\ [Next]_vars /\ [ScanBreaksOff]_vars => (Sound /\ DataSound)'
  BY StepKeepsSound, StepKeepsData
<1>3. Sound /\ DataSound => CacheSound
  BY DataMeans
<1> QED
  BY <1>1, <1>2, <1>3, PTL DEF Spec, ScansEnd

\* Under the same conditions no step loses the newest version of a block: it stays in a
\* valid buffer until it is on the disk, although getblk's loop that would write a dirty
\* buffer before it is used again is commented out (buffer.c:154-160).
THEOREM NoWriteForgottenTheorem ==
    ASSUME WRITE \notin Failures
    PROVE  Spec /\ ScansEnd => NoWriteForgotten
<1>1. Init => Sound /\ DataSound
  BY InitSound, InitData
<1>2. Sound /\ DataSound /\ [Next]_vars /\ [ScanBreaksOff]_vars => (Sound /\ DataSound)'
  BY StepKeepsSound, StepKeepsData
<1>3. Sound /\ DataSound /\ Sound' /\ [Next]_vars => [\A blk \in Block : Newest(blk) <= Newest(blk)']_vars
  BY NewestHolds
<1> QED
  BY <1>1, <1>2, <1>3, PTL DEF Spec, ScansEnd, NoWriteForgotten

\* In a cache with a buffer for each task and for each block that is written, whatever
\* requests fail, getblk's loop over the free list never runs to the end of the list
\* with only dirty or locked buffers seen (buffer.c:133-143). So what the theorems above
\* suppose of the scans is so.
THEOREM ScansEndTheorem ==
    ASSUME Roomy
    PROVE  Spec => []Sound /\ ScansEnd
<1>1. Init => Sound /\ DataSound
  BY InitSound, InitData
<1>2. Sound /\ DataSound /\ [Next]_vars => (Sound /\ DataSound)' /\ [ScanBreaksOff]_vars
  BY RoomEnds
<1> QED
  BY <1>1, <1>2, PTL DEF Spec, ScansEnd

\* The conclusions for such a cache, with nothing supposed of its behaviours.
THEOREM RoomyCacheTheorem ==
    ASSUME Roomy
    PROVE  Spec => /\ [](Consistent /\ HeldIdentity /\ NoLostBuffer)
                   /\ []CleanMatchesDisk
                   /\ RequestLayer
BY ScansEndTheorem, BookkeepingTheorem, CleanTheorem, RequestLayerTheorem, PTL

\* And, if no write fails, what the buffers hold.
THEOREM RoomyDataTheorem ==
    ASSUME Roomy, WRITE \notin Failures
    PROVE  Spec => []CacheSound /\ NoWriteForgotten
BY ScansEndTheorem, CacheTheorem, NoWriteForgottenTheorem, PTL
=============================================================================
