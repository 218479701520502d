--------------------------- MODULE HdDriverProofs ---------------------------
(***************************************************************************)
(* Theorems about HdDriver for every set of buffers, every partition table *)
(* and geometry and any number of errors: driver and drive stay in step,   *)
(* a write lands where it belongs, and a request that ends with an error   *)
(* reached the end of its device.                                          *)
(***************************************************************************)
EXTENDS HdDriver, CommonLemmas

----------------------------------------------------------------------------
\* The invariant, as a predicate of the driver's state s (Here, or what a handler
\* has made of it) and of the disk dk.

BufferHead == [lock : BOOLEAN, uptodate : BOOLEAN, dirty : BOOLEAN, data : Content \X Content]
Drive  == [op : {"idle", "read_intr", "write_intr"}, lba : Sector, left : 0 .. 2, data : Content]
Driver == [chain : Seq(Request), do_hd : {NoHandler, "read_intr", "write_intr"},
           buf : [Buffer -> BufferHead], drive : Drive, wild : BOOLEAN]

\* The block that b holds lies in its device.
Whole(b) == 2 * Place[b].block + 2 <= Hd[Place[b].dev].nr

\* A request stands at a sector of its buffer's block.
Fits(r) == /\ r.dev = Place[r.bh].dev
           /\ r.at + r.nr_sectors = 2 /\ r.sector = 2 * Place[r.bh].block + r.at

\* Only the first request has been begun, and no two are for one buffer.
Queued(c) == /\ \A i \in 1 .. Len(c) : Fits(c[i]) /\ (i # 1 => c[i].at = 0)
             /\ \A i, j \in 1 .. Len(c) : c[i].bh = c[j].bh => i = j

\* The buffers with a request, and those alone, are locked.
Locked(c, heads) == \A b \in Buffer : heads[b].lock <=> \E i \in 1 .. Len(c) : c[i].bh = b

\* The drive does not run past the end of the disk.
OnDisk(d) == d.op # "idle" => d.left \in 1 .. 2 /\ d.lba + d.left <= DiskSize

Sane(s) == /\ s \in Driver
           /\ Queued(s.chain) /\ Locked(s.chain, s.buf) /\ OnDisk(s.drive)
           /\ \A b \in Buffer : s.buf[b].uptodate => Whole(b)

\* do_hd_request has looked at the first request.
Settled(s) == IF s.chain = <<>> THEN s.do_hd = NoHandler ELSE Whole(s.chain[1].bh)

\* While no write has failed: what a buffer has of its block is what the disk has, if
\* nobody has changed it or has asked for it; and the sectors that the first request
\* has done are the same in the buffer and on the disk.
Same(s, dk, b, i) == s.buf[b].data[i + 1] = dk[Home(b, i)]
Agrees(s, dk) == \A b \in Buffer : s.buf[b].uptodate /\ ~s.buf[b].lock /\ ~s.buf[b].dirty =>
                                      Same(s, dk, b, 0) /\ Same(s, dk, b, 1)
Begun(s, dk) == s.chain # <<>> /\ s.chain[1].at = 1 => Same(s, dk, s.chain[1].bh, 0)

\* The drive is at the first request's place, and has the sector that is to be written.
Follows(s) ==
    IF s.chain = <<>> THEN s.drive = Idle /\ s.do_hd = NoHandler
    ELSE LET r == s.chain[1] IN
         /\ s.do_hd = Handler(r.cmd) /\ s.drive.op = s.do_hd
         /\ s.drive.lba = Hd[r.dev].start + r.sector
         /\ s.drive.left = r.nr_sectors
         /\ r.cmd = WRITE => s.drive.data = s.buf[r.bh].data[r.at + 1]

Synced(s, dk) == ~s.wild /\ Agrees(s, dk) /\ Begun(s, dk) /\ Follows(s)

Inv == /\ Sane(Here) /\ Settled(Here)
       /\ disk \in [Sector -> Content] /\ faults \in [Cmd -> 0 .. MaxFaults]
       /\ WritesGood => Synced(Here, disk)

----------------------------------------------------------------------------
\* Places on the disk.

\* hd_out's cylinder, head and sector are those of the sector that was asked for, whatever
\* the geometry.
LEMMA LbaOfChs == \A l \in Nat : Lba(Chs(l)) = l
<1> SUFFICES ASSUME NEW l \in Nat PROVE Lba(Chs(l)) = l
  OBVIOUS
<1>0. SectCount \in Nat \ {0} /\ HeadCount \in Nat \ {0}
  BY GeometryAssumption
<1> DEFINE q == l \div SectCount
           c == q \div HeadCount
<1>1. l = q * SectCount + (l % SectCount) /\ q \in Nat /\ l % SectCount \in 0 .. SectCount - 1
  BY <1>0
<1>2. Lba(Chs(l)) = (c * HeadCount + (q % HeadCount)) * SectCount + ((l % SectCount) + 1) - 1
  BY DEF Lba, Chs
<1> HIDE DEF q
<1>3. q = c * HeadCount + (q % HeadCount) /\ c \in Nat /\ q % HeadCount \in 0 .. HeadCount - 1
  BY <1>0, <1>1
<1> HIDE DEF c
<1>4. Lba(Chs(l)) = q * SectCount + ((l % SectCount) + 1) - 1
  BY <1>2, <1>3
<1>5. \A x, y \in Int : x + (y + 1) - 1 = x + y
  OBVIOUS
<1>6. q * SectCount \in Int /\ l % SectCount \in Int
  BY <1>0, <1>1
<1> QED
  BY <1>1, <1>4, <1>5, <1>6

\* What the constants are.
LEMMA Constants ==
    /\ READ = 0 /\ WRITE = 1 /\ Handler(READ) = "read_intr" /\ Handler(WRITE) = "write_intr"
    /\ \A b \in Buffer : /\ Place[b].dev \in Part /\ Place[b].block \in Nat
                         /\ Hd[Place[b].dev].start \in Nat /\ Hd[Place[b].dev].nr \in Nat
    /\ DiskSize \in Nat \ {0} /\ MaxWrites \in Nat /\ MaxFaults \in Nat
    /\ NoData \in Content /\ Idle \in Drive /\ OnDisk(Idle)
<1>1. \A b \in Buffer : Place[b].dev \in Part /\ Place[b].block \in Nat
  BY PlaceAssumption
<1>2. DiskSize \in Nat \ {0} /\ MaxWrites \in Nat /\ MaxFaults \in Nat
  BY GeometryAssumption, BoundsAssumption
<1>3. 0 \in Sector
  BY <1>2 DEF Sector
<1> QED
  BY <1>1, <1>2, <1>3, HdAssumption DEF READ, WRITE, Handler, Content, NoData, Idle, Drive, OnDisk

\* A block that lies in its device has its sectors on the disk, and they are its own.
LEMMA Homes ==
    /\ \A b \in Buffer : Whole(b) =>
          Home(b, 0) \in Sector /\ Home(b, 1) \in Sector /\ Home(b, 1) = Home(b, 0) + 1
    /\ \A b, c \in Buffer : Whole(b) /\ Whole(c) /\ b # c =>
          \A i, j \in {0, 1} : Home(b, i) # Home(c, j)
<1>1. ASSUME NEW b \in Buffer, Whole(b)
      PROVE  Home(b, 0) \in Sector /\ Home(b, 1) \in Sector /\ Home(b, 1) = Home(b, 0) + 1
  <2>1. PICK d, k : d = Place[b].dev /\ k = Place[b].block
    OBVIOUS
  <2>2. d \in Part /\ k \in Nat
    BY <2>1, Constants
  <2>3. PICK s, n : s = Hd[d].start /\ n = Hd[d].nr
    OBVIOUS
  <2>4. s \in Nat /\ n \in Nat /\ s + n <= DiskSize /\ 2 * k + 2 <= n
    BY <1>1, <2>1, <2>2, <2>3, HdAssumption DEF Whole
  <2>5. Home(b, 0) = s + 2 * k + 0 /\ Home(b, 1) = s + 2 * k + 1
    BY <2>1, <2>3 DEF Home
  <2>6. DiskSize \in Nat
    BY Constants
  <2> QED
    BY <2>2, <2>4, <2>5, <2>6 DEF Sector
<1>2. ASSUME NEW b \in Buffer, NEW c \in Buffer, Whole(b), Whole(c), b # c, NEW i \in {0, 1}, NEW j \in {0, 1},
             Home(b, i) = Home(c, j)
      PROVE  FALSE
  <2>1. PICK d, k, e, m : d = Place[b].dev /\ k = Place[b].block /\ e = Place[c].dev /\ m = Place[c].block
    OBVIOUS
  <2>2. d \in Part /\ k \in Nat /\ e \in Part /\ m \in Nat
    BY <2>1, Constants
  <2>3. PICK s, n, t, o : s = Hd[d].start /\ n = Hd[d].nr /\ t = Hd[e].start /\ o = Hd[e].nr
    OBVIOUS
  <2>4. s \in Nat /\ n \in Nat /\ t \in Nat /\ o \in Nat /\ 2 * k + 2 <= n /\ 2 * m + 2 <= o
    BY <1>2, <2>1, <2>2, <2>3, HdAssumption DEF Whole
  <2>5. s + 2 * k + i = t + 2 * m + j
    BY <1>2, <2>1, <2>3 DEF Home
  <2>6. CASE d = e
    <3>1. s = t
      BY <2>3, <2>6
    <3>2. k = m
      BY <2>2, <2>4, <2>5, <3>1
    <3>3. Place[b] \in [dev : Part, block : Nat] /\ Place[c] \in [dev : Part, block : Nat]
      BY PlaceAssumption
    <3>4. \A x, y \in [dev : Part, block : Nat] : x.dev = y.dev /\ x.block = y.block => x = y
      OBVIOUS
    <3>5. Place[b].dev = Place[c].dev /\ Place[b].block = Place[c].block
      BY <2>1, <2>6, <3>2
    <3>6. Place[b] = Place[c]
      BY <3>3, <3>4, <3>5
    <3> QED
      BY <1>2, <3>6, PlaceAssumption
  <2>7. CASE d # e
    <3>1. s + n <= t \/ t + o <= s
      BY <2>2, <2>3, <2>7, HdAssumption
    <3> QED
      BY <2>2, <2>4, <2>5, <3>1
  <2> QED
    BY <2>6, <2>7
<1> QED
  BY <1>1, <1>2

----------------------------------------------------------------------------
\* do_hd_request.

\* The drive d after the command of r, where v is the sector that a write begins with.
Started(d, r, v) ==
    IF d.op = "idle"
    THEN [op |-> Handler(r.cmd), lba |-> Hd[r.dev].start + r.sector, left |-> r.nr_sectors,
          data |-> IF r.cmd = WRITE THEN v ELSE NoData]
    ELSE IF r.cmd = WRITE /\ d.op = "write_intr" /\ d.data = NoData THEN [d EXCEPT !.data = v] ELSE d

\* The buffer of a request that do_hd_request refuses.
Refused(h) == Finished(h, FALSE)

\* t is what is left of s after the first n requests were refused and the next one
\* was started.
Restarted(s, t, n) ==
    /\ \A i \in 1 .. n : ~InDevice(s.chain[i])
    /\ t.chain = SubSeq(s.chain, n + 1, Len(s.chain))
    /\ t.buf = [b \in Buffer |-> IF \E i \in 1 .. n : s.chain[i].bh = b THEN Refused(s.buf[b])
                                                                       ELSE s.buf[b]]
    /\ t.wild = s.wild
    /\ n = Len(s.chain) => t.do_hd = NoHandler /\ t.drive = s.drive
    /\ n < Len(s.chain) =>
          LET r == s.chain[n + 1]
          IN  /\ InDevice(r) /\ t.do_hd = Handler(r.cmd)
              /\ t.drive = Started(s.drive, r, t.buf[r.bh].data[r.at + 1])

\* What a state of the driver has in it.
LEMMA DriverParts ==
    ASSUME NEW s \in Driver
    PROVE  /\ s.chain \in Seq(Request) /\ Len(s.chain) \in Nat /\ DOMAIN s.chain = 1 .. Len(s.chain)
           /\ \A i \in 1 .. Len(s.chain) : s.chain[i] \in Request
           /\ s.chain = <<>> <=> Len(s.chain) = 0
           /\ s.do_hd \in {NoHandler, "read_intr", "write_intr"}
           /\ s.buf \in [Buffer -> BufferHead] /\ s.drive \in Drive /\ s.wild \in BOOLEAN
<1>1. s.chain \in Seq(Request)
  BY DEF Driver
<1> QED
  BY <1>1, LenProperties, ElementOfSeq, EmptySeq DEF Driver

\* t has the fields of a state of the driver.
AsDriver(t) == [chain |-> t.chain, do_hd |-> t.do_hd, buf |-> t.buf, drive |-> t.drive, wild |-> t.wild]

\* hd_out and port_write give the drive the command of r, if it is idle.
LEMMA CommandGiven ==
    ASSUME NEW s \in Driver, NEW r \in Request, Hd[r.dev].start \in Nat,
           NEW t, t = IF r.cmd = WRITE THEN PortWrite(HdOut(s, r), r) ELSE HdOut(s, r)
    PROVE  /\ t.chain = s.chain /\ t.buf = s.buf /\ t.wild = s.wild /\ t.do_hd = Handler(r.cmd)
           /\ t.drive = Started(s.drive, r, s.buf[r.bh].data[r.at + 1])
           /\ t = AsDriver(t)
<1> DEFINE l == Hd[r.dev].start + r.sector
           command == [op |-> Handler(r.cmd), lba |-> l, left |-> r.nr_sectors, data |-> NoData]
           u == HdOut(s, r)
<1>1. r.sector \in Nat /\ r.cmd \in Cmd
  BY DEF Request
<1>2. Lba(Chs(l)) = l
  BY <1>1, LbaOfChs
<1>3. /\ u.chain = s.chain /\ u.buf = s.buf /\ u.wild = s.wild /\ u.do_hd = Handler(r.cmd)
      /\ u.drive = (IF s.drive.op = "idle" THEN command ELSE s.drive) 
      /\ u = AsDriver(u)
  <2>2. u = [s EXCEPT !.do_hd = Handler(r.cmd), !.drive = IF s.drive.op = "idle" THEN command ELSE s.drive]
    BY <1>2 DEF HdOut
  <2> HIDE DEF u, command
  <2>3. PICK h, d : h = Handler(r.cmd) /\ d = IF s.drive.op = "idle" THEN command ELSE s.drive
    OBVIOUS
  <2>4. u = [s EXCEPT !.do_hd = h, !.drive = d]
    BY <2>2, <2>3
  <2>5. PICK w : w = u
    OBVIOUS
  <2>6. /\ w.chain = s.chain /\ w.buf = s.buf /\ w.wild = s.wild /\ w.do_hd = h
        /\ w.drive = d /\ w = AsDriver(w)
    BY <2>4, <2>5 DEF Driver, AsDriver
  <2> QED
    BY <2>3, <2>5, <2>6
<1> DEFINE v == s.buf[r.bh].data[r.at + 1]
<1>4. s.drive \in Drive
  BY DriverParts
<1>5. CASE r.cmd = WRITE
  <2>1. t = PortWrite(u, r)
    BY <1>5
  <2> HIDE DEF u
  <2>2. /\ t.chain = u.chain /\ t.buf = u.buf /\ t.wild = u.wild /\ t.do_hd = u.do_hd /\ t = AsDriver(t)
        /\ t.drive = [u.drive EXCEPT !.data = IF u.drive.op = "write_intr" /\ u.drive.data = NoData
                                              THEN u.buf[r.bh].data[r.at + 1] ELSE u.drive.data]
    BY <2>1, <1>3 DEF PortWrite, AsDriver
  <2>3. CASE s.drive.op = "idle"
    <3>1. u.drive = command /\ command.op = "write_intr" /\ command.data = NoData
      BY <1>3, <1>5, <2>3, Constants
    <3>2. t.drive = [command EXCEPT !.data = v]
      BY <1>3, <2>2, <3>1
    <3>3. t.drive = [op |-> Handler(r.cmd), lba |-> l, left |-> r.nr_sectors, data |-> v]
      BY <3>2
    <3> QED
      BY <1>3, <1>5, <2>2, <2>3, <3>3 DEF Started
  <2>4. CASE s.drive.op # "idle"
    <3>1. u.drive = s.drive
      BY <1>3, <2>4
    <3>2. t.drive = [s.drive EXCEPT !.data = IF s.drive.op = "write_intr" /\ s.drive.data = NoData
                                             THEN v ELSE s.drive.data]
      BY <1>3, <2>2, <3>1
    <3>3. [s.drive EXCEPT !.data = s.drive.data] = s.drive
      BY <1>4 DEF Drive
    <3>4. t.drive = IF s.drive.op = "write_intr" /\ s.drive.data = NoData THEN [s.drive EXCEPT !.data = v] ELSE s.drive
      BY <3>2, <3>3
    <3> QED
      BY <1>3, <1>5, <2>2, <2>4, <3>4 DEF Started
  <2> QED
    BY <2>3, <2>4
<1>6. CASE r.cmd # WRITE
  <2>1. t = u
    BY <1>6
  <2> QED
    BY <1>3, <1>6, <2>1 DEF Started
<1> QED
  BY <1>5, <1>6

\* The end of a list from behind its first n members on.
LEMMA Rest ==
    ASSUME NEW S, NEW c \in Seq(S), NEW n \in 0 .. Len(c), NEW d, d = SubSeq(c, n + 1, Len(c))
    PROVE  /\ d \in Seq(S) /\ Len(d) = Len(c) - n /\ DOMAIN d = 1 .. Len(d)
           /\ \A j \in 1 .. Len(d) : n + j \in 1 .. Len(c) /\ d[j] = c[n + j]
<1>0. PICK l \in Nat : l = Len(c)
  BY LenProperties
<1>1. n + 1 \in Int /\ Len(c) \in Int /\ \A i \in n + 1 .. Len(c) : c[i] \in S
  BY <1>0, ElementOfSeq
<1>2. /\ d \in Seq(S) /\ Len(d) = IF n + 1 <= Len(c) THEN Len(c) - (n + 1) + 1 ELSE 0
      /\ \A j \in 1 .. Len(c) - (n + 1) + 1 : d[j] = c[n + 1 + j - 1]
  BY <1>1, SubSeqProperties
<1>3. Len(d) = l - n /\ \A j \in 1 .. l - n : d[j] = c[n + 1 + j - 1]
  BY <1>0, <1>2
<1>4. \A j \in 1 .. l - n : n + 1 + j - 1 = n + j /\ n + j \in 1 .. l
  BY <1>0
<1> QED
  BY <1>0, <1>2, <1>3, <1>4, LenProperties

\* do_hd_request refuses requests until it finds one in its device, and starts that.
LEMMA RestartForm ==
    ASSUME NEW s \in Driver, Queued(s.chain), NEW t, t = DoHdRequest(s)
    PROVE  t = AsDriver(t) /\ \E n \in 0 .. Len(s.chain) : Restarted(s, t, n)
<1> DEFINE c == s.chain
           good == {i \in DOMAIN c : InDevice(c[i])}
           n == IF good = {} THEN Len(c) ELSE Min(good) - 1
           refused == {c[i].bh : i \in 1 .. n}
           u == [s EXCEPT !.chain = SubSeq(@, n + 1, Len(@)),
                          !.buf   = [b \in Buffer |-> IF b \in refused THEN Finished(@[b], FALSE)
                                                                       ELSE @[b]]]
<1>1. /\ c \in Seq(Request) /\ Len(c) \in Nat /\ DOMAIN c = 1 .. Len(c)
      /\ \A i \in 1 .. Len(c) : c[i] \in Request
      /\ s.buf \in [Buffer -> BufferHead] /\ s.drive \in Drive /\ s.wild \in BOOLEAN
  BY DriverParts
<1>2. t = IF u.chain = <<>> THEN [u EXCEPT !.do_hd = NoHandler]
          ELSE LET r == Head(u.chain) IN
               IF r.cmd = WRITE THEN PortWrite(HdOut(u, r), r) ELSE HdOut(u, r)
  BY DEF DoHdRequest
<1>3. u.chain = SubSeq(c, n + 1, Len(c))
  BY DEF Driver
<1>4. u.buf = [b \in Buffer |-> IF b \in refused THEN Refused(s.buf[b]) ELSE s.buf[b]]
  BY DEF Driver, Refused
<1>5. u.drive = s.drive /\ u.wild = s.wild /\ u.do_hd = s.do_hd
  BY DEF Driver
<1>8a. u.chain \in Seq(Request) /\ u.buf \in [Buffer -> BufferHead] => u \in Driver
  <2>1. \A x \in Seq(Request), y \in [Buffer -> BufferHead] : [s EXCEPT !.chain = x, !.buf = y] \in Driver
    BY DEF Driver
  <2>2. PICK x, y : u = [s EXCEPT !.chain = x, !.buf = y]
    OBVIOUS
  <2> HIDE DEF u
  <2>3. u.chain = x /\ u.buf = y
    BY <2>2 DEF Driver
  <2> QED
    BY <2>1, <2>2, <2>3
<1> HIDE DEF u
<1>6. /\ n \in 0 .. Len(c) /\ \A i \in 1 .. n : ~InDevice(c[i])
      /\ n < Len(c) => InDevice(c[n + 1])
  <2>1. CASE good = {}
    BY <1>1, <2>1
  <2>2. CASE good # {}
    <3>1. good \in SUBSET Nat
      BY <1>1
    <3>2. Min(good) \in good /\ \A i \in good : Min(good) <= i
      BY <2>2, <3>1, MinOf
    <3>3. Min(good) \in 1 .. Len(c) /\ InDevice(c[Min(good)]) /\ n = Min(good) - 1
      BY <1>1, <2>2, <3>2
    <3>3a. PICK k : k = Min(good)
      OBVIOUS
    <3>4. k \in 1 .. Len(c) /\ InDevice(c[k]) /\ n = k - 1 /\ \A i \in good : k <= i
      BY <3>2, <3>3, <3>3a
    <3> HIDE DEF n
    <3>5. \A i \in 1 .. k - 1 : i \in 1 .. Len(c) /\ ~(k <= i)
      BY <1>1, <3>4
    <3>6. \A i \in 1 .. k - 1 : ~InDevice(c[i])
      BY <1>1, <3>4, <3>5
    <3>7. n + 1 = k /\ n \in 0 .. Len(c)
      BY <1>1, <3>4
    <3> QED
      BY <3>4, <3>6, <3>7
  <2> QED
    BY <2>1, <2>2
<1> HIDE DEF n
<1>7. /\ u.chain \in Seq(Request) /\ Len(u.chain) = Len(c) - n
      /\ \A j \in 1 .. Len(u.chain) : n + j \in 1 .. Len(c) /\ u.chain[j] = c[n + j]
  BY <1>1, <1>3, <1>6, Rest
<1>8. u \in Driver
  <2>1. u.buf \in [Buffer -> BufferHead]
    <3> DEFINE F(b) == IF b \in refused THEN Refused(s.buf[b]) ELSE s.buf[b]
    <3>1. \A h \in BufferHead : Refused(h) \in BufferHead
      BY DEF Refused, Finished, BufferHead
    <3>2. \A b \in Buffer : s.buf[b] \in BufferHead
      BY <1>1
    <3>3. \A b \in Buffer : F(b) \in BufferHead
      BY <3>1, <3>2
    <3>4. u.buf = [b \in Buffer |-> F(b)]
      BY <1>4
    <3> HIDE DEF F
    <3> QED
      BY <3>3, <3>4
  <2> QED
    BY <1>7, <1>8a, <2>1
<1>9. u.buf = [b \in Buffer |-> IF \E i \in 1 .. n : s.chain[i].bh = b THEN Refused(s.buf[b])
                                                                     ELSE s.buf[b]]
  <2> DEFINE F(b) == IF b \in refused THEN Refused(s.buf[b]) ELSE s.buf[b]
             G(b) == IF \E i \in 1 .. n : s.chain[i].bh = b THEN Refused(s.buf[b]) ELSE s.buf[b]
  <2>1. u.buf = [b \in Buffer |-> F(b)]
    BY <1>4
  <2>2. \A b \in Buffer : b \in refused <=> \E i \in 1 .. n : s.chain[i].bh = b
    BY DEF refused
  <2>3. \A b \in Buffer : F(b) = G(b)
    <3> HIDE DEF refused
    <3> QED
      BY <2>2
  <2>4. u.buf = [b \in Buffer |-> G(b)]
    <3> HIDE DEF F, G
    <3> QED
      BY <2>1, <2>3
  <2> QED
    BY <2>4
<1> HIDE DEF refused, good
<1>10. CASE n = Len(c)
  <2>1. u.chain = <<>>
    BY <1>1, <1>7, <1>10, EmptySeq
  <2>2. t = [u EXCEPT !.do_hd = NoHandler]
    BY <1>2, <2>1
  <2>3. t.chain = u.chain /\ t.buf = u.buf /\ t.wild = u.wild /\ t.drive = u.drive /\ t.do_hd = NoHandler
        /\ t = AsDriver(t)
    BY <1>8, <2>2 DEF Driver, AsDriver
  <2>4. Restarted(s, t, n)
    <3>1. ~(n < Len(s.chain))
      BY <1>1, <1>10
    <3>2. t.chain = SubSeq(s.chain, n + 1, Len(s.chain)) /\ t.wild = s.wild /\ t.drive = s.drive
      BY <1>3, <1>5, <2>3
    <3> QED
      BY <1>6, <1>9, <2>3, <3>1, <3>2 DEF Restarted
  <2> QED
    BY <1>5, <1>6, <2>3, <2>4
<1>11. CASE n < Len(c)
  <2>1. u.chain # <<>> /\ 1 \in 1 .. Len(u.chain)
    BY <1>1, <1>6, <1>7, <1>11, EmptySeq
  <2>2. Head(u.chain) = c[n + 1] /\ n + 1 \in 1 .. Len(c)
    BY <1>7, <2>1, HeadTailProperties
  <2>3. PICK r : r = c[n + 1]
    OBVIOUS
  <2>4. t = IF r.cmd = WRITE THEN PortWrite(HdOut(u, r), r) ELSE HdOut(u, r)
    BY <1>2, <2>1, <2>2, <2>3
  <2>5. r \in Request /\ Hd[r.dev].start \in Nat
    <3>1. r \in Request /\ Fits(r) /\ r.bh \in Buffer
      BY <1>1, <2>2, <2>3 DEF Queued, Request
    <3> QED
      BY <3>1, Constants DEF Fits
  <2>6. /\ t.chain = u.chain /\ t.buf = u.buf /\ t.wild = u.wild /\ t.do_hd = Handler(r.cmd)
        /\ t.drive = Started(u.drive, r, u.buf[r.bh].data[r.at + 1])
        /\ t = AsDriver(t)
    BY <1>8, <2>4, <2>5, CommandGiven
  <2>7. t.drive = Started(s.drive, r, t.buf[r.bh].data[r.at + 1])
    BY <1>5, <2>6
  <2>8. Restarted(s, t, n)
    <3>1. n # Len(s.chain) /\ r = s.chain[n + 1] /\ InDevice(r)
      BY <1>1, <1>6, <1>11, <2>3
    <3>2. t.chain = SubSeq(s.chain, n + 1, Len(s.chain)) /\ t.wild = s.wild
      BY <1>3, <1>5, <2>6
    <3> QED
      BY <1>6, <1>9, <2>6, <2>7, <3>1, <3>2 DEF Restarted
  <2> QED
    BY <1>5, <1>6, <2>6, <2>8
<1> QED
  BY <1>1, <1>6, <1>10, <1>11

\* The command of a request that is not refused stays on the disk.
LEMMA StartedWell ==
    ASSUME NEW d \in Drive, OnDisk(d), NEW r \in Request, Fits(r), InDevice(r), NEW v \in Content
    PROVE  Started(d, r, v) \in Drive /\ OnDisk(Started(d, r, v)) /\ Whole(r.bh)
<1>1. /\ r.cmd \in {READ, WRITE} /\ r.dev \in Part /\ r.sector \in Nat /\ r.nr_sectors \in 1 .. 2
      /\ r.at \in 0 .. 1 /\ r.bh \in Buffer
  BY DEF Request, Cmd
<1>2. PICK k \in Nat : k = Place[r.bh].block
  BY <1>1, Constants
<1>3. PICK a, n \in Nat : a = Hd[r.dev].start /\ n = Hd[r.dev].nr /\ a + n <= DiskSize
  BY <1>1, HdAssumption
<1>4. r.dev = Place[r.bh].dev /\ r.at + r.nr_sectors = 2 /\ r.sector = 2 * k + r.at
  BY <1>2 DEF Fits
<1>5. r.sector + 2 <= n
  BY <1>3 DEF InDevice
<1>6. Whole(r.bh)
  <2>1. 2 * k + 2 <= n
    BY <1>1, <1>4, <1>5
  <2> QED
    BY <1>2, <1>3, <1>4, <2>1 DEF Whole
<1>7. a + r.sector \in Sector /\ a + r.sector + r.nr_sectors <= DiskSize
  <2>1. DiskSize \in Nat
    BY Constants
  <2> QED
    BY <1>1, <1>3, <1>4, <1>5, <2>1 DEF Sector
<1>8. CASE d.op = "idle"
  <2>1. PICK x \in Content : x = IF r.cmd = WRITE THEN v ELSE NoData
    BY Constants
  <2>2. Handler(r.cmd) \in {"read_intr", "write_intr"}
    BY <1>1, Constants
  <2>3. PICK e : e = Started(d, r, v)
    OBVIOUS
  <2>4. e = [op |-> Handler(r.cmd), lba |-> a + r.sector, left |-> r.nr_sectors, data |-> x]
    BY <1>3, <1>8, <2>1, <2>3 DEF Started
  <2>5. e \in Drive
    BY <1>1, <1>7, <2>1, <2>2, <2>4 DEF Drive
  <2>6. OnDisk(e)
    BY <1>1, <1>7, <2>4 DEF OnDisk
  <2> QED
    BY <1>6, <2>3, <2>5, <2>6
<1>9. CASE d.op # "idle"
  <2>1. [d EXCEPT !.data = v] \in Drive /\ OnDisk([d EXCEPT !.data = v])
    BY DEF Drive, OnDisk
  <2> QED
    BY <1>6, <1>9, <2>1 DEF Started
<1> QED
  BY <1>8, <1>9

\* The buffers after it: those of the refused requests, and only those, have ended.
LEMMA RestartBuf ==
    ASSUME NEW s, NEW t, NEW n, Restarted(s, t, n)
    PROVE  /\ \A i \in 1 .. n : s.chain[i].bh \in Buffer =>
                 t.buf[s.chain[i].bh] = Refused(s.buf[s.chain[i].bh])
           /\ \A b \in Buffer : (\A i \in 1 .. n : s.chain[i].bh # b) => t.buf[b] = s.buf[b]
           /\ s.buf \in [Buffer -> BufferHead] => t.buf \in [Buffer -> BufferHead]
<1> DEFINE F(b) == IF \E i \in 1 .. n : s.chain[i].bh = b THEN Refused(s.buf[b]) ELSE s.buf[b]
<1>1. t.buf = [b \in Buffer |-> F(b)]
  BY Zenon DEF Restarted
<1>2. ASSUME s.buf \in [Buffer -> BufferHead] PROVE \A b \in Buffer : F(b) \in BufferHead
  <2>1. \A h \in BufferHead : Refused(h) \in BufferHead
    BY DEF Refused, Finished, BufferHead
  <2>2. \A b \in Buffer : s.buf[b] \in BufferHead
    BY <1>2
  <2> QED
    BY <2>1, <2>2
<1>3. /\ \A b \in Buffer : t.buf[b] = F(b)
      /\ (\A b \in Buffer : F(b) \in BufferHead) => t.buf \in [Buffer -> BufferHead]
  <2> HIDE DEF F
  <2>1. PICK f : f = t.buf
    OBVIOUS
  <2>2. f = [b \in Buffer |-> F(b)]
    BY <1>1, <2>1
  <2> QED
    BY <2>1, <2>2
<1>4. \A i \in 1 .. n : s.chain[i].bh \in Buffer => F(s.chain[i].bh) = Refused(s.buf[s.chain[i].bh])
  OBVIOUS
<1>5. \A b \in Buffer : (\A i \in 1 .. n : s.chain[i].bh # b) => F(b) = s.buf[b]
  OBVIOUS
<1> HIDE DEF F
<1> QED
  BY <1>2, <1>3, <1>4, <1>5

\* do_hd_request keeps the invariant.
LEMMA RestartSane ==
    ASSUME NEW s, Sane(s), NEW t, t = DoHdRequest(s)
    PROVE  Sane(t) /\ Settled(t)
<1>0. s \in Driver /\ Queued(s.chain) /\ Locked(s.chain, s.buf) /\ OnDisk(s.drive)
  BY DEF Sane
<1>1. PICK n \in 0 .. Len(s.chain) : Restarted(s, t, n)
  BY <1>0, RestartForm
<1>2. PICK c : c = s.chain
  OBVIOUS
<1>3. PICK e : e = t.chain
  OBVIOUS
<1>4. c \in Seq(Request) /\ Len(c) \in Nat /\ (\A i \in 1 .. Len(c) : c[i] \in Request) /\ s.drive \in Drive
      /\ s.buf \in [Buffer -> BufferHead] /\ s.wild \in BOOLEAN
  BY <1>0, <1>2, DriverParts
<1>5. e = SubSeq(c, n + 1, Len(c)) /\ n \in 0 .. Len(c)
  BY <1>1, <1>2, <1>3 DEF Restarted
<1>6. /\ e \in Seq(Request) /\ Len(e) = Len(c) - n /\ DOMAIN e = 1 .. Len(e)
      /\ \A j \in 1 .. Len(e) : n + j \in 1 .. Len(c) /\ e[j] = c[n + j]
  BY <1>4, <1>5, Rest
<1>7. Queued(e)
  <2>1. \A i \in 1 .. Len(e) : Fits(e[i]) /\ (i # 1 => e[i].at = 0)
    <3> SUFFICES ASSUME NEW i \in 1 .. Len(e) PROVE Fits(e[i]) /\ (i # 1 => e[i].at = 0)
      OBVIOUS
    <3>1. n + i \in 1 .. Len(c) /\ e[i] = c[n + i] /\ (i # 1 => n + i # 1)
      BY <1>4, <1>5, <1>6
    <3> QED
      BY <1>0, <1>2, <3>1 DEF Queued
  <2>2. \A i, j \in 1 .. Len(e) : e[i].bh = e[j].bh => i = j
    <3> SUFFICES ASSUME NEW i \in 1 .. Len(e), NEW j \in 1 .. Len(e), e[i].bh = e[j].bh PROVE i = j
      OBVIOUS
    <3>1. n + i \in 1 .. Len(c) /\ n + j \in 1 .. Len(c) /\ c[n + i].bh = c[n + j].bh
      BY <1>6
    <3>2. n + i = n + j
      BY <1>0, <1>2, <3>1 DEF Queued
    <3> QED
      BY <1>4, <1>5, <3>2
  <2> QED
    BY <2>1, <2>2 DEF Queued
<1>8. \A b \in Buffer : t.buf[b] = IF \E i \in 1 .. n : c[i].bh = b THEN Refused(s.buf[b]) ELSE s.buf[b]
  <2>1. \A b \in Buffer : (\A i \in 1 .. n : c[i].bh # b) => t.buf[b] = s.buf[b]
    BY <1>1, <1>2, RestartBuf
  <2>2. \A b \in Buffer : \A i \in 1 .. n : c[i].bh = b => t.buf[b] = Refused(s.buf[b])
    BY <1>1, <1>2, RestartBuf
  <2> QED
    BY <2>1, <2>2
<1>9. \A h \in BufferHead : /\ Refused(h) \in BufferHead /\ ~Refused(h).lock
                            /\ ~Refused(h).uptodate
  BY DEF Refused, Finished, BufferHead
<1>10. Locked(e, t.buf)
  <2> SUFFICES ASSUME NEW b \in Buffer PROVE t.buf[b].lock <=> \E i \in 1 .. Len(e) : e[i].bh = b
    BY DEF Locked
  <2>1. s.buf[b].lock <=> \E i \in 1 .. Len(c) : c[i].bh = b
    BY <1>0, <1>2 DEF Locked
  <2>2. ASSUME NEW i \in 1 .. n, c[i].bh = b
        PROVE  ~t.buf[b].lock /\ \A j \in 1 .. Len(e) : e[j].bh # b
    <3>1. ~t.buf[b].lock
      <4>1. s.buf[b] \in BufferHead /\ t.buf[b] = Refused(s.buf[b])
        BY <1>4, <1>8, <2>2
      <4> QED
        BY <1>9, <4>1
    <3>2. ASSUME NEW j \in 1 .. Len(e), e[j].bh = b PROVE FALSE
      <4>1. i \in 1 .. Len(c) /\ n + j \in 1 .. Len(c) /\ c[n + j].bh = c[i].bh
        BY <1>4, <1>5, <1>6, <2>2, <3>2
      <4>2. n + j = i
        BY <1>0, <1>2, <4>1 DEF Queued
      <4> QED
        BY <1>4, <1>5, <1>6, <4>2
    <3> QED
      BY <3>1, <3>2
  <2>3. CASE \A i \in 1 .. n : c[i].bh # b
    <3>1. t.buf[b] = s.buf[b]
      BY <1>8, <2>3
    <3>2. ASSUME NEW i \in 1 .. Len(c), c[i].bh = b PROVE \E j \in 1 .. Len(e) : e[j].bh = b
      <4>1. i - n \in 1 .. Len(e) /\ n + (i - n) = i
        BY <1>4, <1>5, <1>6, <2>3, <3>2
      <4> QED
        BY <1>6, <3>2, <4>1
    <3>3. \A j \in 1 .. Len(e) : e[j].bh = b => \E i \in 1 .. Len(c) : c[i].bh = b
      BY <1>6
    <3> QED
      BY <2>1, <3>1, <3>2, <3>3
  <2> QED
    BY <2>2, <2>3
<1>11. \A b \in Buffer : t.buf[b].uptodate => Whole(b)
  <2> SUFFICES ASSUME NEW b \in Buffer, t.buf[b].uptodate PROVE Whole(b)
    OBVIOUS
  <2>1. s.buf[b] \in BufferHead
    BY <1>4
  <2>2. t.buf[b] = s.buf[b]
    <3>1. t.buf[b] # Refused(s.buf[b])
      BY <1>9, <2>1
    <3> QED
      BY <1>8, <3>1
  <2> QED
    BY <2>2 DEF Sane
<1>12. t.buf \in [Buffer -> BufferHead]
  BY <1>1, <1>4, RestartBuf
<1>13. /\ t.drive \in Drive /\ OnDisk(t.drive) /\ t.do_hd \in {NoHandler, "read_intr", "write_intr"}
       /\ IF e = <<>> THEN t.do_hd = NoHandler ELSE Whole(e[1].bh)
  <2>1. CASE n = Len(c)
    <3>1. t.do_hd = NoHandler /\ t.drive = s.drive
      BY <1>1, <1>2, <2>1 DEF Restarted
    <3>2. e = <<>>
      BY <1>4, <1>6, <2>1, EmptySeq
    <3> QED
      BY <1>0, <1>4, <3>1, <3>2
  <2>2. CASE n # Len(c)
    <3>1. n < Len(c) /\ n + 1 \in 1 .. Len(c) /\ 1 \in 1 .. Len(e)
      BY <1>4, <1>5, <1>6, <2>2
    <3>2. PICK r : r = c[n + 1]
      OBVIOUS
    <3>3. r \in Request /\ Fits(r) /\ e[1] = r
      BY <1>0, <1>2, <1>4, <1>6, <3>1, <3>2 DEF Queued
    <3>4. InDevice(r) /\ t.do_hd = Handler(r.cmd) /\ t.drive = Started(s.drive, r, t.buf[r.bh].data[r.at + 1])
      BY <1>1, <1>2, <3>1, <3>2 DEF Restarted
    <3>5. t.buf[r.bh].data[r.at + 1] \in Content
      <4>1. r.at \in 0 .. 1 /\ r.bh \in Buffer
        BY <3>3 DEF Request
      <4>2. t.buf[r.bh].data \in Content \X Content
        BY <1>12, <4>1 DEF BufferHead
      <4> QED
        BY <4>1, <4>2
    <3>6. t.do_hd \in {"read_intr", "write_intr"}
      BY <3>3, <3>4, Constants DEF Request, Cmd
    <3>7. e # <<>>
      BY <3>1
    <3> QED
      BY <1>0, <1>4, <3>3, <3>4, <3>5, <3>6, <3>7, StartedWell
  <2> QED
    BY <2>1, <2>2
<1>14. t = AsDriver(t) /\ t.wild = s.wild
  BY <1>0, <1>1, RestartForm DEF Restarted
<1>15. t \in Driver
  BY <1>3, <1>4, <1>6, <1>12, <1>13, <1>14 DEF Driver, AsDriver
<1> QED
  BY <1>3, <1>7, <1>10, <1>11, <1>13, <1>15 DEF Sane, Settled

\* While no write has failed, it starts the idle drive on what is left of the first
\* request.
LEMMA RestartSyncs ==
    ASSUME NEW s, Sane(s), NEW dk, ~s.wild, s.drive = Idle, Agrees(s, dk), Begun(s, dk),
           NEW t, t = DoHdRequest(s)
    PROVE  Synced(t, dk)
<1>0. s \in Driver /\ Queued(s.chain)
  BY DEF Sane
<1>1. PICK n \in 0 .. Len(s.chain) : Restarted(s, t, n)
  BY <1>0, RestartForm
<1>2. PICK c : c = s.chain
  OBVIOUS
<1>3. PICK e : e = t.chain
  OBVIOUS
<1>4. c \in Seq(Request) /\ Len(c) \in Nat /\ (\A i \in 1 .. Len(c) : c[i] \in Request)
      /\ s.buf \in [Buffer -> BufferHead]
  BY <1>0, <1>2, DriverParts
<1>5. e = SubSeq(c, n + 1, Len(c)) /\ n \in 0 .. Len(c)
  BY <1>1, <1>2, <1>3 DEF Restarted
<1>6. /\ e \in Seq(Request) /\ Len(e) = Len(c) - n
      /\ \A j \in 1 .. Len(e) : n + j \in 1 .. Len(c) /\ e[j] = c[n + j]
  BY <1>4, <1>5, Rest
<1>7. ~t.wild
  BY <1>1 DEF Restarted
<1>8. \A b \in Buffer : t.buf[b] = IF \E i \in 1 .. n : c[i].bh = b THEN Refused(s.buf[b]) ELSE s.buf[b]
  <2>1. \A b \in Buffer : (\A i \in 1 .. n : c[i].bh # b) => t.buf[b] = s.buf[b]
    BY <1>1, <1>2, RestartBuf
  <2>2. \A b \in Buffer : \A i \in 1 .. n : c[i].bh = b => t.buf[b] = Refused(s.buf[b])
    BY <1>1, <1>2, RestartBuf
  <2> QED
    BY <2>1, <2>2
<1>9. Agrees(t, dk)
  <2> SUFFICES ASSUME NEW b \in Buffer, t.buf[b].uptodate, ~t.buf[b].lock, ~t.buf[b].dirty
               PROVE  Same(t, dk, b, 0) /\ Same(t, dk, b, 1)
    BY DEF Agrees
  <2>1. s.buf[b] \in BufferHead
    BY <1>4
  <2>2. ~Refused(s.buf[b]).uptodate
    BY <2>1 DEF Refused, Finished, BufferHead
  <2>3. t.buf[b] = s.buf[b]
    BY <1>8, <2>2
  <2> QED
    BY <2>3 DEF Agrees, Same
<1>10. Begun(t, dk)
  <2> SUFFICES ASSUME e # <<>>, e[1].at = 1 PROVE Same(t, dk, e[1].bh, 0)
    BY <1>3 DEF Begun
  <2>1. 1 \in 1 .. Len(e)
    BY <1>4, <1>5, <1>6, EmptySeq
  <2>2. n + 1 \in 1 .. Len(c) /\ e[1] = c[n + 1]
    BY <1>6, <2>1
  <2>3. n = 0
    <3>1. n + 1 = 1
      BY <1>0, <1>2, <2>2 DEF Queued
    <3> QED
      BY <1>4, <1>5, <3>1
  <2>4. c # <<>> /\ e[1] = c[1] /\ e[1].bh \in Buffer
    <3>1. c[1] \in Request /\ c # <<>>
      BY <1>4, <2>2, <2>3
    <3> QED
      BY <2>2, <2>3, <3>1 DEF Request
  <2>5. t.buf[e[1].bh] = s.buf[e[1].bh]
    BY <1>8, <2>3, <2>4
  <2>6. Same(s, dk, c[1].bh, 0)
    BY <1>2, <2>4 DEF Begun
  <2> QED
    BY <2>4, <2>5, <2>6 DEF Same
<1>11. Follows(t)
  <2>1. CASE n = Len(c)
    <3>1. e = <<>>
      BY <1>4, <1>6, <2>1, EmptySeq
    <3> QED
      BY <1>1, <1>2, <1>3, <2>1, <3>1 DEF Restarted, Follows
  <2>2. CASE n # Len(c)
    <3>1. n < Len(c) /\ n + 1 \in 1 .. Len(c) /\ 1 \in 1 .. Len(e)
      BY <1>4, <1>5, <1>6, <2>2
    <3>2. PICK r : r = c[n + 1]
      OBVIOUS
    <3>3. r \in Request /\ e[1] = r /\ e # <<>>
      BY <1>4, <1>6, <3>1, <3>2
    <3>4. PICK v : v = t.buf[r.bh].data[r.at + 1]
      OBVIOUS
    <3>5. t.do_hd = Handler(r.cmd) /\ t.drive = Started(Idle, r, v)
      BY <1>1, <1>2, <3>1, <3>2, <3>4 DEF Restarted
    <3>6. Idle.op = "idle"
      BY DEF Idle
    <3>7. t.drive = [op |-> Handler(r.cmd), lba |-> Hd[r.dev].start + r.sector, left |-> r.nr_sectors,
                     data |-> IF r.cmd = WRITE THEN v ELSE NoData]
      BY <3>5, <3>6 DEF Started
    <3>8. /\ t.drive.op = t.do_hd /\ t.drive.lba = Hd[r.dev].start + r.sector /\ t.drive.left = r.nr_sectors
          /\ r.cmd = WRITE => t.drive.data = v
      BY <3>5, <3>7
    <3> QED
      BY <1>3, <3>3, <3>4, <3>5, <3>8 DEF Follows
  <2> QED
    BY <2>1, <2>2
<1> QED
  BY <1>7, <1>9, <1>10, <1>11 DEF Synced

\* A buffer that it unlocks had a request that left its device.
LEMMA RestartRefuses ==
    ASSUME NEW s, Sane(s), NEW t, t = DoHdRequest(s), NEW b \in Buffer, t.buf[b] # s.buf[b]
    PROVE  \E i \in 1 .. Len(s.chain) : s.chain[i].bh = b /\ ~InDevice(s.chain[i])
<1>0. s \in Driver /\ Queued(s.chain)
  BY DEF Sane
<1>1. PICK n \in 0 .. Len(s.chain) : Restarted(s, t, n)
  BY <1>0, RestartForm
<1>2. PICK i \in 1 .. n : s.chain[i].bh = b
  BY <1>1, RestartBuf
<1>3. Len(s.chain) \in Nat
  BY <1>0, DriverParts
<1>4. i \in 1 .. Len(s.chain) /\ ~InDevice(s.chain[i])
  <2>1. ~InDevice(s.chain[i])
    BY <1>1, <1>2, Zenon DEF Restarted
  <2> QED
    BY <1>1, <1>2, <1>3, <2>1
<1> QED
  BY <1>2, <1>4

----------------------------------------------------------------------------
\* The pieces of the handlers.

\* Changes of all but the requests and the locks.
LEMMA StaysSane ==
    ASSUME NEW s, Sane(s), NEW t, t = AsDriver(t), t.chain = s.chain, t.wild \in BOOLEAN,
           t.do_hd \in {NoHandler, "read_intr", "write_intr"}, t.drive \in Drive, OnDisk(t.drive),
           t.buf \in [Buffer -> BufferHead],
           \A b \in Buffer : t.buf[b].lock = s.buf[b].lock /\ (t.buf[b].uptodate => s.buf[b].uptodate)
    PROVE  Sane(t)
<1>1. s.chain \in Seq(Request)
  BY DEF Sane, Driver
<1>2. t \in Driver
  BY <1>1 DEF Driver, AsDriver
<1> QED
  BY <1>2 DEF Sane, Locked

\* The first request.
LEMMA FirstRequest ==
    ASSUME NEW s, Sane(s), s.chain # <<>>
    PROVE  /\ Head(s.chain) = s.chain[1] /\ 1 \in 1 .. Len(s.chain) /\ Len(s.chain) \in Nat \ {0}
           /\ s.chain[1] \in Request /\ Fits(s.chain[1])
           /\ s.chain[1].bh \in Buffer /\ s.chain[1].at \in 0 .. 1 /\ s.chain[1].nr_sectors \in 1 .. 2
           /\ s.chain[1].nr_sectors > 1 <=> s.chain[1].at = 0
           /\ s.buf[s.chain[1].bh] \in BufferHead /\ s.buf[s.chain[1].bh].lock
<1>1. /\ s \in Driver /\ s.chain \in Seq(Request) /\ Len(s.chain) \in Nat /\ s.buf \in [Buffer -> BufferHead]
      /\ \A i \in 1 .. Len(s.chain) : s.chain[i] \in Request
  BY DriverParts DEF Sane
<1>2. Len(s.chain) \in Nat \ {0} /\ 1 \in 1 .. Len(s.chain)
  BY <1>1, EmptySeq
<1>3. Head(s.chain) = s.chain[1] /\ s.chain[1] \in Request /\ Fits(s.chain[1])
  BY <1>1, <1>2, HeadTailProperties DEF Sane, Queued
<1>4. PICK r : r = s.chain[1]
  OBVIOUS
<1>5. r.bh \in Buffer /\ r.at \in 0 .. 1 /\ r.nr_sectors \in 1 .. 2 /\ r.at + r.nr_sectors = 2
  BY <1>3, <1>4 DEF Request, Fits
<1>6. r.nr_sectors > 1 <=> r.at = 0
  BY <1>5
<1>7. s.buf[r.bh].lock
  BY <1>2, <1>4, <1>5 DEF Sane, Locked
<1> QED
  BY <1>1, <1>2, <1>3, <1>4, <1>5, <1>6, <1>7

\* One sector of a buffer.
LEMMA DataPut ==
    ASSUME NEW d \in Content \X Content, NEW k \in 1 .. 2, NEW v \in Content,
           NEW e, e = [d EXCEPT ![k] = v]
    PROVE  e \in Content \X Content /\ e[k] = v /\ \A j \in 1 .. 2 : j # k => e[j] = d[j]
OBVIOUS

\* A transfer without error.
LEMMA AdvancedWell ==
    ASSUME NEW d \in Drive, OnDisk(d), d.op # "idle"
    PROVE  /\ Advanced(d) \in Drive /\ OnDisk(Advanced(d))
           /\ d.left = 1 => Advanced(d) = Idle
           /\ d.left = 2 => /\ Advanced(d).op = d.op /\ Advanced(d).lba = d.lba + 1
                            /\ Advanced(d).left = 1 /\ Advanced(d).data = NoData
<1>1. d.left \in 1 .. 2 /\ d.lba + d.left <= DiskSize /\ d.lba \in Sector /\ DiskSize \in Nat \ {0} /\ d.lba \in Nat
  BY Constants DEF OnDisk, Drive, Sector
<1>2. CASE d.left = 1
  BY <1>2, Constants DEF Advanced
<1>3. CASE d.left = 2
  <2>1. PICK e : e = Advanced(d)
    OBVIOUS
  <2>2. e = [d EXCEPT !.lba = d.lba + 1, !.left = 1, !.data = NoData]
    BY <1>3, <2>1 DEF Advanced
  <2>3. e.op = d.op /\ e.lba = d.lba + 1 /\ e.left = 1 /\ e.data = NoData
    BY <2>2 DEF Drive
  <2>4. d.lba + 1 \in Sector /\ d.lba + 1 + 1 <= DiskSize
    BY <1>1, <1>3 DEF Sector
  <2>5. e \in Drive
    <3>1. PICK l \in Sector : l = d.lba + 1
      BY <2>4
    <3>2. e = [d EXCEPT !.lba = l, !.left = 1, !.data = NoData] /\ 1 \in 0 .. 2 /\ NoData \in Content
      BY <2>2, <3>1, Constants
    <3> QED
      BY <3>2 DEF Drive
  <2>6. OnDisk(e)
    BY <2>3, <2>4 DEF OnDisk
  <2> QED
    BY <1>3, <2>1, <2>3, <2>5, <2>6
<1> QED
  BY <1>1, <1>2, <1>3

\* port_write in a handler.
PortsOut(s, t, r) ==
    /\ Sane(t)
    /\ t.chain = s.chain /\ t.buf = s.buf /\ t.wild = s.wild /\ t.do_hd = s.do_hd
    /\ t.drive = IF s.drive.op = "write_intr" /\ s.drive.data = NoData
                 THEN [s.drive EXCEPT !.data = s.buf[r.bh].data[r.at + 1]] ELSE s.drive

\* It gives the drive a sector, if the drive waits for one.
LEMMA PortWriteWell ==
    ASSUME NEW s, Sane(s), NEW r, r.bh \in Buffer, r.at \in 0 .. 1
    PROVE  PortsOut(s, PortWrite(s, r), r)
<1>t. PICK t : t = PortWrite(s, r)
  OBVIOUS
<1>1. /\ s \in Driver /\ s.buf \in [Buffer -> BufferHead] /\ s.drive \in Drive /\ s.wild \in BOOLEAN
      /\ s.do_hd \in {NoHandler, "read_intr", "write_intr"} /\ OnDisk(s.drive)
  BY DriverParts DEF Sane
<1>2. PICK v : v = s.buf[r.bh].data[r.at + 1]
  OBVIOUS
<1>3. v \in Content
  <2>1. s.buf[r.bh].data \in Content \X Content
    BY <1>1 DEF BufferHead
  <2> QED
    BY <1>2, <2>1
<1>4. PICK x : x = IF s.drive.op = "write_intr" /\ s.drive.data = NoData THEN v ELSE s.drive.data
  OBVIOUS
<1>5. t = [s EXCEPT !.drive = [@ EXCEPT !.data = x]]
  BY <1>t, <1>2, <1>4 DEF PortWrite
<1>6. /\ t.chain = s.chain /\ t.buf = s.buf /\ t.wild = s.wild /\ t.do_hd = s.do_hd
      /\ t.drive = [s.drive EXCEPT !.data = x] /\ t = AsDriver(t)
  BY <1>1, <1>5 DEF Driver, AsDriver
<1>7. [s.drive EXCEPT !.data = s.drive.data] = s.drive
  BY <1>1 DEF Drive
<1>8. t.drive \in Drive /\ OnDisk(t.drive)
  <2>1. x \in Content
    BY <1>1, <1>3, <1>4 DEF Drive
  <2> QED
    BY <1>1, <1>6, <2>1 DEF Drive, OnDisk
<1>9. Sane(t)
  BY <1>1, <1>6, <1>8, StaysSane
<1> QED
  BY <1>t, <1>2, <1>4, <1>6, <1>7, <1>9 DEF PortsOut

\* The first request moves on by a sector, and h is the handler.
WithNext(s, h) == [s EXCEPT !.chain[1] = NextSector(s.chain[1]), !.do_hd = h]

StepsOn(s, t, h) ==
    /\ Sane(t) /\ Settled(t)
    /\ t.chain # <<>> /\ t.chain[1] = NextSector(s.chain[1]) /\ t.do_hd = h
    /\ t.buf = s.buf /\ t.drive = s.drive /\ t.wild = s.wild

\* The request stands at the second sector of its block then.
LEMMA NextSectorWell ==
    ASSUME NEW s, Sane(s), Settled(s), s.chain # <<>>, s.chain[1].nr_sectors > 1,
           NEW h \in {NoHandler, "read_intr", "write_intr"}
    PROVE  StepsOn(s, WithNext(s, h), h)
<1>r. PICK r : r = s.chain[1]
  OBVIOUS
<1>t. PICK t : t = WithNext(s, h)
  OBVIOUS
<1>1. /\ s \in Driver /\ s.chain \in Seq(Request) /\ Len(s.chain) \in Nat /\ s.drive \in Drive
      /\ \A i \in 1 .. Len(s.chain) : s.chain[i] \in Request
  BY DriverParts DEF Sane
<1>2. r \in Request /\ Fits(r) /\ r.at = 0 /\ r.nr_sectors = 2 /\ 1 \in 1 .. Len(s.chain)
  <2>1. r \in Request /\ Fits(r) /\ r.at = 0 /\ r.nr_sectors \in 1 .. 2 /\ 1 \in 1 .. Len(s.chain)
    BY <1>r, FirstRequest
  <2> QED
    BY <1>r, <2>1
<1>3. PICK q : q = NextSector(r)
  OBVIOUS
<1>4. /\ q \in Request /\ Fits(q) /\ q.bh = r.bh /\ q.at = 1 /\ q.nr_sectors = 1
  <2>1. /\ q = [r EXCEPT !.sector = r.sector + 1, !.at = 1, !.nr_sectors = 1]
        /\ r.sector \in Nat
    BY <1>2, <1>3 DEF NextSector, Request
  <2>2. q \in Request
    <3>1. PICK n \in Nat : n = r.sector + 1
      BY <2>1
    <3>2. q = [r EXCEPT !.sector = n, !.at = 1, !.nr_sectors = 1] /\ 1 \in 0 .. 1 /\ 1 \in 1 .. 2
      BY <2>1, <3>1
    <3> QED
      BY <1>2, <3>2 DEF Request
  <2>3. q.bh = r.bh /\ q.dev = r.dev /\ q.at = 1 /\ q.nr_sectors = 1 /\ q.sector = r.sector + 1
    BY <1>2, <2>1 DEF Request
  <2>4. Place[r.bh].block \in Nat
    BY <1>2, Constants DEF Request
  <2> QED
    BY <1>2, <2>1, <2>2, <2>3, <2>4 DEF Fits
<1>5. PICK e : e = [s.chain EXCEPT ![1] = q]
  OBVIOUS
<1>6. /\ t.chain = e /\ t.do_hd = h /\ t.buf = s.buf /\ t.drive = s.drive /\ t.wild = s.wild
      /\ t = AsDriver(t)
  <2>1. t = [s EXCEPT !.chain = e, !.do_hd = h]
    BY <1>r, <1>t, <1>3, <1>5 DEF WithNext
  <2> QED
    BY <1>1, <2>1 DEF Driver, AsDriver
<1>7. e \in Seq(Request) /\ Len(e) = Len(s.chain) /\ e # <<>> /\ \A i \in 1 .. Len(e) : e[i] = IF i = 1 THEN q ELSE s.chain[i]
  <2>1. e \in Seq(Request) /\ Len(e) = Len(s.chain) /\ \A i \in 1 .. Len(s.chain) : e[i] = IF i = 1 THEN q ELSE s.chain[i]
    BY <1>1, <1>2, <1>4, <1>5, ExceptSeq
  <2> QED
    BY <1>1, <1>2, <2>1, EmptySeq
<1>8. Queued(e) /\ Locked(e, t.buf)
  <2>1. \A i \in 1 .. Len(e) : e[i].bh = s.chain[i].bh
    BY <1>r, <1>4, <1>7
  <2> QED
    BY <1>4, <1>6, <1>7, <2>1 DEF Sane, Queued, Locked
<1>9. t \in Driver
  BY <1>1, <1>6, <1>7 DEF Driver, AsDriver
<1>10. e[1] = q
  BY <1>2, <1>7
<1> QED
  <2>1. OnDisk(t.drive) /\ \A b \in Buffer : t.buf[b].uptodate => Whole(b)
    BY <1>6 DEF Sane
  <2>2. Sane(t)
    BY <1>6, <1>8, <1>9, <2>1 DEF Sane
  <2>3. Settled(t)
    BY <1>r, <1>4, <1>6, <1>7, <1>10 DEF Settled
  <2> QED
    BY <1>r, <1>t, <1>3, <1>6, <1>7, <1>10, <2>2, <2>3 DEF StepsOn

\* The first request ends.
Ended(s) == [s EXCEPT !.chain = Tail(@), !.buf[Head(s.chain).bh] = Finished(@, TRUE)]

EndsWell(s, t, b) ==
    /\ Sane(t) /\ Len(t.chain) = Len(s.chain) - 1
    /\ \A i \in 1 .. Len(t.chain) : t.chain[i] = s.chain[i + 1] /\ t.chain[i].at = 0
    /\ t.buf = [s.buf EXCEPT ![b] = Finished(s.buf[b], TRUE)]
    /\ t.drive = s.drive /\ t.wild = s.wild

\* Its buffer is unlocked, and the next request, not begun yet, is the first.
LEMMA EndedWell ==
    ASSUME NEW s, Sane(s), Settled(s), s.chain # <<>>
    PROVE  EndsWell(s, Ended(s), s.chain[1].bh)
<1>b. PICK b : b = s.chain[1].bh
  OBVIOUS
<1>t. PICK t : t = Ended(s)
  OBVIOUS
<1>1. /\ s \in Driver /\ s.chain \in Seq(Request) /\ Len(s.chain) \in Nat /\ s.drive \in Drive
      /\ s.buf \in [Buffer -> BufferHead] /\ \A i \in 1 .. Len(s.chain) : s.chain[i] \in Request
  BY DriverParts DEF Sane
<1>2. /\ Head(s.chain) = s.chain[1] /\ 1 \in 1 .. Len(s.chain) /\ b \in Buffer
      /\ s.buf[b] \in BufferHead /\ s.buf[b].lock
  BY <1>b, FirstRequest
<1>3. PICK e : e = Tail(s.chain)
  OBVIOUS
<1>4. /\ e \in Seq(Request) /\ Len(e) = Len(s.chain) - 1
      /\ \A i \in 1 .. Len(e) : i + 1 \in 1 .. Len(s.chain) /\ i + 1 # 1 /\ e[i] = s.chain[i + 1]
  BY <1>1, <1>3, HeadTailProperties
<1>5. PICK h : h = Finished(s.buf[b], TRUE)
  OBVIOUS
<1>6. h \in BufferHead /\ ~h.lock /\ h.uptodate
  BY <1>2, <1>5 DEF Refused, Finished, BufferHead
<1>7. /\ t.chain = e /\ t.buf = [s.buf EXCEPT ![b] = h] /\ t.drive = s.drive /\ t.wild = s.wild
      /\ t.do_hd = s.do_hd /\ t = AsDriver(t)
  <2>1. t = [s EXCEPT !.chain = e, !.buf[b] = h]
    BY <1>b, <1>t, <1>2, <1>3, <1>5 DEF Ended
  <2> QED
    BY <1>1, <2>1 DEF Driver, AsDriver
<1>8. t \in Driver
  <2>1. [s.buf EXCEPT ![b] = h] \in [Buffer -> BufferHead]
    BY <1>1, <1>6
  <2> QED
    BY <1>1, <1>4, <1>7, <2>1 DEF Driver, AsDriver
<1>9. Queued(e) /\ \A i \in 1 .. Len(e) : e[i].at = 0
  <2>1. \A i \in 1 .. Len(e) : Fits(e[i]) /\ e[i].at = 0
    BY <1>4 DEF Sane, Queued
  <2>2. \A i, j \in 1 .. Len(e) : e[i].bh = e[j].bh => i = j
    <3> SUFFICES ASSUME NEW i \in 1 .. Len(e), NEW j \in 1 .. Len(e), e[i].bh = e[j].bh PROVE i = j
      OBVIOUS
    <3>1. i + 1 \in 1 .. Len(s.chain) /\ j + 1 \in 1 .. Len(s.chain) /\ s.chain[i + 1].bh = s.chain[j + 1].bh
      BY <1>4
    <3>2. i + 1 = j + 1
      BY <3>1 DEF Sane, Queued
    <3> QED
      BY <1>1, <1>4, <3>2
  <2> QED
    BY <2>1, <2>2 DEF Queued
<1>10. Locked(e, t.buf)
  <2> SUFFICES ASSUME NEW x \in Buffer PROVE t.buf[x].lock <=> \E i \in 1 .. Len(e) : e[i].bh = x
    BY DEF Locked
  <2>1. s.buf[x].lock <=> \E i \in 1 .. Len(s.chain) : s.chain[i].bh = x
    BY DEF Sane, Locked
  <2>2. CASE x = b
    <3>1. ~t.buf[x].lock
      BY <1>1, <1>6, <1>7, <2>2
    <3>2. \A i \in 1 .. Len(e) : e[i].bh # b
      <4> SUFFICES ASSUME NEW i \in 1 .. Len(e), e[i].bh = b PROVE FALSE
        OBVIOUS
      <4>1. s.chain[i + 1].bh = s.chain[1].bh /\ i + 1 \in 1 .. Len(s.chain) /\ i + 1 # 1
        BY <1>b, <1>4
      <4> QED
        BY <1>b, <1>2, <4>1 DEF Sane, Queued
    <3> QED
      BY <2>2, <3>1, <3>2
  <2>3. CASE x # b
    <3>1. t.buf[x] = s.buf[x]
      BY <1>1, <1>7, <2>3
    <3>2. ASSUME NEW i \in 1 .. Len(s.chain), s.chain[i].bh = x PROVE \E j \in 1 .. Len(e) : e[j].bh = x
      <4>1. i # 1
        BY <1>b, <2>3, <3>2
      <4>2. i - 1 \in 1 .. Len(e) /\ (i - 1) + 1 = i
        BY <1>1, <1>4, <4>1
      <4> QED
        BY <1>4, <3>2, <4>2
    <3> QED
      BY <1>4, <2>1, <3>1, <3>2
  <2> QED
    BY <2>2, <2>3
<1>11. \A x \in Buffer : t.buf[x].uptodate => Whole(x)
  <2>1. Whole(b)
    BY <1>b DEF Settled
  <2>2. \A x \in Buffer : x # b => t.buf[x] = s.buf[x]
    BY <1>1, <1>7
  <2> QED
    BY <2>1, <2>2 DEF Sane
<1>12. OnDisk(t.drive)
  BY <1>7 DEF Sane
<1>13. Sane(t)
  BY <1>7, <1>8, <1>9, <1>10, <1>11, <1>12 DEF Sane
<1> QED
  BY <1>b, <1>t, <1>3, <1>4, <1>5, <1>7, <1>9, <1>13 DEF EndsWell

\* The first request ends and the next one starts.
LEMMA DoneSane ==
    ASSUME NEW s, Sane(s), Settled(s), s.chain # <<>>
    PROVE  Sane(Done(s)) /\ Settled(Done(s))
<1>1. Done(s) = DoHdRequest(Ended(s))
  BY DEF Done, Ended
<1> QED
  BY <1>1, EndedWell, RestartSane DEF EndsWell

\* While no write has failed, a request ends when its second sector is done.
LEMMA DoneSyncs ==
    ASSUME NEW s, Sane(s), Settled(s), s.chain # <<>>, NEW dk, ~s.wild, s.drive = Idle, Agrees(s, dk),
           Same(s, dk, s.chain[1].bh, 0), Same(s, dk, s.chain[1].bh, 1)
    PROVE  Synced(Done(s), dk)
<1>1. PICK t : t = Ended(s)
  OBVIOUS
<1>2. PICK b : b = s.chain[1].bh
  OBVIOUS
<1>3. /\ Sane(t) /\ Len(t.chain) = Len(s.chain) - 1
      /\ \A i \in 1 .. Len(t.chain) : t.chain[i] = s.chain[i + 1] /\ t.chain[i].at = 0
      /\ t.buf = [s.buf EXCEPT ![b] = Finished(s.buf[b], TRUE)]
      /\ t.drive = s.drive /\ t.wild = s.wild
  <2>1. EndsWell(s, t, b)
    BY <1>1, <1>2, EndedWell
  <2> QED
    BY <2>1 DEF EndsWell
<1>4. b \in Buffer /\ s.buf \in [Buffer -> BufferHead] /\ s.buf[b] \in BufferHead
  BY <1>2, FirstRequest, DriverParts DEF Sane
<1>5. Finished(s.buf[b], TRUE).data = s.buf[b].data
  BY <1>4 DEF Refused, Finished, BufferHead
<1>6. Agrees(t, dk)
  <2> SUFFICES ASSUME NEW x \in Buffer, t.buf[x].uptodate, ~t.buf[x].lock, ~t.buf[x].dirty
               PROVE  Same(t, dk, x, 0) /\ Same(t, dk, x, 1)
    BY DEF Agrees
  <2>1. CASE x = b
    <3>1. t.buf[x].data = s.buf[b].data
      BY <1>3, <1>4, <1>5, <2>1
    <3> QED
      BY <1>2, <2>1, <3>1 DEF Same
  <2>2. CASE x # b
    <3>1. t.buf[x] = s.buf[x]
      BY <1>3, <1>4, <2>2
    <3> QED
      BY <3>1 DEF Agrees, Same
  <2> QED
    BY <2>1, <2>2
<1>7. Begun(t, dk)
  <2>1. t.chain # <<>> => 1 \in 1 .. Len(t.chain)
    <3>1. t.chain \in Seq(Request)
      BY <1>3 DEF Sane, Driver
    <3> QED
      BY <3>1, LenProperties, EmptySeq
  <2> QED
    BY <1>3, <2>1 DEF Begun
<1>8. Done(s) = DoHdRequest(t)
  BY <1>1 DEF Done, Ended
<1> QED
  BY <1>3, <1>6, <1>7, <1>8, RestartSyncs

\* The rest of write_intr keeps the invariant, whatever came before.
LEMMA WriteOnSane ==
    ASSUME NEW s, Sane(s), Settled(s), NEW t, t = WriteOn(s)
    PROVE  Sane(t) /\ Settled(t)
<1>1. CASE s.chain = <<>>
  <2>1. t = [s EXCEPT !.wild = TRUE]
    BY <1>1 DEF WriteOn
  <2>2. s \in Driver /\ OnDisk(s.drive)
    BY DEF Sane
  <2>3. /\ t.chain = s.chain /\ t.buf = s.buf /\ t.do_hd = s.do_hd /\ t.drive = s.drive /\ t.wild = TRUE
        /\ t = AsDriver(t)
    BY <2>1, <2>2 DEF Driver, AsDriver
  <2>4. Sane(t)
    BY <2>2, <2>3, DriverParts, StaysSane
  <2> QED
    BY <2>3, <2>4 DEF Settled
<1>2. CASE s.chain # <<>>
  <2>1. PICK r : r = s.chain[1]
    OBVIOUS
  <2>2. Head(s.chain) = r /\ r.bh \in Buffer /\ r.at \in 0 .. 1 /\ (r.nr_sectors > 1 <=> r.at = 0)
        /\ r \in Request
    BY <1>2, <2>1, FirstRequest
  <2>3. CASE r.nr_sectors > 1
    <3>1. PICK u : u = WithNext(s, "write_intr")
      OBVIOUS
    <3>2. Sane(u) /\ Settled(u) /\ u.chain # <<>> /\ u.chain[1] = NextSector(r)
      BY <1>2, <2>1, <2>3, <3>1, NextSectorWell DEF StepsOn
    <3>3. t = PortWrite(u, NextSector(r))
      BY <1>2, <2>1, <2>2, <2>3, <3>1 DEF WriteOn, WithNext
    <3>4. PICK q : q = NextSector(r)
      OBVIOUS
    <3>5. q.bh \in Buffer /\ q.at \in 0 .. 1
      BY <3>2, <3>4, FirstRequest
    <3>6. PortsOut(u, PortWrite(u, q), q)
      BY <3>2, <3>5, PortWriteWell
    <3>7. Sane(t) /\ t.chain = u.chain
      BY <3>3, <3>4, <3>6 DEF PortsOut
    <3> QED
      BY <3>2, <3>7 DEF Settled
  <2>4. CASE ~(r.nr_sectors > 1)
    <3>1. t = Done(s)
      BY <1>2, <2>2, <2>4 DEF WriteOn
    <3> QED
      BY <1>2, <3>1, DoneSane
  <2> QED
    BY <2>3, <2>4
<1> QED
  BY <1>1, <1>2

\* A handler begins: the drive has changed, and no handler is set.
WithDrive(s, d) == [s EXCEPT !.drive = d, !.do_hd = NoHandler]

\* Nothing that the invariant asks of requests and buffers is about the drive.
LEMMA DriveChanges ==
    ASSUME NEW s, Sane(s), Settled(s), NEW d \in Drive, OnDisk(d), NEW t, t = WithDrive(s, d)
    PROVE  /\ Sane(t) /\ Settled(t)
           /\ t.chain = s.chain /\ t.buf = s.buf /\ t.wild = s.wild /\ t.drive = d
<1>1. s \in Driver
  BY DEF Sane
<1>2. /\ t.chain = s.chain /\ t.buf = s.buf /\ t.wild = s.wild /\ t.drive = d /\ t.do_hd = NoHandler
      /\ t = AsDriver(t)
  BY <1>1 DEF WithDrive, Driver, AsDriver
<1>3. Sane(t)
  BY <1>1, <1>2, DriverParts, StaysSane
<1> QED
  BY <1>2, <1>3 DEF Settled

\* read_intr puts a sector into the buffer of the first request.
Took(s, v, d) == [s EXCEPT !.buf[Head(s.chain).bh].data[Head(s.chain).at + 1] = v,
                           !.drive = d, !.do_hd = NoHandler]

TakesIn(s, t, v, d, b, i) ==
    /\ Sane(t) /\ Settled(t)
    /\ t.chain = s.chain /\ t.wild = s.wild /\ t.drive = d
    /\ \A x \in Buffer : x # b => t.buf[x] = s.buf[x]
    /\ t.buf[b].lock /\ t.buf[b].data[i + 1] = v
    /\ \A j \in {0, 1} : j # i => t.buf[b].data[j + 1] = s.buf[b].data[j + 1]

\* Only that sector of that buffer changes.
LEMMA TookWell ==
    ASSUME NEW s, Sane(s), Settled(s), s.chain # <<>>, NEW d \in Drive, OnDisk(d), NEW v \in Content
    PROVE  TakesIn(s, Took(s, v, d), v, d, s.chain[1].bh, s.chain[1].at)
<1>t. PICK t : t = Took(s, v, d)
  OBVIOUS
<1>b. PICK b, i : b = s.chain[1].bh /\ i = s.chain[1].at
  OBVIOUS
<1>1. /\ s \in Driver /\ s.buf \in [Buffer -> BufferHead]
      /\ Head(s.chain) = s.chain[1] /\ b \in Buffer /\ i \in 0 .. 1
      /\ s.buf[b] \in BufferHead /\ s.buf[b].lock
  BY <1>b, FirstRequest, DriverParts DEF Sane
<1>2. PICK k \in 1 .. 2 : k = i + 1
  BY <1>1
<1>3. PICK e : e = [s.buf[b].data EXCEPT ![k] = v]
  OBVIOUS
<1>4. e \in Content \X Content /\ e[k] = v /\ \A j \in 1 .. 2 : j # k => e[j] = s.buf[b].data[j]
  BY <1>1, <1>3, DataPut DEF BufferHead
<1>5. PICK h : h = [s.buf[b] EXCEPT !.data = e]
  OBVIOUS
<1>6. /\ h \in BufferHead /\ h.lock /\ h.data = e /\ h.uptodate = s.buf[b].uptodate
      /\ h.lock = s.buf[b].lock
  BY <1>1, <1>4, <1>5 DEF BufferHead
<1>7. PICK f : f = [s.buf EXCEPT ![b] = h]
  OBVIOUS
<1>8. f \in [Buffer -> BufferHead] /\ f[b] = h /\ \A x \in Buffer : x # b => f[x] = s.buf[x]
  BY <1>1, <1>6, <1>7
<1>9. t = [s EXCEPT !.buf = f, !.drive = d, !.do_hd = NoHandler]
  BY <1>t, <1>b, <1>1, <1>2, <1>3, <1>5, <1>7 DEF Took
<1>10. /\ t.chain = s.chain /\ t.buf = f /\ t.wild = s.wild /\ t.drive = d /\ t.do_hd = NoHandler
       /\ t = AsDriver(t)
  BY <1>1, <1>9 DEF Driver, AsDriver
<1>11. \A x \in Buffer : t.buf[x].lock = s.buf[x].lock /\ t.buf[x].uptodate = s.buf[x].uptodate
  BY <1>6, <1>8, <1>10
<1>12. Sane(t) /\ Settled(t)
  <2>1. s.wild \in BOOLEAN
    BY <1>1, DriverParts
  <2>2. Sane(t)
    BY <1>8, <1>10, <1>11, <2>1, StaysSane
  <2> QED
    BY <1>10, <2>2 DEF Settled
<1>13. \A j \in {0, 1} : j # i => f[b].data[j + 1] = s.buf[b].data[j + 1]
  BY <1>1, <1>2, <1>4, <1>6, <1>8
<1>14. TakesIn(s, t, v, d, b, i)
  <2>1. t.buf[b].lock /\ t.buf[b].data[i + 1] = v
    BY <1>2, <1>4, <1>6, <1>8, <1>10
  <2>2. \A x \in Buffer : x # b => t.buf[x] = s.buf[x]
    BY <1>8, <1>10
  <2>3. \A j \in {0, 1} : j # i => t.buf[b].data[j + 1] = s.buf[b].data[j + 1]
    BY <1>10, <1>13
  <2> QED
    BY <1>10, <1>12, <2>1, <2>2, <2>3 DEF TakesIn
<1> QED
  BY <1>t, <1>b, <1>14

\* While no write has failed, the second sector of the first request follows.
LEMMA NextSyncs ==
    ASSUME NEW s, Sane(s), s.chain # <<>>, s.chain[1].nr_sectors > 1,
           NEW t, t.chain # <<>>, t.chain[1] = NextSector(s.chain[1]), t.buf = s.buf, ~t.wild,
           t.do_hd = Handler(s.chain[1].cmd), t.drive.op = t.do_hd, t.drive.left = 1,
           t.drive.lba = Hd[s.chain[1].dev].start + s.chain[1].sector + 1,
           s.chain[1].cmd = WRITE => t.drive.data = s.buf[s.chain[1].bh].data[2],
           NEW dk, Agrees(s, dk), Same(s, dk, s.chain[1].bh, 0)
    PROVE  Synced(t, dk)
<1>1. PICK r : r = s.chain[1]
  OBVIOUS
<1>2. r \in Request /\ Fits(r) /\ r.at = 0 /\ r.nr_sectors \in 1 .. 2 /\ r.bh \in Buffer
  BY <1>1, FirstRequest
<1>3. r.nr_sectors = 2 /\ r.sector \in Nat /\ r.dev \in Part
  BY <1>1, <1>2 DEF Request
<1>4. PICK q : q = NextSector(r)
  OBVIOUS
<1>5. q.bh = r.bh /\ q.dev = r.dev /\ q.cmd = r.cmd /\ q.at = 1 /\ q.nr_sectors = 1 /\ q.sector = r.sector + 1
  BY <1>2, <1>3, <1>4 DEF NextSector, Request
<1>6. Hd[r.dev].start \in Nat
  BY <1>3, HdAssumption
<1>7. Hd[r.dev].start + (r.sector + 1) = Hd[r.dev].start + r.sector + 1
  BY <1>3, <1>6
<1>8. Agrees(t, dk)
  BY DEF Agrees, Same
<1>9. Begun(t, dk)
  BY <1>1, <1>4, <1>5 DEF Begun, Same
<1>10. Follows(t)
  <2>1. t.chain[1] = q
    BY <1>1, <1>4
  <2>2. q.at + 1 = 2
    BY <1>5
  <2> QED
    BY <1>1, <1>5, <1>7, <2>1, <2>2 DEF Follows
<1> QED
  BY <1>8, <1>9, <1>10 DEF Synced

----------------------------------------------------------------------------
\* The steps.

\* What Becomes says, as an equation of records.
LEMMA HereIs ==
    ASSUME NEW s, Sane(s), Becomes(s)
    PROVE  Here' = s
<1>1. s = AsDriver(s)
  BY DEF Sane, Driver, AsDriver
<1> QED
  BY <1>1 DEF Becomes, Here, AsDriver

\* A step of the driver keeps the invariant if its new state does.
LEMMA StepKeeps ==
    ASSUME NEW s, Sane(s), Settled(s), Becomes(s), disk' \in [Sector -> Content],
           faults' \in [Cmd -> 0 .. MaxFaults], WritesGood' => Synced(s, disk')
    PROVE  Inv'
<1>1. Here' = s
  BY HereIs
<1> QED
  BY <1>1 DEF Inv

\* The driver starts without requests, and every sector has its own content.
LEMMA InitHolds ==
    ASSUME Init
    PROVE  Inv
<1>1. <<>> \in Seq(Request) /\ Len(<<>>) = 0 /\ ~FALSE
  BY EmptySeq
<1>2. \A b \in Buffer : buf[b] = [lock |-> FALSE, uptodate |-> FALSE, dirty |-> FALSE, data |-> <<NoData, NoData>>]
  BY DEF Init
<1>3. buf \in [Buffer -> BufferHead]
  BY Constants DEF Init, BufferHead
<1>4. Here \in Driver
  BY <1>1, <1>3, Constants DEF Init, Here, Driver
<1>5. Sane(Here)
  <2>1. Queued(<<>>)
    BY <1>1 DEF Queued
  <2>2. Locked(<<>>, buf)
    BY <1>1, <1>2 DEF Locked
  <2>3. OnDisk(drive) /\ \A b \in Buffer : ~buf[b].uptodate
    BY <1>2, Constants DEF Init
  <2> QED
    BY <1>4, <2>1, <2>2, <2>3 DEF Init, Here, Sane
<1>6. Settled(Here)
  BY DEF Settled, Here, Init
<1>7. disk \in [Sector -> Content] /\ faults \in [Cmd -> 0 .. MaxFaults]
  BY Constants DEF Init, Content
<1>8. Synced(Here, disk)
  <2>1. ~wild /\ chain = <<>> /\ drive = Idle /\ do_hd = NoHandler
    BY DEF Init
  <2>2. Agrees(Here, disk)
    BY <1>2 DEF Agrees, Here
  <2> QED
    BY <2>1, <2>2 DEF Here, Synced, Begun, Follows
<1> QED
  BY <1>5, <1>6, <1>7, <1>8 DEF Inv

\* What the invariant says of the variables.
LEMMA InvParts ==
    ASSUME Inv
    PROVE  /\ Sane(Here) /\ Settled(Here) /\ Here \in Driver
           /\ Here.chain = chain /\ Here.do_hd = do_hd /\ Here.buf = buf /\ Here.drive = drive /\ Here.wild = wild
           /\ buf \in [Buffer -> BufferHead] /\ drive \in Drive /\ wild \in BOOLEAN
           /\ chain \in Seq(Request) /\ Len(chain) \in Nat /\ OnDisk(drive)
           /\ disk \in [Sector -> Content] /\ faults \in [Cmd -> 0 .. MaxFaults]
<1>1. Sane(Here) /\ Settled(Here) /\ disk \in [Sector -> Content] /\ faults \in [Cmd -> 0 .. MaxFaults]
  BY DEF Inv
<1>2. Here.chain = chain /\ Here.do_hd = do_hd /\ Here.buf = buf /\ Here.drive = drive /\ Here.wild = wild
  BY DEF Here
<1>3. Here \in Driver /\ OnDisk(drive)
  BY <1>1, <1>2 DEF Sane
<1> QED
  BY <1>1, <1>2, <1>3, DriverParts

\* A buffer is changed by a task.
LEMMA ModifyKeeps ==
    ASSUME Inv, NEW b \in Buffer, Modify(b)
    PROVE  Inv'
<1>1. /\ Sane(Here) /\ Settled(Here) /\ Here \in Driver
      /\ buf \in [Buffer -> BufferHead] /\ drive \in Drive /\ wild \in BOOLEAN /\ chain \in Seq(Request)
      /\ OnDisk(drive) /\ disk \in [Sector -> Content] /\ faults \in [Cmd -> 0 .. MaxFaults]
  BY InvParts
<1>2. /\ ~wild /\ ~buf[b].lock /\ buf[b].uptodate
      /\ buf[b].data[1][2] < MaxWrites /\ buf[b].data[2][2] < MaxWrites
      /\ chain' = chain /\ do_hd' = do_hd /\ drive' = drive /\ disk' = disk /\ wild' = wild /\ faults' = faults
  BY DEF Modify
<1>3. PICK v : v = <<<<Home(b, 0), buf[b].data[1][2] + 1>>, <<Home(b, 1), buf[b].data[2][2] + 1>>>>
  OBVIOUS
<1>4. v \in Content \X Content
  <2>1. Whole(b)
    BY <1>1, <1>2 DEF Sane, Here
  <2>2. Home(b, 0) \in Sector /\ Home(b, 1) \in Sector
    BY <2>1, Homes
  <2>3. buf[b].data[1] \in Content /\ buf[b].data[2] \in Content
    BY <1>1 DEF BufferHead
  <2>4. MaxWrites \in Nat
    BY Constants
  <2>5. \A c \in Content : c[2] \in 0 .. MaxWrites
    BY <2>4 DEF Content, NoData
  <2>6. PICK m, n \in 0 .. MaxWrites : m = buf[b].data[1][2] /\ n = buf[b].data[2][2]
    BY <2>3, <2>5
  <2>7. m + 1 \in 0 .. MaxWrites /\ n + 1 \in 0 .. MaxWrites
    BY <1>2, <2>4, <2>6
  <2>8. <<Home(b, 0), m + 1>> \in Content /\ <<Home(b, 1), n + 1>> \in Content
    BY <2>2, <2>7 DEF Content
  <2> QED
    BY <1>3, <2>6, <2>8
<1>5. PICK h : h = [buf[b] EXCEPT !.dirty = TRUE, !.data = v]
  OBVIOUS
<1>6. h \in BufferHead /\ h.dirty /\ h.lock = buf[b].lock /\ h.uptodate = buf[b].uptodate
  <2>1. buf[b] \in BufferHead
    BY <1>1
  <2> QED
    BY <1>4, <1>5, <2>1 DEF BufferHead
<1>7. buf' = [buf EXCEPT ![b] = h]
  BY <1>3, <1>5 DEF Modify
<1>8. buf' \in [Buffer -> BufferHead] /\ buf'[b] = h /\ \A x \in Buffer : x # b => buf'[x] = buf[x]
  BY <1>1, <1>6, <1>7
<1>9. PICK t : t = [Here EXCEPT !.buf = buf']
  OBVIOUS
<1>10. /\ t.chain = chain /\ t.do_hd = do_hd /\ t.buf = buf' /\ t.drive = drive /\ t.wild = wild
       /\ t = AsDriver(t)
  BY <1>9 DEF Here, AsDriver
<1>11. \A x \in Buffer : buf'[x].lock = buf[x].lock /\ buf'[x].uptodate = buf[x].uptodate
  BY <1>6, <1>8
<1>12. Sane(t)
  BY <1>1, <1>8, <1>10, <1>11, InvParts, StaysSane, DriverParts
<1>13. Settled(t)
  BY <1>1, <1>10 DEF Settled, Here
<1>14. Becomes(t)
  BY <1>2, <1>10 DEF Becomes
<1>15. ASSUME WritesGood' PROVE Synced(t, disk')
  <2>1. Synced(Here, disk)
    BY <1>2, <1>15 DEF Inv, WritesGood
  <2>2. Agrees(t, disk)
    <3> SUFFICES ASSUME NEW x \in Buffer, t.buf[x].uptodate, ~t.buf[x].lock, ~t.buf[x].dirty
                 PROVE  Same(t, disk, x, 0) /\ Same(t, disk, x, 1)
      BY DEF Agrees
    <3>1. t.buf[x] = buf[x]
      BY <1>6, <1>8, <1>10
    <3> QED
      BY <2>1, <3>1 DEF Synced, Agrees, Same, Here
  <2>3. chain # <<>> => chain[1].bh \in Buffer /\ t.buf[chain[1].bh] = buf[chain[1].bh]
    <3>1. ASSUME chain # <<>> PROVE chain[1].bh \in Buffer /\ buf[chain[1].bh].lock
      <4>1. Here.chain = chain /\ Here.buf = buf
        BY DEF Here
      <4> QED
        BY <1>1, <3>1, <4>1, FirstRequest
    <3> QED
      BY <1>2, <1>8, <1>10, <3>1
  <2>4. Begun(t, disk)
    BY <1>10, <2>1, <2>3 DEF Synced, Begun, Same, Here
  <2>5. Follows(t)
    BY <1>10, <2>1, <2>3 DEF Synced, Follows, Here
  <2> QED
    BY <1>2, <1>10, <2>2, <2>4, <2>5 DEF Synced
<1> QED
  BY <1>1, <1>2, <1>12, <1>13, <1>14, <1>15, StepKeeps

\* e is c with r as its i-th member.
Inserted(c, e, i, r) ==
    /\ e \in Seq(Request) /\ Len(e) = Len(c) + 1 /\ i \in 1 .. Len(e)
    /\ \A j \in 1 .. Len(e) : /\ j < i => e[j] = c[j]
                              /\ j = i => e[j] = r
                              /\ j > i => e[j] = c[j - 1]

\* InsertAt of a place behind the first.
LEMMA InsertAtInserts ==
    ASSUME NEW c \in Seq(Request), NEW r \in Request, NEW i \in 2 .. Len(c) + 1
    PROVE  Inserted(c, InsertAt(c, i, r), i, r)
<1>0. PICK n \in Nat : n = Len(c)
  BY LenProperties
<1>1. PICK p, q : p = SubSeq(c, 1, i - 1) /\ q = SubSeq(c, i, Len(c))
  OBVIOUS
<1>2. PICK k \in Nat : k = i - 1 /\ k \in 1 .. n
  BY <1>0
<1>3. \A j \in 1 .. n : c[j] \in Request
  BY <1>0, ElementOfSeq
<1>4. p \in Seq(Request) /\ Len(p) = k /\ \A j \in 1 .. k : p[j] = c[j]
  <2>1. 1 \in Int /\ k \in Int /\ \A j \in 1 .. k : c[j] \in Request
    BY <1>2, <1>3
  <2>2. p = SubSeq(c, 1, k)
    BY <1>1, <1>2
  <2>3. /\ p \in Seq(Request) /\ Len(p) = IF 1 <= k THEN k - 1 + 1 ELSE 0
        /\ \A j \in 1 .. k - 1 + 1 : p[j] = c[1 + j - 1]
    BY <2>1, <2>2, SubSeqProperties
  <2>4. k - 1 + 1 = k /\ \A j \in 1 .. k : 1 + j - 1 = j
    BY <1>2
  <2> QED
    BY <1>2, <2>3, <2>4
<1>5. q \in Seq(Request) /\ Len(q) = n - k /\ \A j \in 1 .. n - k : q[j] = c[k + j]
  <2>1. k \in 0 .. Len(c) /\ q = SubSeq(c, k + 1, Len(c))
    BY <1>0, <1>1, <1>2
  <2>2. q \in Seq(Request) /\ Len(q) = Len(c) - k /\ \A j \in 1 .. Len(q) : q[j] = c[k + j]
    BY <2>1, Rest
  <2> QED
    BY <1>0, <2>2
<1>6. PICK u : u = p \o <<r>>
  OBVIOUS
<1>7. /\ u \in Seq(Request) /\ Len(u) = k + 1
      /\ \A j \in 1 .. k + 1 : u[j] = IF j <= k THEN c[j] ELSE r
  <2>1. <<r>> \in Seq(Request) /\ Len(<<r>>) = 1 /\ <<r>>[1] = r
    OBVIOUS
  <2>2. u \in Seq(Request) /\ Len(u) = Len(p) + Len(<<r>>)
        /\ \A j \in 1 .. Len(p) + Len(<<r>>) : u[j] = IF j <= Len(p) THEN p[j] ELSE <<r>>[j - Len(p)]
    BY <1>4, <1>6, <2>1, ConcatProperties
  <2>3. \A j \in 1 .. k + 1 : (j <= k => j \in 1 .. k) /\ (~(j <= k) => j - k = 1)
    BY <1>2
  <2> QED
    BY <1>4, <2>1, <2>2, <2>3
<1>8. PICK e : e = InsertAt(c, i, r)
  OBVIOUS
<1>9. e = u \o q
  BY <1>1, <1>6, <1>8 DEF InsertAt
<1>10. /\ e \in Seq(Request) /\ Len(e) = n + 1
       /\ \A j \in 1 .. n + 1 : e[j] = IF j <= k + 1 THEN u[j] ELSE q[j - (k + 1)]
  <2>1. /\ e \in Seq(Request) /\ Len(e) = Len(u) + Len(q)
        /\ \A j \in 1 .. Len(u) + Len(q) : e[j] = IF j <= Len(u) THEN u[j] ELSE q[j - Len(u)]
    BY <1>5, <1>7, <1>9, ConcatProperties
  <2>2. (k + 1) + (n - k) = n + 1
    BY <1>0, <1>2
  <2> QED
    BY <1>5, <1>7, <2>1, <2>2
<1>11. ASSUME NEW j \in 1 .. n + 1
       PROVE  /\ j < i => e[j] = c[j]
              /\ j = i => e[j] = r
              /\ j > i => e[j] = c[j - 1]
  <2>1. i = k + 1 /\ k \in 1 .. n
    BY <1>2
  <2>2. ASSUME j < i PROVE e[j] = c[j]
    <3>1. j <= k + 1 /\ j <= k /\ j \in 1 .. k + 1
      BY <2>1, <2>2
    <3> QED
      BY <1>7, <1>10, <3>1
  <2>3. ASSUME j = i PROVE e[j] = r
    <3>1. j <= k + 1 /\ ~(j <= k) /\ j \in 1 .. k + 1
      BY <2>1, <2>3
    <3> QED
      BY <1>7, <1>10, <3>1
  <2>4. ASSUME j > i PROVE e[j] = c[j - 1]
    <3>1. ~(j <= k + 1) /\ j - (k + 1) \in 1 .. n - k /\ k + (j - (k + 1)) = j - 1
      BY <1>0, <2>1, <2>4
    <3> QED
      BY <1>5, <1>10, <3>1
  <2> QED
    BY <2>2, <2>3, <2>4
<1>12. i \in 1 .. Len(e)
  BY <1>0, <1>10
<1> QED
  BY <1>0, <1>8, <1>10, <1>11, <1>12 DEF Inserted

\* The request of make_request.
NewRequest(b, cmd) == [cmd |-> cmd, dev |-> Place[b].dev, sector |-> 2 * Place[b].block,
                       nr_sectors |-> 2, at |-> 0, bh |-> b]

\* The driver's state with that request as the i-th, its buffer locked.
WithRequest(b, e) == [Here EXCEPT !.buf[b].lock = TRUE, !.buf[b].dirty = FALSE, !.chain = e]

Joins(t, b, e) ==
    /\ Sane(t)
    /\ t.chain = e /\ t.do_hd = do_hd /\ t.drive = drive /\ t.wild = wild
    /\ t.buf[b].lock
    /\ \A x \in Buffer : x # b => t.buf[x] = buf[x]

\* The chain and the locks agree again when the buffer is locked and its request linked.
LEMMA WithRequestJoins ==
    ASSUME Inv, NEW b \in Buffer, ~buf[b].lock, NEW cmd \in Cmd, NEW i, NEW e,
           Inserted(chain, e, i, NewRequest(b, cmd)), i = 1 => chain = <<>>
    PROVE  Joins(WithRequest(b, e), b, e)
<1>r. PICK r : r = NewRequest(b, cmd)
  OBVIOUS
<1>t. PICK t : t = WithRequest(b, e)
  OBVIOUS
<1>1. /\ Sane(Here) /\ buf \in [Buffer -> BufferHead] /\ Here \in Driver
      /\ chain \in Seq(Request) /\ Len(chain) \in Nat /\ OnDisk(drive)
      /\ Queued(chain) /\ Locked(chain, buf) /\ \A x \in Buffer : buf[x].uptodate => Whole(x)
      /\ drive \in Drive /\ wild \in BOOLEAN /\ do_hd \in {NoHandler, "read_intr", "write_intr"}
  BY InvParts, DriverParts DEF Sane, Here
<1>2. r \in Request /\ Fits(r) /\ r.at = 0 /\ r.bh = b
  <2>1. PICK n \in Nat : n = 2 * Place[b].block
    BY Constants
  <2>2. 2 * Place[b].block + 0 = n
    BY <2>1
  <2>3. 0 \in 0 .. 1 /\ 2 \in 1 .. 2 /\ 0 + 2 = 2 /\ Place[b].dev \in Part
    BY Constants
  <2> QED
    BY <1>r, <2>1, <2>2, <2>3 DEF NewRequest, Request, Fits
<1>3. /\ e \in Seq(Request) /\ Len(e) = Len(chain) + 1 /\ i \in 1 .. Len(e)
      /\ \A j \in 1 .. Len(e) : /\ j < i => e[j] = chain[j]
                                /\ j = i => e[j] = r
                                /\ j > i => e[j] = chain[j - 1]
  BY <1>r DEF Inserted
<1>4. \A j \in 1 .. Len(chain) : chain[j].bh # b
  BY <1>1 DEF Locked
\* Every member of e but the i-th is one of chain's, none of them twice.
<1>5. PICK p \in [1 .. Len(e) -> Int] : p = [j \in 1 .. Len(e) |-> IF j < i THEN j ELSE j - 1]
  <2>1. Len(e) \in Nat /\ i \in Int
    BY <1>1, <1>3
  <2>2. \A j \in 1 .. Len(e) : (IF j < i THEN j ELSE j - 1) \in Int
    BY <2>1
  <2>3. [j \in 1 .. Len(e) |-> IF j < i THEN j ELSE j - 1] \in [1 .. Len(e) -> Int]
    BY <2>2
  <2> QED
    BY <2>3
<1>6. \A j \in 1 .. Len(e) : j # i => p[j] \in 1 .. Len(chain) /\ e[j] = chain[p[j]]
  <2> SUFFICES ASSUME NEW j \in 1 .. Len(e), j # i PROVE p[j] \in 1 .. Len(chain) /\ e[j] = chain[p[j]]
    OBVIOUS
  <2>1. CASE j < i
    BY <1>1, <1>3, <1>5, <2>1
  <2>2. CASE j > i
    BY <1>1, <1>3, <1>5, <2>2
  <2> QED
    BY <1>1, <1>3, <2>1, <2>2
<1>7. \A j, k \in 1 .. Len(e) : j # i /\ k # i /\ p[j] = p[k] => j = k
  <2> SUFFICES ASSUME NEW j \in 1 .. Len(e), NEW k \in 1 .. Len(e), j # i, k # i, p[j] = p[k]
               PROVE  j = k
    OBVIOUS
  <2>1. /\ j < i => p[j] = j
        /\ j > i => p[j] = j - 1
        /\ k < i => p[k] = k
        /\ k > i => p[k] = k - 1
    BY <1>1, <1>3, <1>5
  <2> QED
    BY <1>1, <1>3, <2>1
<1>8. Queued(e)
  <2>1. ASSUME NEW j \in 1 .. Len(e) PROVE Fits(e[j]) /\ (j # 1 => e[j].at = 0)
    <3>1. CASE j = i
      BY <1>2, <1>3, <3>1
    <3>2. CASE j # i
      <4>1. Fits(e[j]) /\ (p[j] # 1 => e[j].at = 0)
        BY <1>1, <1>6, <3>2 DEF Queued
      <4>2. ASSUME j # 1 PROVE p[j] # 1
        <5>1. CASE j < i
          BY <1>5, <4>2, <5>1
        <5>2. CASE j > i
          <6>1. chain # <<>>
            BY <1>1, <1>6, <3>2, EmptySeq
          <6>2. i > 1 /\ p[j] = j - 1
            BY <1>1, <1>3, <1>5, <5>2, <6>1
          <6> QED
            BY <1>1, <1>3, <5>2, <6>2
        <5> QED
          BY <1>1, <1>3, <3>2, <5>1, <5>2
      <4> QED
        BY <4>1, <4>2
    <3> QED
      BY <3>1, <3>2
  <2>2. ASSUME NEW j \in 1 .. Len(e), NEW k \in 1 .. Len(e), e[j].bh = e[k].bh PROVE j = k
    <3>1. (j = i <=> e[j].bh = b) /\ (k = i <=> e[k].bh = b)
      <4>1. ASSUME NEW m \in 1 .. Len(e) PROVE m = i <=> e[m].bh = b
        <5>1. m = i => e[m].bh = b
          BY <1>2, <1>3
        <5>2. m # i => e[m].bh # b
          BY <1>4, <1>6
        <5> QED
          BY <5>1, <5>2
      <4> QED
        BY <4>1
    <3>2. CASE j = i
      BY <2>2, <3>1, <3>2
    <3>3. CASE j # i
      <4>1. k # i
        BY <2>2, <3>1, <3>3
      <4>2. p[j] = p[k]
        BY <1>1, <1>6, <2>2, <3>3, <4>1 DEF Queued
      <4> QED
        BY <1>7, <3>3, <4>1, <4>2
    <3> QED
      BY <3>2, <3>3
  <2> QED
    BY <2>1, <2>2 DEF Queued
<1>9. \A x \in Buffer : x # b => ((\E j \in 1 .. Len(e) : e[j].bh = x) <=> \E j \in 1 .. Len(chain) : chain[j].bh = x)
  <2> SUFFICES ASSUME NEW x \in Buffer, x # b
               PROVE  (\E j \in 1 .. Len(e) : e[j].bh = x) <=> \E j \in 1 .. Len(chain) : chain[j].bh = x
    OBVIOUS
  <2>1. ASSUME NEW j \in 1 .. Len(e), e[j].bh = x PROVE \E k \in 1 .. Len(chain) : chain[k].bh = x
    BY <1>2, <1>3, <1>6, <2>1
  <2>2. ASSUME NEW j \in 1 .. Len(chain), chain[j].bh = x PROVE \E k \in 1 .. Len(e) : e[k].bh = x
    <3>1. CASE j < i
      <4>1. j \in 1 .. Len(e) /\ e[j] = chain[j]
        BY <1>1, <1>3, <3>1
      <4> QED
        BY <2>2, <4>1
    <3>2. CASE ~(j < i)
      <4>1. j + 1 \in 1 .. Len(e) /\ j + 1 > i /\ (j + 1) - 1 = j
        BY <1>1, <1>3, <3>2
      <4>2. e[j + 1] = chain[j]
        BY <1>3, <4>1
      <4> QED
        BY <2>2, <4>1, <4>2
    <3> QED
      BY <3>1, <3>2
  <2> QED
    BY <2>1, <2>2
<1>10. PICK h : h = [buf[b] EXCEPT !.lock = TRUE, !.dirty = FALSE]
  OBVIOUS
<1>11. h \in BufferHead /\ h.lock /\ h.uptodate = buf[b].uptodate
  <2>1. buf[b] \in BufferHead
    BY <1>1
  <2> QED
    BY <1>10, <2>1 DEF BufferHead
<1>12. PICK f : f = [buf EXCEPT ![b] = h]
  OBVIOUS
<1>13. f \in [Buffer -> BufferHead] /\ f[b] = h /\ \A x \in Buffer : x # b => f[x] = buf[x]
  BY <1>1, <1>11, <1>12
<1>14. t = [Here EXCEPT !.buf = f, !.chain = e]
  <2>1. [[buf EXCEPT ![b].lock = TRUE] EXCEPT ![b].dirty = FALSE] = f
    BY <1>1, <1>10, <1>12
  <2>2. t = [Here EXCEPT !.buf = [[@ EXCEPT ![b].lock = TRUE] EXCEPT ![b].dirty = FALSE], !.chain = e]
    BY <1>t DEF WithRequest, Here
  <2> QED
    BY <2>1, <2>2 DEF Here
<1>15. /\ t.chain = e /\ t.do_hd = do_hd /\ t.buf = f /\ t.drive = drive /\ t.wild = wild /\ t = AsDriver(t)
  BY <1>14 DEF Here, AsDriver
<1>16. t \in Driver
  BY <1>1, <1>3, <1>13, <1>15 DEF Driver, AsDriver
<1>17. Locked(e, f)
  <2> SUFFICES ASSUME NEW x \in Buffer PROVE f[x].lock <=> \E j \in 1 .. Len(e) : e[j].bh = x
    BY DEF Locked
  <2>1. CASE x = b
    <3>1. e[i].bh = b
      BY <1>2, <1>3
    <3> QED
      BY <1>3, <1>11, <1>13, <2>1, <3>1
  <2>2. CASE x # b
    BY <1>1, <1>9, <1>13, <2>2 DEF Locked
  <2> QED
    BY <2>1, <2>2
<1>18. \A x \in Buffer : f[x].uptodate => Whole(x)
  BY <1>1, <1>11, <1>13
<1>19. Sane(t)
  BY <1>1, <1>8, <1>15, <1>16, <1>17, <1>18 DEF Sane
<1> QED
  BY <1>t, <1>11, <1>13, <1>15, <1>19 DEF Joins

\* What the driver's state becomes when b gets a request: the first one is started.
Submitted(b, cmd, t) ==
    \E e, i : /\ Inserted(chain, e, i, NewRequest(b, cmd)) /\ (i = 1 => chain = <<>>)
              /\ t = IF chain = <<>> THEN DoHdRequest(WithRequest(b, e)) ELSE WithRequest(b, e)

\* Submit in these terms.
LEMMA SubmitForm ==
    ASSUME Inv, NEW b \in Buffer, NEW cmd \in Cmd, Submit(b, cmd)
    PROVE  /\ ~buf[b].lock /\ ~wild /\ disk' = disk /\ faults' = faults
           /\ \E t : Submitted(b, cmd, t) /\ Becomes(t)
<1>r. PICK r : r = NewRequest(b, cmd)
  OBVIOUS
<1>1. chain \in Seq(Request) /\ Len(chain) \in Nat
  BY InvParts
<1>2. r \in Request
  <2>1. PICK n \in Nat : n = 2 * Place[b].block
    BY Constants
  <2>2. 0 \in 0 .. 1 /\ 2 \in 1 .. 2 /\ Place[b].dev \in Part
    BY Constants
  <2> QED
    BY <1>r, <2>1, <2>2 DEF NewRequest, Request
<1>3. CASE chain = <<>>
  <2>1. PICK e : e = <<r>>
    OBVIOUS
  <2>2. Inserted(chain, e, 1, r)
    <3>1. e \in Seq(Request) /\ Len(e) = 1 /\ e[1] = r /\ Len(chain) = 0
      BY <1>1, <1>2, <1>3, <2>1, EmptySeq
    <3>2. \A j \in 1 .. 1 : j = 1 /\ ~(j < 1) /\ ~(j > 1)
      OBVIOUS
    <3> QED
      BY <3>1, <3>2 DEF Inserted
  <2>3. Becomes(DoHdRequest(WithRequest(b, e)))
    BY <1>r, <1>3, <2>1 DEF Submit, NewRequest, WithRequest
  <2> QED
    BY <1>r, <1>3, <2>2, <2>3 DEF Submit, Submitted
<1>4. CASE chain # <<>>
  <2>1. PICK i \in 2 .. Len(chain) + 1 : Becomes(WithRequest(b, InsertAt(chain, i, r)))
    <3>1. PICK i \in 2 .. Len(chain) + 1 :
             Becomes([[Here EXCEPT !.buf[b].lock = TRUE, !.buf[b].dirty = FALSE]
                       EXCEPT !.chain = InsertAt(@, i, r)])
      BY <1>r, <1>4 DEF Submit, NewRequest
    <3>2. [[Here EXCEPT !.buf[b].lock = TRUE, !.buf[b].dirty = FALSE] EXCEPT !.chain = InsertAt(@, i, r)]
             = WithRequest(b, InsertAt(chain, i, r))
      BY DEF WithRequest, Here
    <3> QED
      BY <3>1, <3>2
  <2>2. PICK e : e = InsertAt(chain, i, r)
    OBVIOUS
  <2>3. Inserted(chain, e, i, r) /\ i # 1
    BY <1>1, <1>2, <2>2, InsertAtInserts
  <2> QED
    BY <1>r, <1>4, <2>1, <2>2, <2>3 DEF Submit, Submitted
<1> QED
  BY <1>3, <1>4

\* A request is added, and started if it is the only one.
LEMMA SubmitKeeps ==
    ASSUME Inv, NEW b \in Buffer, NEW cmd \in Cmd, Submit(b, cmd)
    PROVE  Inv'
<1>1. /\ Sane(Here) /\ Settled(Here) /\ chain \in Seq(Request) /\ Len(chain) \in Nat
      /\ disk \in [Sector -> Content] /\ faults \in [Cmd -> 0 .. MaxFaults]
  BY InvParts
<1>2. ~buf[b].lock /\ ~wild /\ disk' = disk /\ faults' = faults
  BY SubmitForm
<1>3. PICK t : Submitted(b, cmd, t) /\ Becomes(t)
  BY SubmitForm
<1>4. PICK e, i : /\ Inserted(chain, e, i, NewRequest(b, cmd)) /\ (i = 1 => chain = <<>>)
                  /\ t = IF chain = <<>> THEN DoHdRequest(WithRequest(b, e)) ELSE WithRequest(b, e)
  BY <1>3 DEF Submitted
<1>5. PICK s : s = WithRequest(b, e)
  OBVIOUS
<1>6. /\ Sane(s)
      /\ s.chain = e /\ s.do_hd = do_hd /\ s.drive = drive /\ s.wild = wild
      /\ s.buf[b].lock /\ \A x \in Buffer : x # b => s.buf[x] = buf[x]
  <2>1. Joins(s, b, e)
    BY <1>2, <1>4, <1>5, WithRequestJoins
  <2> QED
    BY <2>1 DEF Joins
<1>7. /\ e \in Seq(Request) /\ Len(e) = Len(chain) + 1 /\ i \in 1 .. Len(e)
      /\ \A j \in 1 .. Len(e) : j < i => e[j] = chain[j]
      /\ e[i] = NewRequest(b, cmd)
  BY <1>4 DEF Inserted
<1>8. ASSUME WritesGood' PROVE Synced(Here, disk)
  BY <1>2, <1>8 DEF Inv, WritesGood
<1>9. ASSUME WritesGood' PROVE Agrees(s, disk)
  <2> SUFFICES ASSUME NEW x \in Buffer, s.buf[x].uptodate, ~s.buf[x].lock, ~s.buf[x].dirty
               PROVE  Same(s, disk, x, 0) /\ Same(s, disk, x, 1)
    BY DEF Agrees
  <2>1. s.buf[x] = buf[x]
    BY <1>6
  <2> QED
    BY <1>8, <1>9, <2>1 DEF Synced, Agrees, Same, Here
<1>10. CASE chain = <<>>
  <2>1. t = DoHdRequest(s)
    BY <1>4, <1>5, <1>10
  <2>2. Sane(t) /\ Settled(t)
    BY <1>6, <2>1, RestartSane
  <2>3. ASSUME WritesGood' PROVE Synced(t, disk')
    <3>1. s.drive = Idle /\ ~s.wild
      BY <1>2, <1>6, <1>8, <1>10, <2>3 DEF Synced, Follows, Here
    <3>2. Begun(s, disk)
      <4>1. i = 1 /\ e[1].at = 0
        BY <1>1, <1>7, <1>10, EmptySeq DEF NewRequest
      <4> QED
        BY <1>6, <4>1 DEF Begun
    <3> QED
      BY <1>2, <1>6, <1>9, <2>1, <2>3, <3>1, <3>2, RestartSyncs
  <2> QED
    BY <1>1, <1>2, <1>3, <2>2, <2>3, StepKeeps
<1>11. CASE chain # <<>>
  <2>1. t = s
    BY <1>4, <1>5, <1>11
  <2>2. Len(chain) \in Nat \ {0} /\ i # 1 /\ 1 \in 1 .. Len(e) /\ 1 < i
    BY <1>1, <1>4, <1>7, <1>11, EmptySeq
  <2>3. e[1] = chain[1] /\ e # <<>>
    BY <1>7, <2>2
  <2>4. PICK r : r = chain[1]
    OBVIOUS
  <2>5. r \in Request /\ r.bh \in Buffer /\ buf[r.bh].lock
    <3>1. Here.chain = chain /\ Here.buf = buf
      BY DEF Here
    <3> QED
      BY <1>1, <1>11, <2>4, <3>1, FirstRequest
  <2>6. s.buf[r.bh] = buf[r.bh]
    BY <1>2, <1>6, <2>5
  <2>7. Settled(s)
    BY <1>1, <1>6, <1>11, <2>3 DEF Settled, Here
  <2>8. ASSUME WritesGood' PROVE Synced(s, disk)
    <3>1. Begun(s, disk)
      BY <1>6, <1>8, <1>11, <2>3, <2>4, <2>6, <2>8 DEF Synced, Begun, Same, Here
    <3>2. Follows(Here)
      BY <1>8, <2>8 DEF Synced
    <3>3. Follows(s)
      BY <1>6, <1>11, <2>3, <2>4, <2>6, <3>2 DEF Follows, Here
    <3> QED
      BY <1>2, <1>6, <1>9, <2>8, <3>1, <3>3 DEF Synced
  <2> QED
    BY <1>1, <1>2, <1>3, <1>6, <2>1, <2>7, <2>8, StepKeeps
<1> QED
  BY <1>10, <1>11

\* The drive interrupts while it works: what it does to the disk and to itself.
LEMMA Interrupted ==
    ASSUME Inv, Interrupting
    PROVE  /\ Advanced(drive) \in Drive /\ OnDisk(Advanced(drive)) /\ drive.op # "idle"
           /\ PortRead \in Content /\ DiskAfter \in [Sector -> Content]
           /\ do_hd # NoHandler => chain # <<>>
<1>1. drive \in Drive /\ OnDisk(drive) /\ disk \in [Sector -> Content] /\ Settled(Here)
  BY InvParts
<1>2. drive.op # "idle"
  BY DEF Interrupting
<1>3. drive.lba \in Sector /\ drive.data \in Content
  BY <1>1 DEF Drive
<1>4. PortRead \in Content /\ DiskAfter \in [Sector -> Content]
  BY <1>1, <1>3, Constants DEF PortRead, DiskAfter
<1>5. do_hd # NoHandler => chain # <<>>
  BY <1>1 DEF Settled, Here
<1> QED
  BY <1>1, <1>2, <1>4, <1>5, AdvancedWell

\* While no write has failed, the drive is at the sector of the first request's buffer
\* that the request has come to.
LEMMA AtHome ==
    ASSUME Inv, WritesGood, chain # <<>>
    PROVE  LET r == chain[1]
           IN  /\ Head(chain) = r /\ r \in Request /\ r.bh \in Buffer /\ Whole(r.bh)
               /\ r.dev = Place[r.bh].dev /\ r.at \in {0, 1}
               /\ r.at = 0 => r.nr_sectors = 2
               /\ r.at = 1 => r.nr_sectors = 1
               /\ drive.lba = Home(r.bh, r.at) /\ drive.left = r.nr_sectors
               /\ drive.lba + 1 = Hd[r.dev].start + r.sector + 1
               /\ do_hd = Handler(r.cmd) /\ drive.op = do_hd
               /\ r.cmd = WRITE => drive.data = buf[r.bh].data[r.at + 1]
               /\ ~wild /\ Agrees(Here, disk) /\ (r.at = 1 => Same(Here, disk, r.bh, 0))
<1>1. PICK r : r = chain[1]
  OBVIOUS
<1>2. Sane(Here) /\ Settled(Here) /\ Synced(Here, disk) /\ Here.chain = chain
  BY InvParts DEF Inv
<1>3. /\ Head(chain) = r /\ r \in Request /\ Fits(r) /\ r.bh \in Buffer /\ r.at \in 0 .. 1
      /\ r.nr_sectors \in 1 .. 2 /\ Whole(r.bh)
  BY <1>1, <1>2, FirstRequest DEF Settled
<1>4. /\ do_hd = Handler(r.cmd) /\ drive.op = do_hd /\ drive.left = r.nr_sectors
      /\ drive.lba = Hd[r.dev].start + r.sector
      /\ r.cmd = WRITE => drive.data = buf[r.bh].data[r.at + 1]
  BY <1>1, <1>2 DEF Synced, Follows, Here
<1>5. /\ r.at = 0 => r.nr_sectors = 2
      /\ r.at = 1 => r.nr_sectors = 1
  BY <1>3 DEF Fits
<1>6. drive.lba = Home(r.bh, r.at)
  <2>1. PICK d \in Part, k \in Nat : d = Place[r.bh].dev /\ k = Place[r.bh].block
    BY <1>3, Constants
  <2>2. PICK a \in Nat : a = Hd[d].start
    BY <2>1, HdAssumption
  <2>3. drive.lba = a + (2 * k + r.at)
    BY <1>3, <1>4, <2>1, <2>2 DEF Fits
  <2>4. Home(r.bh, r.at) = a + 2 * k + r.at
    BY <2>1, <2>2 DEF Home
  <2> QED
    BY <1>3, <2>3, <2>4
<1>7. ~wild /\ Agrees(Here, disk) /\ (r.at = 1 => Same(Here, disk, r.bh, 0))
  BY <1>1, <1>2 DEF Synced, Begun, Here
<1> QED
  BY <1>1, <1>3, <1>4, <1>5, <1>6, <1>7 DEF Fits

\* read_intr, as far as its calls of end_request and do_hd_request.
ReadOn(s) == IF s.chain[1].nr_sectors > 1 THEN WithNext(s, "read_intr") ELSE Done(s)

\* read_intr in these terms.
LEMMA ReadIntrForm ==
    ASSUME Inv, ReadIntr
    PROVE  /\ chain # <<>> /\ Interrupting /\ do_hd = "read_intr"
           /\ Becomes(ReadOn(Took(Here, PortRead, Advanced(drive))))
           /\ disk' = DiskAfter /\ faults' = faults
<1>1. do_hd = "read_intr" /\ Interrupting /\ disk' = DiskAfter /\ faults' = faults
  BY DEF ReadIntr
<1>2. chain # <<>>
  BY <1>1, Interrupted DEF NoHandler
<1>3. PICK r : r = chain[1]
  OBVIOUS
<1>4. Head(chain) = r
  BY <1>2, <1>3, InvParts, HeadTailProperties
<1>5. PICK s : s = Took(Here, PortRead, Advanced(drive))
  OBVIOUS
<1>6. s = [Here EXCEPT !.buf[r.bh].data[r.at + 1] = PortRead, !.drive = Advanced(@), !.do_hd = NoHandler]
  BY <1>4, <1>5 DEF Took, Here
<1>7. s.chain = chain
  BY <1>6 DEF Here
<1>8. IF r.nr_sectors > 1
      THEN Becomes([s EXCEPT !.chain[1] = NextSector(r), !.do_hd = "read_intr"])
      ELSE Becomes(Done(s))
  BY <1>4, <1>6 DEF ReadIntr
<1>9. Becomes(ReadOn(s))
  BY <1>3, <1>7, <1>8 DEF ReadOn, WithNext
<1> QED
  BY <1>1, <1>2, <1>5, <1>9

\* read_intr has read the sector at the request's place into the buffer's sector of that
\* place; the next sector, or the next request, is the drive's.
LEMMA ReadIntrKeeps ==
    ASSUME Inv, ReadIntr
    PROVE  Inv'
<1>1. /\ chain # <<>> /\ Interrupting /\ do_hd = "read_intr"
      /\ Becomes(ReadOn(Took(Here, PortRead, Advanced(drive))))
      /\ disk' = DiskAfter /\ faults' = faults
  BY ReadIntrForm
<1>2. PICK v, d : v = PortRead /\ d = Advanced(drive)
  OBVIOUS
<1>3. v \in Content /\ d \in Drive /\ OnDisk(d) /\ drive.op # "idle" /\ disk' \in [Sector -> Content]
  BY <1>1, <1>2, Interrupted
<1>4. PICK s : s = Took(Here, v, d)
  OBVIOUS
<1>5. PICK r : r = chain[1]
  OBVIOUS
<1>6. PICK b, i : b = r.bh /\ i = r.at
  OBVIOUS
<1>7. /\ Sane(Here) /\ Settled(Here) /\ Here.chain = chain /\ Here.buf = buf /\ Here.wild = wild
      /\ buf \in [Buffer -> BufferHead] /\ faults \in [Cmd -> 0 .. MaxFaults]
      /\ drive \in Drive /\ OnDisk(drive)
  BY InvParts
<1>8. /\ Sane(s) /\ Settled(s) /\ s.chain = chain /\ s.wild = wild /\ s.drive = d
      /\ \A x \in Buffer : x # b => s.buf[x] = buf[x]
      /\ s.buf[b].lock /\ s.buf[b].data[i + 1] = v
      /\ \A j \in {0, 1} : j # i => s.buf[b].data[j + 1] = buf[b].data[j + 1]
  <2>1. TakesIn(Here, s, v, d, b, i)
    BY <1>1, <1>3, <1>4, <1>5, <1>6, <1>7, TookWell
  <2> QED
    BY <1>7, <2>1 DEF TakesIn
<1>9. PICK t : t = ReadOn(s)
  OBVIOUS
<1>10. Sane(t) /\ Settled(t)
  <2>1. CASE r.nr_sectors > 1
    <3>1. t = WithNext(s, "read_intr")
      BY <1>5, <1>8, <1>9, <2>1 DEF ReadOn
    <3> QED
      BY <1>1, <1>5, <1>8, <2>1, <3>1, NextSectorWell DEF StepsOn
  <2>2. CASE ~(r.nr_sectors > 1)
    <3>1. t = Done(s)
      BY <1>5, <1>8, <1>9, <2>2 DEF ReadOn
    <3> QED
      BY <1>1, <1>8, <3>1, DoneSane
  <2> QED
    BY <2>1, <2>2
<1>11. ASSUME WritesGood' PROVE Synced(t, disk')
  <2>1. WritesGood
    BY <1>1, <1>11 DEF WritesGood
  <2>2. /\ r \in Request /\ b \in Buffer /\ Whole(b) /\ i \in {0, 1}
        /\ i = 0 => r.nr_sectors = 2
        /\ i = 1 => r.nr_sectors = 1
        /\ drive.lba = Home(b, i) /\ drive.left = r.nr_sectors
        /\ drive.lba + 1 = Hd[r.dev].start + r.sector + 1
        /\ do_hd = Handler(r.cmd) /\ drive.op = do_hd
        /\ ~wild /\ Agrees(Here, disk) /\ (i = 1 => Same(Here, disk, b, 0))
    BY <1>1, <1>5, <1>6, <2>1, AtHome
  <2>3. drive.op = "read_intr" /\ r.cmd # WRITE
    BY <1>1, <2>2, Constants
  <2>4. disk' = disk /\ v = disk[Home(b, i)]
    BY <1>1, <1>2, <2>2, <2>3 DEF DiskAfter, PortRead
  <2>5. Same(s, disk, b, i)
    BY <1>8, <2>4 DEF Same
  <2>6. Agrees(s, disk)
    <3> SUFFICES ASSUME NEW x \in Buffer, s.buf[x].uptodate, ~s.buf[x].lock, ~s.buf[x].dirty
                 PROVE  Same(s, disk, x, 0) /\ Same(s, disk, x, 1)
      BY DEF Agrees
    <3>1. s.buf[x] = buf[x]
      BY <1>8
    <3> QED
      BY <1>7, <2>2, <3>1 DEF Agrees, Same
  <2>7. CASE i = 0
    <3>1. r.nr_sectors = 2 /\ r.nr_sectors > 1
      BY <2>2, <2>7
    <3>2. t = WithNext(s, "read_intr")
      BY <1>5, <1>8, <1>9, <3>1 DEF ReadOn
    <3>3. StepsOn(s, t, "read_intr")
      BY <1>1, <1>5, <1>8, <3>1, <3>2, NextSectorWell
    <3>4. d.op = drive.op /\ d.lba = drive.lba + 1 /\ d.left = 1
      BY <1>2, <1>3, <1>7, <2>2, <3>1, AdvancedWell
    <3>5. Synced(t, disk)
      <4>1. t.drive.op = t.do_hd /\ t.do_hd = Handler(r.cmd) /\ t.drive.left = 1
            /\ t.drive.lba = Hd[r.dev].start + r.sector + 1
        BY <1>1, <1>8, <2>2, <2>3, <3>3, <3>4 DEF StepsOn
      <4>2. t.chain # <<>> /\ t.chain[1] = NextSector(r) /\ t.buf = s.buf /\ ~t.wild
        BY <1>5, <1>8, <2>2, <3>3 DEF StepsOn
      <4>3. s.chain # <<>> /\ s.chain[1] = r
        BY <1>1, <1>5, <1>8
      <4>4. Same(s, disk, r.bh, 0)
        BY <1>6, <2>5, <2>7
      <4> QED
        BY <1>8, <2>3, <2>6, <3>1, <4>1, <4>2, <4>3, <4>4, NextSyncs
    <3> QED
      BY <2>4, <3>5
  <2>8. CASE i = 1
    <3>1. r.nr_sectors = 1 /\ ~(r.nr_sectors > 1)
      BY <2>2, <2>8
    <3>2. t = Done(s)
      BY <1>5, <1>8, <1>9, <3>1 DEF ReadOn
    <3>3. s.drive = Idle
      BY <1>2, <1>3, <1>7, <1>8, <2>2, <3>1, AdvancedWell
    <3>4. Same(s, disk, b, 0)
      <4>1. s.buf[b].data[0 + 1] = buf[b].data[0 + 1]
        BY <1>8, <2>8
      <4> QED
        BY <1>7, <2>2, <2>8, <4>1 DEF Same
    <3>5. Synced(t, disk)
      <4>1. s.chain # <<>> /\ s.chain[1].bh = b /\ ~s.wild
        BY <1>1, <1>5, <1>6, <1>8, <2>2
      <4>2. Same(s, disk, s.chain[1].bh, 0) /\ Same(s, disk, s.chain[1].bh, 1)
        BY <2>5, <2>8, <3>4, <4>1
      <4> QED
        BY <1>8, <2>6, <3>2, <3>3, <4>1, <4>2, DoneSyncs
    <3> QED
      BY <2>4, <3>5
  <2> QED
    BY <2>2, <2>7, <2>8
<1>12. Becomes(t)
  BY <1>1, <1>2, <1>4, <1>9
<1>13. faults' \in [Cmd -> 0 .. MaxFaults]
  BY <1>1, <1>7
<1> QED
  BY <1>3, <1>10, <1>11, <1>12, <1>13, StepKeeps

\* After a failed read the first request, as far as it has come, is started anew.
LEMMA ReadIntrErrorKeeps ==
    ASSUME Inv, ReadIntrError
    PROVE  Inv'
<1>1. Interrupting /\ do_hd = "read_intr" /\ disk' = disk
      /\ faults' = [faults EXCEPT ![READ] = @ + 1] /\ faults[READ] + faults[WRITE] < MaxFaults
  BY DEF ReadIntrError, Fails
<1>2. PICK s : s = WithDrive(Here, Idle)
  OBVIOUS
<1>3. Becomes(DoHdRequest(s))
  BY <1>2 DEF ReadIntrError, WithDrive
<1>4. /\ Sane(Here) /\ Settled(Here) /\ faults \in [Cmd -> 0 .. MaxFaults] /\ disk \in [Sector -> Content]
      /\ Here.chain = chain /\ Here.buf = buf /\ Here.wild = wild
  BY InvParts
<1>5. Sane(s) /\ s.chain = chain /\ s.buf = buf /\ s.wild = wild /\ s.drive = Idle
  BY <1>2, <1>4, Constants, DriveChanges
<1>6. PICK t : t = DoHdRequest(s)
  OBVIOUS
<1>7. Sane(t) /\ Settled(t)
  BY <1>5, <1>6, RestartSane
<1>8. faults' \in [Cmd -> 0 .. MaxFaults] /\ faults'[WRITE] = faults[WRITE]
  <2>1. faults[READ] \in 0 .. MaxFaults /\ faults[WRITE] \in 0 .. MaxFaults /\ MaxFaults \in Nat
        /\ READ # WRITE /\ READ \in Cmd /\ WRITE \in Cmd
    BY <1>4, Constants DEF Cmd
  <2>2. faults[READ] + 1 \in 0 .. MaxFaults
    BY <1>1, <2>1
  <2>3. faults' = [faults EXCEPT ![READ] = faults[READ] + 1]
    BY <1>1
  <2>4. PICK n \in 0 .. MaxFaults : n = faults[READ] + 1
    BY <2>2
  <2>5. faults' = [faults EXCEPT ![READ] = n]
    BY <2>3, <2>4
  <2> QED
    BY <1>4, <2>1, <2>5
<1>9. ASSUME WritesGood' PROVE Synced(t, disk')
  <2>1. Synced(Here, disk)
    BY <1>8, <1>9 DEF Inv, WritesGood
  <2>2. ~s.wild /\ Agrees(s, disk) /\ Begun(s, disk)
    BY <1>4, <1>5, <2>1 DEF Synced, Agrees, Begun, Same
  <2> QED
    BY <1>1, <1>5, <1>6, <2>2, RestartSyncs
<1> QED
  BY <1>1, <1>3, <1>4, <1>6, <1>7, <1>8, <1>9, StepKeeps

\* The sector that the drive has written is the first request's, and no other buffer's.
LEMMA WrittenHome ==
    ASSUME Inv, WritesGood, chain # <<>>, WriteIntr
    PROVE  LET r == chain[1]
           IN  /\ r.cmd = WRITE
               /\ disk' = [disk EXCEPT ![Home(r.bh, r.at)] = buf[r.bh].data[r.at + 1]]
               /\ Same(Here, disk', r.bh, r.at)
               /\ r.at = 1 => Same(Here, disk', r.bh, 0)
               /\ Agrees(Here, disk')
<1>1. PICK r : r = chain[1]
  OBVIOUS
<1>2. PICK b, i, l : b = r.bh /\ i = r.at /\ l = Home(b, i)
  OBVIOUS
<1>3. /\ r \in Request /\ b \in Buffer /\ Whole(b) /\ i \in {0, 1} /\ drive.lba = l
      /\ do_hd = Handler(r.cmd) /\ drive.op = do_hd
      /\ r.cmd = WRITE => drive.data = buf[b].data[i + 1]
      /\ Agrees(Here, disk) /\ (i = 1 => Same(Here, disk, b, 0))
  BY <1>1, <1>2, AtHome
<1>4. /\ Sane(Here) /\ Here.chain = chain /\ Here.buf = buf /\ disk \in [Sector -> Content]
      /\ buf[b].lock
  BY <1>1, <1>2, InvParts, FirstRequest
<1>5. r.cmd = WRITE /\ drive.op = "write_intr"
  <2>1. do_hd = "write_intr"
    BY DEF WriteIntr
  <2>2. r.cmd \in {READ, WRITE}
    BY <1>3 DEF Request, Cmd
  <2> QED
    BY <1>3, <2>1, <2>2, Constants
<1>6. disk' = [disk EXCEPT ![l] = buf[b].data[i + 1]]
  BY <1>3, <1>5 DEF WriteIntr, DiskAfter
<1>7. l \in Sector /\ Home(b, 1) = Home(b, 0) + 1 /\ Home(b, 0) \in Sector /\ Home(b, 0) \in Int
  BY <1>2, <1>3, Homes, Constants DEF Sector
<1>8. disk'[l] = buf[b].data[i + 1] /\ \A x \in Sector : x # l => disk'[x] = disk[x]
  BY <1>4, <1>6, <1>7
<1>9. Same(Here, disk', b, i)
  BY <1>2, <1>4, <1>8 DEF Same
<1>10. ASSUME i = 1 PROVE Same(Here, disk', b, 0)
  <2>1. Home(b, 0) # l
    BY <1>2, <1>7, <1>10
  <2> QED
    BY <1>3, <1>7, <1>8, <1>10, <2>1 DEF Same
<1>11. Agrees(Here, disk')
  <2> SUFFICES ASSUME NEW x \in Buffer, buf[x].uptodate, ~buf[x].lock, ~buf[x].dirty
               PROVE  Same(Here, disk', x, 0) /\ Same(Here, disk', x, 1)
    BY <1>4 DEF Agrees
  <2>1. x # b /\ Whole(x)
    BY <1>4 DEF Sane
  <2>2. Home(x, 0) # l /\ Home(x, 1) # l /\ Home(x, 0) \in Sector /\ Home(x, 1) \in Sector
    BY <1>2, <1>3, <2>1, Homes
  <2>3. Same(Here, disk, x, 0) /\ Same(Here, disk, x, 1)
    BY <1>3, <1>4 DEF Agrees
  <2> QED
    BY <1>8, <2>2, <2>3 DEF Same
<1> QED
  BY <1>1, <1>2, <1>5, <1>6, <1>9, <1>10, <1>11

\* write_intr goes on with the second sector, or ends the request, both of whose sectors
\* are on the disk then.
LEMMA WriteIntrKeeps ==
    ASSUME Inv, WriteIntr
    PROVE  Inv'
<1>1. Interrupting /\ do_hd = "write_intr" /\ disk' = DiskAfter /\ faults' = faults
  BY DEF WriteIntr
<1>2. PICK d : d = Advanced(drive)
  OBVIOUS
<1>3. d \in Drive /\ OnDisk(d) /\ drive.op # "idle" /\ disk' \in [Sector -> Content] /\ chain # <<>>
  BY <1>1, <1>2, Interrupted DEF NoHandler
<1>4. PICK s : s = WithDrive(Here, d)
  OBVIOUS
<1>5. Becomes(WriteOn(s))
  BY <1>2, <1>4 DEF WriteIntr, WithDrive, Here
<1>6. /\ Sane(Here) /\ Settled(Here) /\ faults \in [Cmd -> 0 .. MaxFaults]
      /\ Here.chain = chain /\ Here.buf = buf /\ Here.wild = wild /\ drive \in Drive /\ OnDisk(drive)
  BY InvParts
<1>7. Sane(s) /\ Settled(s) /\ s.chain = chain /\ s.buf = buf /\ s.wild = wild /\ s.drive = d
  BY <1>3, <1>4, <1>6, DriveChanges
<1>8. PICK t : t = WriteOn(s)
  OBVIOUS
<1>9. Sane(t) /\ Settled(t)
  BY <1>7, <1>8, WriteOnSane
<1>10. ASSUME WritesGood' PROVE Synced(t, disk')
  <2>1. WritesGood
    BY <1>1, <1>10 DEF WritesGood
  <2>2. PICK r : r = chain[1]
    OBVIOUS
  <2>3. PICK b, i : b = r.bh /\ i = r.at
    OBVIOUS
  <2>4. /\ Head(chain) = r /\ r \in Request /\ b \in Buffer /\ i \in {0, 1}
        /\ i = 0 => r.nr_sectors = 2
        /\ i = 1 => r.nr_sectors = 1
        /\ drive.left = r.nr_sectors
        /\ drive.lba + 1 = Hd[r.dev].start + r.sector + 1
        /\ drive.op = do_hd /\ ~wild
    BY <1>3, <2>1, <2>2, <2>3, AtHome
  <2>5. /\ r.cmd = WRITE /\ Same(Here, disk', b, i) /\ (i = 1 => Same(Here, disk', b, 0))
        /\ Agrees(Here, disk')
    BY <1>3, <2>1, <2>2, <2>3, WrittenHome
  <2>6. Agrees(s, disk') /\ Same(s, disk', b, i) /\ (i = 1 => Same(s, disk', b, 0))
    BY <1>6, <1>7, <2>5 DEF Agrees, Same
  <2>7. s.chain # <<>> /\ s.chain[1] = r /\ Head(s.chain) = r
    BY <1>3, <1>7, <2>2, <2>4
  <2>8. CASE i = 0
    <3>1. r.nr_sectors = 2 /\ r.nr_sectors > 1 /\ s.chain[1].nr_sectors > 1
      BY <2>4, <2>7, <2>8
    <3>2. d.op = "write_intr" /\ d.lba = drive.lba + 1 /\ d.left = 1 /\ d.data = NoData
      BY <1>1, <1>2, <1>3, <1>6, <2>4, <3>1, AdvancedWell
    <3>3. PICK u : u = WithNext(s, "write_intr")
      OBVIOUS
    <3>4. StepsOn(s, u, "write_intr")
      BY <1>7, <2>7, <3>1, <3>3, NextSectorWell
    <3>5. /\ Sane(u) /\ u.chain # <<>> /\ u.chain[1] = NextSector(r) /\ u.do_hd = "write_intr"
          /\ u.buf = s.buf /\ u.drive = d /\ u.wild = s.wild
      BY <1>7, <2>7, <3>4 DEF StepsOn
    <3>6. PICK q : q = NextSector(r)
      OBVIOUS
    <3>7. q.bh = b /\ q.at = 1
      <4>1. r.at = 0 /\ r.at + 1 = 1
        BY <2>3, <2>8
      <4> QED
        BY <2>3, <2>4, <3>6, <4>1 DEF NextSector, Request
    <3>8. t = PortWrite(u, q)
      BY <1>8, <2>7, <3>1, <3>3, <3>6 DEF WriteOn, WithNext
    <3>9. PortsOut(u, t, q)
      BY <2>4, <3>5, <3>7, <3>8, PortWriteWell
    <3>10. /\ t.chain = u.chain /\ t.buf = s.buf /\ t.wild = s.wild /\ t.do_hd = "write_intr"
           /\ t.drive = [d EXCEPT !.data = s.buf[b].data[2]]
      <4>1. 1 + 1 = 2
        OBVIOUS
      <4> QED
        BY <3>2, <3>5, <3>7, <3>9, <4>1 DEF PortsOut
    <3>11. t.drive.op = "write_intr" /\ t.drive.lba = drive.lba + 1 /\ t.drive.left = 1
           /\ t.drive.data = s.buf[b].data[2]
      BY <1>3, <3>2, <3>10 DEF Drive
    <3>12. Handler(r.cmd) = "write_intr"
      BY <2>5, Constants
    <3>13. /\ t.chain # <<>> /\ t.chain[1] = NextSector(r) /\ ~t.wild /\ t.do_hd = Handler(r.cmd)
           /\ t.drive.op = t.do_hd /\ t.drive.lba = Hd[r.dev].start + r.sector + 1
      BY <1>7, <2>4, <3>5, <3>10, <3>11, <3>12
    <3>14. Same(s, disk', r.bh, 0) /\ t.drive.data = s.buf[r.bh].data[2]
      BY <2>3, <2>6, <2>8, <3>11
    <3> QED
      BY <1>7, <2>6, <2>7, <3>1, <3>10, <3>11, <3>13, <3>14, NextSyncs
  <2>9. CASE i = 1
    <3>1. r.nr_sectors = 1 /\ ~(r.nr_sectors > 1)
      BY <2>4, <2>9
    <3>2. t = Done(s)
      BY <1>8, <2>7, <3>1 DEF WriteOn
    <3>3. s.drive = Idle /\ ~s.wild
      BY <1>2, <1>3, <1>6, <1>7, <2>4, <3>1, AdvancedWell
    <3>4. Same(s, disk', s.chain[1].bh, 0) /\ Same(s, disk', s.chain[1].bh, 1)
      BY <2>3, <2>6, <2>7, <2>9
    <3> QED
      BY <1>7, <2>6, <2>7, <3>2, <3>3, <3>4, DoneSyncs
  <2> QED
    BY <2>4, <2>8, <2>9
<1> QED
  BY <1>1, <1>3, <1>5, <1>6, <1>8, <1>9, <1>10, StepKeeps

\* After a failed write the requests and locks still agree; nothing else is claimed.
LEMMA WriteIntrErrorKeeps ==
    ASSUME Inv, WriteIntrError
    PROVE  Inv'
<1>1. disk' = disk /\ faults' = [faults EXCEPT ![WRITE] = @ + 1] /\ faults[READ] + faults[WRITE] < MaxFaults
  BY DEF WriteIntrError, Fails
<1>2. PICK s : s = WithDrive(Here, Idle)
  OBVIOUS
<1>3. Becomes(WriteOn(DoHdRequest(s)))
  BY <1>2 DEF WriteIntrError, WithDrive
<1>4. /\ Sane(Here) /\ Settled(Here) /\ faults \in [Cmd -> 0 .. MaxFaults] /\ disk \in [Sector -> Content]
  BY InvParts
<1>5. Sane(s)
  BY <1>2, <1>4, Constants, DriveChanges
<1>6. PICK u : u = DoHdRequest(s)
  OBVIOUS
<1>7. Sane(u) /\ Settled(u)
  BY <1>5, <1>6, RestartSane
<1>8. PICK t : t = WriteOn(u)
  OBVIOUS
<1>9. Sane(t) /\ Settled(t)
  BY <1>7, <1>8, WriteOnSane
<1>10. faults' \in [Cmd -> 0 .. MaxFaults] /\ faults'[WRITE] # 0
  <2>1. faults[READ] \in 0 .. MaxFaults /\ faults[WRITE] \in 0 .. MaxFaults /\ MaxFaults \in Nat /\ WRITE \in Cmd
    BY <1>4 , Constants DEF Cmd
  <2>2. faults[WRITE] + 1 \in 0 .. MaxFaults /\ faults[WRITE] + 1 # 0
    BY <1>1, <2>1
  <2> QED
    BY <1>1, <1>4, <2>1, <2>2
<1> QED
  BY <1>1, <1>3, <1>4, <1>6, <1>8, <1>9, <1>10, StepKeeps DEF WritesGood

\* While no write has failed, the drive never interrupts without a handler.
LEMMA NeverUnexpected ==
    ASSUME Inv, Unexpected
    PROVE  ~WritesGood
<1>1. do_hd = NoHandler /\ Interrupting /\ drive.op # "idle"
  BY DEF Unexpected, Interrupting
<1>2. ASSUME WritesGood PROVE FALSE
  <2>1. CASE chain = <<>>
    <3>1. drive = Idle
      BY <1>2, <2>1 DEF Inv, Synced, Follows, Here
    <3> QED
      BY <1>1, <3>1 DEF Idle
  <2>2. CASE chain # <<>>
    <3>1. PICK r : r = chain[1]
      OBVIOUS
    <3>2. r \in Request /\ do_hd = Handler(r.cmd)
      BY <1>2, <2>2, <3>1, AtHome
    <3>3. r.cmd \in {READ, WRITE}
      BY <3>2 DEF Request, Cmd
    <3> QED
      BY <1>1, <3>2, <3>3, Constants DEF NoHandler
  <2> QED
    BY <2>1, <2>2
<1> QED
  BY <1>2

\* A transfer that ends without a handler leaves requests and buffers alone.
LEMMA UnexpectedKeeps ==
    ASSUME Inv, Unexpected
    PROVE  Inv'
<1>1. /\ Interrupting /\ do_hd = NoHandler /\ disk' = DiskAfter /\ drive' = Advanced(drive)
      /\ chain' = chain /\ do_hd' = do_hd /\ buf' = buf /\ wild' = wild /\ faults' = faults
  BY DEF Unexpected
<1>2. PICK d : d = Advanced(drive)
  OBVIOUS
<1>3. d \in Drive /\ OnDisk(d) /\ disk' \in [Sector -> Content]
  BY <1>1, <1>2, Interrupted
<1>4. PICK t : t = WithDrive(Here, d)
  OBVIOUS
<1>5. /\ t.chain = chain /\ t.do_hd = do_hd /\ t.buf = buf /\ t.drive = d /\ t.wild = wild
  BY <1>1, <1>4 DEF WithDrive, Here
<1>6. Becomes(t)
  BY <1>1, <1>2, <1>5 DEF Becomes
<1>7. Sane(Here) /\ Settled(Here) /\ faults \in [Cmd -> 0 .. MaxFaults]
  BY InvParts
<1>8. Sane(t) /\ Settled(t)
  BY <1>3, <1>4, <1>7, DriveChanges
<1>9. ~WritesGood'
  BY <1>1, NeverUnexpected DEF WritesGood
<1> QED
  BY <1>1, <1>3, <1>6, <1>7, <1>8, <1>9, StepKeeps

\* Every step keeps the invariant.
LEMMA NextKeeps ==
    ASSUME Inv, [Next]_vars
    PROVE  Inv'
<1>1. ASSUME NEW b \in Buffer, Modify(b) PROVE Inv'
  BY <1>1, ModifyKeeps
<1>2. ASSUME NEW b \in Buffer, NEW cmd \in Cmd, Submit(b, cmd) PROVE Inv'
  BY <1>2, SubmitKeeps
<1>3. CASE HdInterrupt
  BY <1>3, ReadIntrKeeps, ReadIntrErrorKeeps, WriteIntrKeeps, WriteIntrErrorKeeps, UnexpectedKeeps
     DEF HdInterrupt
<1>4. CASE UNCHANGED vars
  <2>1. PICK t : t = Here
    OBVIOUS
  <2>2. Becomes(t) /\ disk' = disk /\ faults' = faults
    BY <1>4, <2>1 DEF Becomes, Here, vars
  <2>3. WritesGood' => Synced(t, disk)
    BY <2>1, <2>2 DEF Inv, WritesGood
  <2> QED
    BY <2>1, <2>2, <2>3, InvParts, StepKeeps
<1> QED
  BY <1>1, <1>2, <1>3, <1>4 DEF Next

\* The invariant holds of every behaviour.
THEOREM HdInvariant == Spec => []Inv
<1>1. Init => Inv
  BY InitHolds
<1>2. Inv /\ [Next]_vars => Inv'
  BY NextKeeps
<1> QED
  BY <1>1, <1>2, PTL DEF Spec

\* What the run checks follows from the invariant.
LEMMA InvSound ==
    ASSUME Inv
    PROVE  TransferSound
<1>1. /\ Sane(Here) /\ Settled(Here) /\ chain \in Seq(Request) /\ Len(chain) \in Nat
      /\ buf \in [Buffer -> BufferHead] /\ drive \in Drive /\ wild \in BOOLEAN
      /\ disk \in [Sector -> Content] /\ faults \in [Cmd -> 0 .. MaxFaults]
      /\ do_hd \in {NoHandler, "read_intr", "write_intr"} /\ DOMAIN chain = 1 .. Len(chain)
      /\ Queued(chain) /\ Locked(chain, buf) /\ Here.chain = chain
  BY InvParts, DriverParts DEF Sane
<1>2. TypeOK
  BY <1>1 DEF TypeOK, BufferHead, Drive
<1>3. LockedHasRequest
  <2> SUFFICES ASSUME NEW b \in Buffer
               PROVE  Cardinality({i \in DOMAIN chain : chain[i].bh = b}) = IF buf[b].lock THEN 1 ELSE 0
    BY DEF LockedHasRequest
  <2>1. CASE buf[b].lock
    <3>1. PICK i \in 1 .. Len(chain) : chain[i].bh = b
      BY <1>1, <2>1 DEF Locked
    <3>2. {j \in DOMAIN chain : chain[j].bh = b} = {i}
      BY <1>1, <3>1 DEF Queued
    <3> QED
      BY <2>1, <3>2, FS_Singleton
  <2>2. CASE ~buf[b].lock
    <3>1. {j \in DOMAIN chain : chain[j].bh = b} = {}
      BY <1>1, <2>2 DEF Locked
    <3> QED
      BY <2>2, <3>1, FS_EmptySet
  <2> QED
    BY <2>1, <2>2
<1>4. ASSUME WritesGood PROVE DriveFollows /\ ~wild
  <2>1. CASE chain = <<>>
    BY <1>4, <2>1 DEF Inv, Synced, Follows, Here, DriveFollows
  <2>2. CASE chain # <<>>
    <3>1. PICK r : r = chain[1]
      OBVIOUS
    <3>2. Head(chain) = r /\ Fits(r)
      BY <1>1, <2>2, <3>1, FirstRequest
    <3>3. /\ do_hd = Handler(r.cmd) /\ drive.op = do_hd /\ drive.left = r.nr_sectors
          /\ drive.lba = Hd[r.dev].start + r.sector /\ ~wild
      BY <1>4, <2>2, <3>1 DEF Inv, Synced, Follows, Here
    <3> QED
      BY <2>2, <3>2, <3>3 DEF DriveFollows, Fits
  <2> QED
    BY <2>1, <2>2
<1>5. UptodateAgrees
  <2> SUFFICES ASSUME WritesGood, NEW b \in Buffer, buf[b].uptodate, ~buf[b].lock, ~buf[b].dirty,
                      NEW i \in {0, 1}
               PROVE  buf[b].data[i + 1] = disk[Home(b, i)]
    BY DEF UptodateAgrees
  <2>1. Same(Here, disk, b, 0) /\ Same(Here, disk, b, 1)
    BY DEF Inv, Synced, Agrees, Here
  <2> QED
    BY <2>1 DEF Same, Here
<1> QED
  BY <1>2, <1>3, <1>4, <1>5 DEF TransferSound, InStep

\* Driver and drive stay in step, and a buffer that is up to date has what the disk has.
THEOREM TransferSoundTheorem == Spec => []TransferSound
<1>1. Inv => TransferSound
  BY InvSound
<1> QED
  BY <1>1, HdInvariant, PTL

----------------------------------------------------------------------------
\* What a write may change.

\* Only write_intr after a good status has a sector changed, its request's.
LEMMA LandsHome ==
    ASSUME Inv, [Next]_vars, WritesGood, NEW l \in Sector, disk'[l] # disk[l]
    PROVE  /\ chain # <<>>
           /\ Head(chain).cmd = WRITE
           /\ \E i \in {0, 1} : l = Home(Head(chain).bh, i)
           /\ LET d == Head(chain).dev IN l \in Hd[d].start .. Hd[d].start + Hd[d].nr - 1
<1>1. disk' # disk
  OBVIOUS
<1>2. ~ReadIntr
  <2>1. ASSUME ReadIntr PROVE FALSE
    <3>1. chain # <<>> /\ do_hd = "read_intr" /\ disk' = DiskAfter
      BY <2>1, ReadIntrForm
    <3>2. drive.op = "read_intr"
      BY <3>1, AtHome
    <3> QED
      BY <1>1, <3>1, <3>2 DEF DiskAfter
  <2> QED
    BY <2>1
<1>3. WriteIntr
  BY <1>1, <1>2, NeverUnexpected
     DEF Next, HdInterrupt, Modify, Submit, ReadIntrError, WriteIntrError, Unexpected, vars
<1>4. chain # <<>>
  BY <1>3, Interrupted DEF WriteIntr, NoHandler
<1>5. PICK r : r = chain[1]
  OBVIOUS
<1>6. PICK b, i : b = r.bh /\ i = r.at
  OBVIOUS
<1>7. /\ Head(chain) = r /\ b \in Buffer /\ Whole(b) /\ i \in {0, 1} /\ r.dev = Place[b].dev
  BY <1>4, <1>5, <1>6, AtHome
<1>8. r.cmd = WRITE /\ disk' = [disk EXCEPT ![Home(b, i)] = buf[b].data[i + 1]]
  BY <1>3, <1>4, <1>5, <1>6, WrittenHome
<1>9. l = Home(b, i)
  BY <1>8, InvParts
<1>10. l \in Hd[r.dev].start .. Hd[r.dev].start + Hd[r.dev].nr - 1
  <2>1. PICK d \in Part, k \in Nat : d = Place[b].dev /\ k = Place[b].block
    BY <1>7, Constants
  <2>2. PICK a, n \in Nat : a = Hd[d].start /\ n = Hd[d].nr
    BY <2>1, HdAssumption
  <2>3. l = a + 2 * k + i /\ 2 * k + 2 <= n
    BY <1>7, <1>9, <2>1, <2>2 DEF Home, Whole
  <2>4. l \in a .. a + n - 1
    BY <1>7, <2>1, <2>2, <2>3
  <2> QED
    BY <1>7, <2>1, <2>2, <2>4
<1> QED
  BY <1>4, <1>6, <1>7, <1>8, <1>9, <1>10

\* While no write has failed, only the block of the write in progress changes on the
\* disk, and it lies in its device.
THEOREM WritesLandHomeTheorem == Spec => WritesLandHome
<1>1. Inv /\ [Next]_vars =>
         [WritesGood => \A l \in Sector : disk'[l] # disk[l] =>
             /\ chain # <<>>
             /\ Head(chain).cmd = WRITE
             /\ \E i \in {0, 1} : l = Home(Head(chain).bh, i)
             /\ LET d == Head(chain).dev IN l \in Hd[d].start .. Hd[d].start + Hd[d].nr - 1]_vars
  BY LandsHome
<1> QED
  BY <1>1, HdInvariant, PTL DEF Spec, WritesLandHome

----------------------------------------------------------------------------
\* Which requests end with an error.

\* The buffers that end not up to date on the way from s to t hold blocks that reach
\* past the end of their device, with k sectors allowed for the place of the request.
EndsAtEnd(s, t, k) ==
    \A b \in Buffer : s.buf[b].lock /\ ~t.buf[b].lock /\ ~t.buf[b].uptodate =>
        2 * Place[b].block + 2 + k > Hd[Place[b].dev].nr

\* What the test of do_hd_request means for the block.
LEMMA OutsideAtEnd ==
    ASSUME NEW s, Sane(s), NEW i \in 1 .. Len(s.chain), ~InDevice(s.chain[i])
    PROVE  LET r == s.chain[i]
           IN  /\ r.bh \in Buffer /\ r.at \in 0 .. 1 /\ (i # 1 => r.at = 0)
               /\ 2 * Place[r.bh].block + 2 + r.at > Hd[Place[r.bh].dev].nr
<1>1. PICK r : r = s.chain[i]
  OBVIOUS
<1>2. r \in Request /\ Fits(r) /\ (i # 1 => r.at = 0)
  BY <1>1, DriverParts DEF Sane, Queued
<1>3. r.bh \in Buffer /\ r.at \in 0 .. 1 /\ r.dev = Place[r.bh].dev /\ r.sector = 2 * Place[r.bh].block + r.at
  BY <1>2 DEF Request, Fits
<1>4. PICK d \in Part, k \in Nat : d = Place[r.bh].dev /\ k = Place[r.bh].block
  BY <1>3, Constants
<1>5. PICK n \in Nat : n = Hd[d].nr
  BY <1>4, HdAssumption
<1>6. PICK a \in 0 .. 1 : a = r.at
  BY <1>3
<1>7. ~((2 * k + a) + 2 <= n)
  BY <1>1, <1>3, <1>4, <1>5, <1>6 DEF InDevice
<1>8. 2 * k + 2 + a > n
  BY <1>7
<1> QED
  BY <1>1, <1>2, <1>3, <1>4, <1>5, <1>6, <1>8

\* do_hd_request tests a request that has been begun as if its second sector were a block.
LEMMA RestartEnds ==
    ASSUME NEW s, Sane(s)
    PROVE  /\ EndsAtEnd(s, DoHdRequest(s), 1)
           /\ \A b \in Buffer : \/ DoHdRequest(s).buf[b] = s.buf[b]
                                \/ ~DoHdRequest(s).buf[b].lock /\ ~DoHdRequest(s).buf[b].uptodate
<1>1. PICK t : t = DoHdRequest(s)
  OBVIOUS
<1>2. EndsAtEnd(s, t, 1)
  <2> SUFFICES ASSUME NEW b \in Buffer, s.buf[b].lock, ~t.buf[b].lock
               PROVE  2 * Place[b].block + 2 + 1 > Hd[Place[b].dev].nr
    BY DEF EndsAtEnd
  <2>1. PICK i \in 1 .. Len(s.chain) : s.chain[i].bh = b /\ ~InDevice(s.chain[i])
    BY <1>1, RestartRefuses
  <2>2. s.chain[i].at \in 0 .. 1 /\ 2 * Place[b].block + 2 + s.chain[i].at > Hd[Place[b].dev].nr
    BY <2>1, OutsideAtEnd
  <2>3. PICK d \in Part, k \in Nat : d = Place[b].dev /\ k = Place[b].block
    BY Constants
  <2>4. PICK n \in Nat : n = Hd[d].nr
    BY <2>3, HdAssumption
  <2>5. PICK a \in 0 .. 1 : a = s.chain[i].at
    BY <2>2
  <2>6. 2 * k + 2 + a > n
    BY <2>2, <2>3, <2>4, <2>5
  <2>7. 2 * k + 2 + 1 > n
    BY <2>6
  <2> QED
    BY <2>3, <2>4, <2>7
<1>3. ASSUME NEW b \in Buffer, t.buf[b] # s.buf[b] PROVE ~t.buf[b].lock /\ ~t.buf[b].uptodate
  <2>1. s \in Driver /\ Queued(s.chain) /\ s.buf \in [Buffer -> BufferHead]
    BY DriverParts DEF Sane
  <2>2. PICK n \in 0 .. Len(s.chain) : Restarted(s, t, n)
    BY <1>1, <2>1, RestartForm
  <2>3. t.buf[b] = Refused(s.buf[b]) /\ s.buf[b] \in BufferHead
    BY <1>3, <2>1, <2>2 DEF Restarted
  <2> QED
    BY <2>3 DEF Refused, Finished, BufferHead
<1> QED
  BY <1>1, <1>2, <1>3

\* After a request is done, the requests behind it have not been begun.
LEMMA DoneEnds ==
    ASSUME NEW s, Sane(s), Settled(s), s.chain # <<>>
    PROVE  EndsAtEnd(s, Done(s), 0)
<1>1. PICK u, b : u = Ended(s) /\ b = s.chain[1].bh
  OBVIOUS
<1>2. PICK t : t = DoHdRequest(u)
  OBVIOUS
<1>3. Done(s) = t
  BY <1>1, <1>2 DEF Done, Ended
<1>4. /\ Sane(u) /\ u.buf = [s.buf EXCEPT ![b] = Finished(s.buf[b], TRUE)]
      /\ \A i \in 1 .. Len(u.chain) : u.chain[i].at = 0
  BY <1>1, EndedWell DEF EndsWell
<1>5. b \in Buffer /\ s.buf \in [Buffer -> BufferHead] /\ s.buf[b] \in BufferHead
  BY <1>1, FirstRequest, DriverParts DEF Sane
<1> SUFFICES ASSUME NEW x \in Buffer, s.buf[x].lock, ~t.buf[x].lock, ~t.buf[x].uptodate
             PROVE  2 * Place[x].block + 2 + 0 > Hd[Place[x].dev].nr
  BY <1>3 DEF EndsAtEnd
<1>6. t.buf[x] # u.buf[x]
  <2>1. CASE x = b
    <3>1. u.buf[x].uptodate
      BY <1>4, <1>5, <2>1 DEF Refused, Finished, BufferHead
    <3> QED
      BY <3>1
  <2>2. CASE x # b
    <3>1. u.buf[x] = s.buf[x]
      BY <1>4, <1>5, <2>2
    <3> QED
      BY <3>1
  <2> QED
    BY <2>1, <2>2
<1>7. PICK i \in 1 .. Len(u.chain) : u.chain[i].bh = x /\ ~InDevice(u.chain[i])
  <2>1. Sane(u)
    BY <1>4
  <2> QED
    BY <1>2, <1>6, <2>1, RestartRefuses
<1>8. 2 * Place[x].block + 2 + u.chain[i].at > Hd[Place[x].dev].nr /\ u.chain[i].at = 0
  BY <1>4, <1>7, OutsideAtEnd
<1> QED
  BY <1>8

\* What write_intr starts next has not been begun.
LEMMA WriteOnEnds ==
    ASSUME NEW s, Sane(s), Settled(s)
    PROVE  EndsAtEnd(s, WriteOn(s), 0)
<1>1. CASE s.chain = <<>>
  <2>1. WriteOn(s).buf = s.buf
    BY <1>1 DEF WriteOn, Sane, Driver
  <2> QED
    BY <2>1 DEF EndsAtEnd
<1>2. CASE s.chain # <<>>
  <2>1. PICK r : r = s.chain[1]
    OBVIOUS
  <2>2. Head(s.chain) = r
    BY <1>2, <2>1, FirstRequest
  <2>3. CASE r.nr_sectors > 1
    <3>1. PICK u : u = WithNext(s, "write_intr")
      OBVIOUS
    <3>2. Sane(u) /\ u.chain # <<>> /\ u.chain[1] = NextSector(r) /\ u.buf = s.buf
      BY <1>2, <2>1, <2>3, <3>1, NextSectorWell DEF StepsOn
    <3>3. WriteOn(s) = PortWrite(u, NextSector(r))
      BY <1>2, <2>1, <2>2, <2>3, <3>1 DEF WriteOn, WithNext
    <3>4. PICK q : q = NextSector(r)
      OBVIOUS
    <3>5. q.bh \in Buffer /\ q.at \in 0 .. 1
      BY <3>2, <3>4, FirstRequest
    <3>6. PortsOut(u, PortWrite(u, q), q)
      BY <3>2, <3>5, PortWriteWell
    <3>7. WriteOn(s).buf = s.buf
      BY <3>2, <3>3, <3>4, <3>6 DEF PortsOut
    <3> QED
      BY <3>7 DEF EndsAtEnd
  <2>4. CASE ~(r.nr_sectors > 1)
    <3>1. WriteOn(s) = Done(s)
      BY <1>2, <2>2, <2>4 DEF WriteOn
    <3> QED
      BY <1>2, <3>1, DoneEnds
  <2> QED
    BY <2>3, <2>4
<1> QED
  BY <1>1, <1>2

\* ErrorOnlyAtEnd's step.
ErrorsAtEnd ==
    \A b \in Buffer :
        buf[b].lock /\ ~buf'[b].lock /\ ~buf'[b].uptodate =>
            2 * Place[b].block + 2 + (IF faults' # [cmd \in Cmd |-> 0] THEN 1 ELSE 0)
                > Hd[Place[b].dev].nr

\* The errors of a step, from those of the functions that it calls.
LEMMA StepEnds ==
    ASSUME NEW s, NEW t, NEW k \in {0, 1}, EndsAtEnd(s, t, k), k = 1 => faults' # [cmd \in Cmd |-> 0],
           \A b \in Buffer : buf[b].lock => s.buf[b].lock, buf' = t.buf
    PROVE  ErrorsAtEnd
<1> SUFFICES ASSUME NEW b \in Buffer, buf[b].lock, ~buf'[b].lock, ~buf'[b].uptodate
             PROVE  2 * Place[b].block + 2 + (IF faults' # [cmd \in Cmd |-> 0] THEN 1 ELSE 0)
                        > Hd[Place[b].dev].nr
  BY DEF ErrorsAtEnd
<1>1. PICK m, n \in Nat : m = Place[b].block /\ n = Hd[Place[b].dev].nr
  BY Constants
<1>2. 2 * m + 2 + k > n
  BY <1>1 DEF EndsAtEnd
<1>3. PICK j \in {0, 1} : j = (IF faults' # [cmd \in Cmd |-> 0] THEN 1 ELSE 0) /\ (k = 1 => j = 1)
  OBVIOUS
<1>4. 2 * m + 2 + j > n
  BY <1>2, <1>3
<1> QED
  BY <1>1, <1>3, <1>4

\* Only do_hd_request ends requests with an error, and only a failed transfer makes it
\* test one that has been begun.
LEMMA NextEnds ==
    ASSUME Inv, [Next]_vars
    PROVE  ErrorsAtEnd
<1>0. /\ Sane(Here) /\ Settled(Here) /\ Here.buf = buf /\ Here.chain = chain
      /\ buf \in [Buffer -> BufferHead] /\ Len(chain) \in Nat /\ faults \in [Cmd -> 0 .. MaxFaults]
  BY InvParts
<1>1. ASSUME buf' = buf PROVE ErrorsAtEnd
  BY <1>1 DEF ErrorsAtEnd
<1>2. ASSUME NEW b \in Buffer, Modify(b) PROVE ErrorsAtEnd
  <2>1. \A x \in Buffer : buf'[x].lock = buf[x].lock
    BY <1>0, <1>2 DEF Modify, BufferHead
  <2> QED
    BY <2>1 DEF ErrorsAtEnd
<1>3. ASSUME NEW b \in Buffer, NEW cmd \in Cmd, Submit(b, cmd) PROVE ErrorsAtEnd
  <2>1. PICK t : Submitted(b, cmd, t) /\ Becomes(t) /\ ~buf[b].lock
    BY <1>3, SubmitForm
  <2>2. CASE chain = <<>>
    <3>1. \A x \in Buffer : ~buf[x].lock
      <4>1. Len(chain) = 0
        BY <2>2
      <4> QED
        BY <1>0, <4>1 DEF Sane, Locked
    <3> QED
      BY <3>1 DEF ErrorsAtEnd
  <2>3. CASE chain # <<>>
    <3>1. PICK e, i : /\ Inserted(chain, e, i, NewRequest(b, cmd)) /\ (i = 1 => chain = <<>>)
                      /\ t = WithRequest(b, e)
      BY <2>1, <2>3 DEF Submitted
    <3>2. Joins(t, b, e)
      BY <2>1, <3>1, WithRequestJoins
    <3>3. \A x \in Buffer : buf[x].lock => buf'[x].lock
      BY <2>1, <3>2 DEF Joins, Becomes
    <3> QED
      BY <3>3 DEF ErrorsAtEnd
  <2> QED
    BY <2>2, <2>3
<1>4. CASE ReadIntr
  <2>1. PICK s : s = Took(Here, PortRead, Advanced(drive))
    OBVIOUS
  <2>2. chain # <<>> /\ Interrupting /\ Becomes(ReadOn(s))
    BY <1>4, <2>1, ReadIntrForm
  <2>3. PICK b, i : b = chain[1].bh /\ i = chain[1].at
    OBVIOUS
  <2>4. TakesIn(Here, s, PortRead, Advanced(drive), b, i)
    BY <1>0, <2>1, <2>2, <2>3, Interrupted, TookWell
  <2>5. Sane(s) /\ Settled(s) /\ s.chain = chain /\ \A x \in Buffer : buf[x].lock => s.buf[x].lock
    BY <1>0, <2>4 DEF TakesIn
  <2>6. CASE chain[1].nr_sectors > 1
    <3>1. ReadOn(s) = WithNext(s, "read_intr")
      BY <2>5, <2>6 DEF ReadOn
    <3>2. WithNext(s, "read_intr").buf = s.buf
      BY <2>2, <2>5, <2>6, NextSectorWell DEF StepsOn
    <3>3. buf' = s.buf
      BY <2>2, <3>1, <3>2 DEF Becomes
    <3> QED
      BY <2>5, <3>3 DEF ErrorsAtEnd
  <2>7. CASE ~(chain[1].nr_sectors > 1)
    <3>1. ReadOn(s) = Done(s)
      BY <2>5, <2>7 DEF ReadOn
    <3>2. EndsAtEnd(s, Done(s), 0) /\ buf' = Done(s).buf
      BY <2>2, <2>5, <3>1, DoneEnds DEF Becomes
    <3> QED
      BY <2>5, <3>2, StepEnds
  <2> QED
    BY <2>6, <2>7
<1>5. ASSUME NEW cmd \in Cmd, Fails(cmd) PROVE faults' # [c \in Cmd |-> 0]
  <2>1. faults[cmd] \in 0 .. MaxFaults /\ MaxFaults \in Nat
    BY <1>0, Constants
  <2>2. faults'[cmd] = faults[cmd] + 1
    BY <1>0, <1>5 DEF Fails
  <2>3. faults'[cmd] # 0
    BY <2>1, <2>2
  <2> QED
    BY <2>3
<1>6. READ \in Cmd /\ WRITE \in Cmd
  BY DEF Cmd
<1>7. PICK s : s = WithDrive(Here, Idle)
  OBVIOUS
<1>8. Sane(s) /\ s.buf = buf
  BY <1>0, <1>7, Constants, DriveChanges
<1>9. CASE ReadIntrError
  <2>1. Fails(READ) /\ Becomes(DoHdRequest(s))
    BY <1>7, <1>9 DEF ReadIntrError, WithDrive
  <2>2. EndsAtEnd(s, DoHdRequest(s), 1) /\ buf' = DoHdRequest(s).buf /\ faults' # [c \in Cmd |-> 0]
    BY <1>5, <1>6, <1>8, <2>1, RestartEnds DEF Becomes
  <2> QED
    BY <1>8, <2>2, StepEnds
<1>10. CASE WriteIntr
  <2>1. PICK u : u = WithDrive(Here, Advanced(drive))
    OBVIOUS
  <2>2. Interrupting /\ Becomes(WriteOn(u))
    BY <1>10, <2>1 DEF WriteIntr, WithDrive, Here
  <2>3. Sane(u) /\ Settled(u) /\ u.buf = buf
    BY <1>0, <2>1, <2>2, Interrupted, DriveChanges
  <2>4. EndsAtEnd(u, WriteOn(u), 0) /\ buf' = WriteOn(u).buf
    BY <2>2, <2>3, WriteOnEnds DEF Becomes
  <2> QED
    BY <2>3, <2>4, StepEnds
<1>11. CASE WriteIntrError
  <2>1. PICK u : u = DoHdRequest(s)
    OBVIOUS
  <2>2. PICK t : t = WriteOn(u)
    OBVIOUS
  <2>3. Fails(WRITE) /\ Becomes(t)
    BY <1>7, <1>11, <2>1, <2>2 DEF WriteIntrError, WithDrive
  <2>4. /\ EndsAtEnd(s, u, 1)
        /\ \A b \in Buffer : u.buf[b] = s.buf[b] \/ (~u.buf[b].lock /\ ~u.buf[b].uptodate)
    BY <1>8, <2>1, RestartEnds
  <2>5. EndsAtEnd(u, t, 0)
    BY <1>8, <2>1, <2>2, RestartSane, WriteOnEnds
  <2>6. EndsAtEnd(s, t, 1)
    <3> SUFFICES ASSUME NEW b \in Buffer, s.buf[b].lock, ~t.buf[b].lock, ~t.buf[b].uptodate
                 PROVE  2 * Place[b].block + 2 + 1 > Hd[Place[b].dev].nr
      BY DEF EndsAtEnd
    <3>1. PICK m, n \in Nat : m = Place[b].block /\ n = Hd[Place[b].dev].nr
      BY Constants
    <3>2. CASE u.buf[b].lock
      <4>1. 2 * m + 2 + 0 > n
        BY <2>5, <3>1, <3>2 DEF EndsAtEnd
      <4> QED
        BY <3>1, <4>1
    <3>3. CASE ~u.buf[b].lock
      <4>1. ~u.buf[b].uptodate
        BY <2>4, <3>3
      <4> QED
        BY <2>4, <3>3, <4>1 DEF EndsAtEnd
    <3> QED
      BY <3>2, <3>3
  <2>7. buf' = t.buf /\ faults' # [c \in Cmd |-> 0]
    BY <1>5, <1>6, <2>3 DEF Becomes
  <2> QED
    BY <1>8, <2>6, <2>7, StepEnds
<1>12. CASE Unexpected
  BY <1>1, <1>12 DEF Unexpected
<1>13. CASE UNCHANGED vars
  BY <1>1, <1>13 DEF vars
<1> QED
  BY <1>2, <1>3, <1>4, <1>9, <1>10, <1>11, <1>12, <1>13 DEF Next, HdInterrupt

\* A request ends with an error only at the end of its device.
THEOREM ErrorOnlyAtEndTheorem == Spec => ErrorOnlyAtEnd
<1>1. Inv /\ [Next]_vars =>
         [\A b \in Buffer :
             buf[b].lock /\ ~buf'[b].lock /\ ~buf'[b].uptodate =>
                 2 * Place[b].block + 2 + (IF faults' # [cmd \in Cmd |-> 0] THEN 1 ELSE 0)
                     > Hd[Place[b].dev].nr]_vars
  BY NextEnds DEF ErrorsAtEnd
<1> QED
  BY <1>1, HdInvariant, PTL DEF Spec, ErrorOnlyAtEnd

============================================================================
