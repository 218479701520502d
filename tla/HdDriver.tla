------------------------------ MODULE HdDriver ------------------------------
(***************************************************************************)
(* The hard-disk driver, kernel/blk_drv/hd.c, with hd_interrupt of         *)
(* kernel/sys_call.S: do_hd_request gives the drive the command of the     *)
(* first request, and each interrupt of the drive moves one sector, until  *)
(* the request's two sectors are done and the next request starts.         *)
(*                                                                         *)
(* The handlers run behind an interrupt gate and the drive is idle when    *)
(* add_request calls do_hd_request from a task, so each is one step.  The  *)
(* elevator is RequestQueue's subject; here a new request may join the     *)
(* chain anywhere behind the one in progress.  The drive is external: it   *)
(* takes a command when it is idle, a sector of data when it waits for     *)
(* one, and asserts DRQ within do_hd_request's polling loop.  A number of  *)
(* its transfers end with an error status, MaxFaults at most.              *)
(***************************************************************************)
EXTENDS Integers, SequencesExt, FiniteSetsExt

CONSTANTS Buffer,     \* the buffer heads that requests move
          Part,       \* the minor devices
          Place,      \* Place[b]: the device and the block that b holds
          Hd,         \* Hd[p]: hd[p], first sector and number of sectors
          HeadCount,  \* hd_info[].head
          SectCount,  \* hd_info[].sect
          DiskSize,   \* the sectors of the drive
          MaxFaults,  \* bound: how often a command ends with an error status
          MaxWrites   \* bound: how often a buffer's content changes

READ  == 0
WRITE == 1
Cmd   == {READ, WRITE}

Sector == 0 .. DiskSize - 1

\* No two buffers hold the same block (getblk, fs/buffer.c).
ASSUME PlaceAssumption == /\ Place \in [Buffer -> [dev : Part, block : Nat]]
                          /\ \A b, c \in Buffer : Place[b] = Place[c] => b = c

\* The partitions in use lie on the drive and apart from each other.
ASSUME HdAssumption ==
    /\ \A d \in Part : /\ Hd[d].start \in Nat /\ Hd[d].nr \in Nat
                       /\ Hd[d].start + Hd[d].nr <= DiskSize
    /\ \A d, e \in Part : d # e => \/ Hd[d].start + Hd[d].nr <= Hd[e].start
                                  \/ Hd[e].start + Hd[e].nr <= Hd[d].start
ASSUME BoundsAssumption == {MaxFaults, MaxWrites} \subseteq Nat
ASSUME GeometryAssumption == {HeadCount, SectCount, DiskSize} \subseteq Nat \ {0}

NoHandler == "unexpected_hd_interrupt"
Handler(cmd) == IF cmd = READ THEN "read_intr" ELSE "write_intr"

VARIABLES chain,   \* the requests of blk_dev[3], the first in progress
          do_hd,   \* the handler of the next interrupt
          buf,     \* the buffer heads: lock, uptodate, dirty and two sectors
          drive,   \* the drive: command, place, sectors left, data it was given
          disk,    \* the content of each sector
          wild,    \* a handler has used CURRENT when it was null
          faults   \* the error statuses so far, for each command

vars == <<chain, do_hd, buf, drive, disk, wild, faults>>

\* The driver's state, for the functions that the handlers are made of.
Here == [chain |-> chain, do_hd |-> do_hd, buf |-> buf, drive |-> drive, wild |-> wild]

Becomes(s) == \E t \in {s} : /\ chain' = t.chain /\ do_hd' = t.do_hd /\ buf' = t.buf
                             /\ drive' = t.drive /\ wild' = t.wild

\* The content of a sector: the place it belongs to, and how often it changed.
NoData  == <<-1, 0>>
Content == (Sector \X (0 .. MaxWrites)) \cup {NoData}

\* The sectors of the block that a buffer holds.
Home(b, i) == Hd[Place[b].dev].start + 2 * Place[b].block + i

Idle == [op |-> "idle", lba |-> 0, left |-> 0, data |-> NoData]

Init == /\ chain = <<>>
        /\ do_hd = NoHandler
        /\ buf = [b \in Buffer |-> [lock |-> FALSE, uptodate |-> FALSE, dirty |-> FALSE,
                                    data |-> <<NoData, NoData>>]]
        /\ drive = Idle
        /\ disk = [l \in Sector |-> <<l, 0>>]
        /\ wild = FALSE
        /\ faults = [cmd \in Cmd |-> 0]

----------------------------------------------------------------------------

\* The place of a sector as hd_out sends it.
Chs(l) == [sec |-> (l % SectCount) + 1, head |-> (l \div SectCount) % HeadCount,
           cyl |-> (l \div SectCount) \div HeadCount]

\* The drive's reading of it.
Lba(c) == (c.cyl * HeadCount + c.head) * SectCount + c.sec - 1

\* hd_out: the handler of the command's interrupts, and the command.
HdOut(s, r) ==
    [s EXCEPT !.do_hd = Handler(r.cmd),
              !.drive = IF s.drive.op = "idle"
                        THEN [op |-> Handler(r.cmd), lba |-> Lba(Chs(Hd[r.dev].start + r.sector)),
                              left |-> r.nr_sectors, data |-> NoData]
                        ELSE @]

\* port_write: the sector at the request's place in its buffer.
PortWrite(s, r) ==
    [s EXCEPT !.drive.data = IF s.drive.op = "write_intr" /\ @ = NoData
                             THEN s.buf[r.bh].data[r.at + 1] ELSE @]

\* end_request for the buffer: the result, and unlock_buffer.
Finished(h, uptodate) == [h EXCEPT !.lock = FALSE, !.uptodate = uptodate]

\* A bound that lets the last block's second sector leave the device.
InDeviceOneSector(r) == r.sector + 1 <= Hd[r.dev].nr

\* A test that refuses every last block.
InDeviceStrict(r) == r.sector + 2 < Hd[r.dev].nr

\* The test of do_hd_request: a request that it does not refuse.
InDevice(r) == r.sector + 2 <= Hd[r.dev].nr

\* do_hd_request: the requests outside their device end with an error, the
\* next one's command goes to the drive, for a write with its first sector.
DoHdRequest(s) ==
    LET good    == {i \in DOMAIN s.chain : InDevice(s.chain[i])}
        n       == IF good = {} THEN Len(s.chain) ELSE Min(good) - 1
        refused == {s.chain[i].bh : i \in 1 .. n}
        t       == [s EXCEPT !.chain = SubSeq(@, n + 1, Len(@)),
                             !.buf   = [b \in Buffer |-> IF b \in refused THEN Finished(@[b], FALSE)
                                                                          ELSE @[b]]]
    IN  IF t.chain = <<>> THEN [t EXCEPT !.do_hd = NoHandler]
        ELSE LET r == Head(t.chain) IN
             IF r.cmd = WRITE THEN PortWrite(HdOut(t, r), r) ELSE HdOut(t, r)

\* The first request is done: end_request, and the next one starts.
Done(s) == DoHdRequest([s EXCEPT !.chain = Tail(@),
                                 !.buf[Head(s.chain).bh] = Finished(@, TRUE)])

\* One sector done, and the handler is set for the next.
NextSector(r) == [r EXCEPT !.sector = @ + 1, !.at = @ + 1, !.nr_sectors = @ - 1]

\* The drive after a transfer without error.
Advanced(d) == IF d.left = 1 THEN Idle ELSE [d EXCEPT !.lba = @ + 1, !.left = @ - 1, !.data = NoData]

\* The rest of write_intr, after the status was found good or the command
\* was issued anew (the error branch has no return).
WriteOn(s) ==
    IF s.chain = <<>> THEN [s EXCEPT !.wild = TRUE]
    ELSE LET r == Head(s.chain) IN
         IF r.nr_sectors > 1
         THEN PortWrite([s EXCEPT !.chain[1] = NextSector(r), !.do_hd = "write_intr"], NextSector(r))
         ELSE Done(s)

\* The drive ends a transfer with an error status.
Fails(cmd) == /\ faults[READ] + faults[WRITE] < MaxFaults
              /\ faults' = [faults EXCEPT ![cmd] = @ + 1]

\* The drive raises its interrupt: a sector is moved, or the transfer failed.
\* (After a use of a null CURRENT nothing can be said, and the model stops.)
Interrupting == ~wild /\ drive.op # "idle" /\ (drive.op = "write_intr" => drive.data # NoData)

DiskAfter == IF drive.op = "write_intr" THEN [disk EXCEPT ![drive.lba] = drive.data] ELSE disk

\* What port_read gets, from a drive that may not be reading.
PortRead == IF drive.op = "read_intr" THEN disk[drive.lba] ELSE NoData

----------------------------------------------------------------------------
\* make_request locks the buffer and add_request links the request (fs/buffer.c
\* and ll_rw_blk.c), behind the one in progress; the first one is started.
Submit(b, cmd) ==
    /\ ~wild /\ ~buf[b].lock
    /\ cmd = WRITE <=> buf[b].dirty
    /\ cmd = READ => ~buf[b].uptodate
    /\ LET r == [cmd |-> cmd, dev |-> Place[b].dev, sector |-> 2 * Place[b].block,
                 nr_sectors |-> 2, at |-> 0, bh |-> b]
           s == [Here EXCEPT !.buf[b].lock = TRUE, !.buf[b].dirty = FALSE]
       IN  IF chain = <<>> THEN Becomes(DoHdRequest([s EXCEPT !.chain = <<r>>]))
           ELSE \E i \in 2 .. Len(chain) + 1 : Becomes([s EXCEPT !.chain = InsertAt(@, i, r)])
    /\ UNCHANGED <<disk, faults>>

\* A task that holds an up-to-date buffer changes it.
Modify(b) ==
    /\ ~wild /\ ~buf[b].lock /\ buf[b].uptodate
    /\ \A i \in 1 .. 2 : buf[b].data[i][2] < MaxWrites
    /\ buf' = [buf EXCEPT ![b].dirty = TRUE,
                          ![b].data = <<<<Home(b, 0), @[1][2] + 1>>, <<Home(b, 1), @[2][2] + 1>>>>]
    /\ UNCHANGED <<chain, do_hd, drive, disk, wild, faults>>

\* A handler that does not move the place in the buffer.
ReadIntrSamePlace ==
    /\ do_hd = "read_intr" /\ Interrupting
    /\ LET r == Head(chain)
           s == [Here EXCEPT !.buf[r.bh].data[r.at + 1] = PortRead,
                             !.drive = Advanced(@), !.do_hd = NoHandler]
       IN  IF r.nr_sectors > 1
           THEN Becomes([s EXCEPT !.chain[1] = [NextSector(r) EXCEPT !.at = @ - 1], !.do_hd = "read_intr"])
           ELSE Becomes(Done(s))
    /\ disk' = DiskAfter
    /\ UNCHANGED faults

\* A handler that does not set itself for the next sector.
ReadIntrUnset ==
    /\ do_hd = "read_intr" /\ Interrupting
    /\ LET r == Head(chain)
           s == [Here EXCEPT !.buf[r.bh].data[r.at + 1] = PortRead,
                             !.drive = Advanced(@), !.do_hd = NoHandler]
       IN  IF r.nr_sectors > 1
           THEN Becomes([s EXCEPT !.chain[1] = NextSector(r)])
           ELSE Becomes(Done(s))
    /\ disk' = DiskAfter
    /\ UNCHANGED faults

\* read_intr with a good status: port_read takes the sector.
ReadIntr ==
    /\ do_hd = "read_intr" /\ Interrupting
    /\ LET r == Head(chain)
           s == [Here EXCEPT !.buf[r.bh].data[r.at + 1] = PortRead,
                             !.drive = Advanced(@), !.do_hd = NoHandler]
       IN  IF r.nr_sectors > 1
           THEN Becomes([s EXCEPT !.chain[1] = NextSector(r), !.do_hd = "read_intr"])
           ELSE Becomes(Done(s))
    /\ disk' = DiskAfter
    /\ UNCHANGED faults

\* read_intr with an error status: the command is issued anew, for the sectors
\* that are left.
ReadIntrError ==
    /\ do_hd = "read_intr" /\ Interrupting
    /\ Fails(READ)
    /\ Becomes(DoHdRequest([Here EXCEPT !.drive = Idle, !.do_hd = NoHandler]))
    /\ UNCHANGED disk

\* write_intr with a good status: the drive has written the sector it was given.
WriteIntr ==
    /\ do_hd = "write_intr" /\ Interrupting
    /\ disk' = DiskAfter
    /\ Becomes(WriteOn([Here EXCEPT !.drive = Advanced(@), !.do_hd = NoHandler]))
    /\ UNCHANGED faults

\* write_intr with an error status: the command is issued anew, and the
\* function goes on as if the sector had been written.
WriteIntrError ==
    /\ do_hd = "write_intr" /\ Interrupting
    /\ Fails(WRITE)
    /\ Becomes(WriteOn(DoHdRequest([Here EXCEPT !.drive = Idle, !.do_hd = NoHandler])))
    /\ UNCHANGED disk

\* hd_interrupt when no handler is set: the drive's transfer ends unseen.
Unexpected ==
    /\ do_hd = NoHandler /\ Interrupting
    /\ disk' = DiskAfter
    /\ drive' = Advanced(drive)
    /\ UNCHANGED <<chain, do_hd, buf, wild, faults>>

HdInterrupt == ReadIntr \/ ReadIntrError \/ WriteIntr \/ WriteIntrError \/ Unexpected

Next == \/ \E b \in Buffer : Modify(b) \/ \E cmd \in Cmd : Submit(b, cmd)
        \/ HdInterrupt

Spec == Init /\ [][Next]_vars

\* The drive ends every transfer with an interrupt: weak fairness of HdInterrupt,
\* with the condition under which it is enabled written out.
FairSpec == Spec /\ ([]<>~Interrupting \/ []<><<HdInterrupt>>_vars)

----------------------------------------------------------------------------
Request == [cmd : Cmd, dev : Part, sector : Nat, nr_sectors : 1 .. 2, at : 0 .. 1, bh : Buffer]

\* Type invariant.
TypeOK ==
    /\ chain \in Seq(Request)
    /\ do_hd \in {NoHandler, "read_intr", "write_intr"}
    /\ buf \in [Buffer -> [lock : BOOLEAN, uptodate : BOOLEAN, dirty : BOOLEAN,
                           data : Content \X Content]]
    /\ drive \in [op : {"idle", "read_intr", "write_intr"}, lba : Sector, left : 0 .. 2,
                  data : Content]
    /\ disk \in [Sector -> Content]
    /\ wild \in BOOLEAN
    /\ faults \in [Cmd -> 0 .. MaxFaults]

\* No write has met an error.  What write_intr does after one is not covered by
\* the properties that ask for this, see the README.
WritesGood == faults[WRITE] = 0

\* A buffer that is up to date, not locked and not changed since has the
\* content of its block on the disk, whatever errors the reads met (read_intr,
\* write_intr, end_request).
UptodateAgrees ==
    WritesGood => \A b \in Buffer :
        buf[b].uptodate /\ ~buf[b].lock /\ ~buf[b].dirty =>
            \A i \in {0, 1} : buf[b].data[i + 1] = disk[Home(b, i)]

\* The drive works on what is left of the first request, with that request's
\* handler set; it is idle when there is none (do_hd_request, hd.c:216-252).
DriveFollows ==
    IF chain = <<>> THEN drive = Idle /\ do_hd = NoHandler
    ELSE LET r == Head(chain) IN
         /\ do_hd = Handler(r.cmd) /\ drive.op = do_hd
         /\ drive.lba = Hd[r.dev].start + r.sector
         /\ drive.left = r.nr_sectors
         /\ r.sector = 2 * Place[r.bh].block + r.at

\* Every request's buffer is locked, and every locked buffer has one request:
\* nobody waits for a buffer that no interrupt will unlock (the message
\* "harddisk: block not locked" of INIT_REQUEST, blk.h:98-99).
LockedHasRequest ==
    \A b \in Buffer :
        Cardinality({i \in DOMAIN chain : chain[i].bh = b}) = IF buf[b].lock THEN 1 ELSE 0

\* Driver and drive stay in step: the drive works on what is left of the first
\* request, every locked buffer has its request (this after write errors too),
\* and no handler uses CURRENT when the chain is empty (hd.c:186-190, 204-208).
InStep == TypeOK /\ LockedHasRequest /\ (WritesGood => DriveFollows /\ ~wild)

\* A transfer that is interrupted by errors goes on where it stopped: driver and drive
\* stay in step, and what the buffers end with is what the disk has (hd.c:176-252).
TransferSound == InStep /\ UptodateAgrees

\* What an error status of the drive, a request outside its device and the
\* request in progress may do to the disk: only the block of the request in
\* progress changes, and no sector outside its device (hd.c:226, 231-238).
WritesLandHome ==
    [][WritesGood => \A l \in Sector : disk'[l] # disk[l] =>
          /\ chain # <<>>
          /\ Head(chain).cmd = WRITE
          /\ \E i \in {0, 1} : l = Home(Head(chain).bh, i)
          /\ LET d == Head(chain).dev IN l \in Hd[d].start .. Hd[d].start + Hd[d].nr - 1]_vars

\* A buffer ends not up to date only if its block reaches past its device, or
\* if it is the device's last block and a transfer failed after its first
\* sector: do_hd_request then tests the second sector as if it were a block.
ErrorOnlyAtEnd ==
    [][\A b \in Buffer :
          buf[b].lock /\ ~buf'[b].lock /\ ~buf'[b].uptodate =>
            2 * Place[b].block + 2 + (IF faults' # [cmd \in Cmd |-> 0] THEN 1 ELSE 0)
                > Hd[Place[b].dev].nr]_vars

\* Every request ends: a locked buffer is unlocked, also when reads failed, if
\* the drive does not fail for ever (there is no limit to the retries,
\* hd.c:181-183) and no write has failed.
EachEnds == \A b \in Buffer : buf[b].lock ~> (~buf[b].lock \/ ~WritesGood)
============================================================================
