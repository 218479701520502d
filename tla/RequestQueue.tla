---------------------------- MODULE RequestQueue ----------------------------
(***************************************************************************)
(* The request table of kernel/blk_drv/ll_rw_blk.c and the chain of        *)
(* requests of each block device: make_request takes a free slot,          *)
(* add_request links it into the device's chain by the elevator rule, and  *)
(* end_request frees the slot at the head when the device is done with it. *)
(*                                                                         *)
(* A block stands for a device and a sector; blocks are numbered in the    *)
(* order IN_ORDER compares them, and MajorOf gives the device's major      *)
(* number.  All requests here carry a buffer (bh): nothing in this kernel  *)
(* makes the requests without one that add_request also provides for.      *)
(***************************************************************************)
EXTENDS Naturals, Sequences, FiniteSetsExt

CONSTANTS Block,        \* the disk blocks, as numbers
          Buffer,       \* the buffer heads
          Major,        \* the major numbers of the block devices
          MajorOf,      \* the device a block is on
          NR_REQUEST,   \* the slots of the request table
          Free          \* the content of a free slot (dev = -1)

ASSUME BlockAssumption   == Block \subseteq Nat
ASSUME MajorAssumption   == MajorOf \in [Block -> Major]
ASSUME SlotsAssumption   == NR_REQUEST \in Nat \ {0}

READ  == 0
WRITE == 1
Cmd == {READ, WRITE}

Slot == 0 .. NR_REQUEST - 1

Request == [cmd : Cmd, block : Block, bh : Buffer]

ASSUME FreeAssumption == Free \notin Request

VARIABLES request,  \* the request table
          chain     \* chain[m]: the slots of blk_dev[m].current_request, in order

queueVars == <<request, chain>>

QueueInit == /\ request = [s \in Slot |-> Free]
        /\ chain = [m \in Major |-> <<>>]

----------------------------------------------------------------------------
\* make_request: a READ may take any slot, a WRITE only the lower two thirds,
\* so that reads find room when writes fill the table.
MayTake(cmd) == IF cmd = READ THEN Slot ELSE {s \in Slot : s < (NR_REQUEST * 2) \div 3}

FreeSlots(cmd) == {s \in MayTake(cmd) : request[s] = Free}

\* The search goes from the highest slot down.
ChosenSlot(cmd) == Max(FreeSlots(cmd))

\* IN_ORDER: reads before writes, then by place on the disk.
InOrder(r, q) == \/ r.cmd < q.cmd
                 \/ r.cmd = q.cmd /\ r.block < q.block

\* A rule that forgets the place where the chain turns back.
FitsOnlyBetween(rs, i, r) == InOrder(rs[i], r) /\ InOrder(r, rs[i + 1])

\* add_request may put r between the i-th request of the chain and the next.
FitsAfter(rs, i, r) == /\ InOrder(rs[i], r) \/ ~InOrder(rs[i], rs[i + 1])
                       /\ InOrder(r, rs[i + 1])

\* The chain's requests, for a table req.
Requests(req, c) == [i \in DOMAIN c |-> req[c[i]]]

\* A search that starts ahead of the head.
LinkAnywhere(rs, r) ==
    LET fits == {i \in 1 .. Len(rs) : InOrder(r, rs[i])}
    IN  IF fits = {} THEN Len(rs) ELSE Min(fits) - 1

\* The newest request always next.
LinkBehindHead(rs, r) == 1

\* The position after which add_request links a request into a non-empty chain:
\* the first that fits, never ahead of the request the device works on.
LinkAfter(rs, r) ==
    LET fits == {i \in 1 .. Len(rs) - 1 : FitsAfter(rs, i, r)}
    IN  IF fits = {} THEN Len(rs) ELSE Min(fits)

Linked(c, i, s) == SubSeq(c, 1, i) \o <<s>> \o SubSeq(c, i + 1, Len(c))

\* make_request from the search of a slot on, and add_request.
AddRequest(cmd, blk, b) ==
    LET s == ChosenSlot(cmd)
        r == [cmd |-> cmd, block |-> blk, bh |-> b]
        m == MajorOf[blk]
    IN  /\ FreeSlots(cmd) # {}
        /\ request' = [request EXCEPT ![s] = r]
        /\ chain' = [chain EXCEPT ![m] =
                        IF @ = <<>> THEN <<s>>
                        ELSE Linked(@, LinkAfter(Requests(request, @), r), s)]

\* The request device m works on.
Current(m) == request[Head(chain[m])]

\* end_request(m, _): the slot is free and the next request is the current one.
EndRequest(m) ==
    /\ chain[m] # <<>>
    /\ request' = [request EXCEPT ![Head(chain[m])] = Free]
    /\ chain' = [chain EXCEPT ![m] = Tail(@)]

----------------------------------------------------------------------------
\* The blocks with a request pending.
Pending == {s \in Slot : request[s] # Free}
PendingBlocks == {request[s].block : s \in Pending}

\* The users of the table: whoever holds the lock of the block's only buffer
\* adds a request for it, and the lock is kept until end_request.
Submit(cmd, blk, b) == blk \notin PendingBlocks /\ AddRequest(cmd, blk, b)

QueueNext == \/ \E cmd \in Cmd, blk \in Block, b \in Buffer : Submit(cmd, blk, b)
        \/ \E m \in Major : EndRequest(m)

QueueSpec == QueueInit /\ [][QueueNext]_queueVars

\* Every command given to the device ends in an interrupt.
QueueFairSpec == QueueSpec /\ \A m \in Major : WF_queueVars(EndRequest(m))

----------------------------------------------------------------------------
\* Type invariant.
QueueTypeOK == /\ request \in [Slot -> Request \cup {Free}]
          /\ chain \in [Major -> Seq(Slot)]

\* The table and the chains agree: a slot in use is in the chain of its own
\* device, at one place of one chain, and a slot in a chain is in use.
TableMatchesChains ==
    /\ \A m \in Major : \A i \in DOMAIN chain[m] :
        /\ request[chain[m][i]] # Free
        /\ MajorOf[request[chain[m][i]].block] = m
        /\ \A j \in DOMAIN chain[m] : chain[m][i] = chain[m][j] => i = j
    /\ \A s \in Pending : \E m \in Major : \E i \in DOMAIN chain[m] : chain[m][i] = s

\* The elevator: a chain is at most two sweeps over the disk, the one the device
\* is in and the next one; there is at most one place where the order turns
\* back (add_request, ll_rw_blk.c:54-66).
TwoSweeps ==
    \A m \in Major :
        LET rs == Requests(request, chain[m])
            turns == {i \in 1 .. Len(rs) - 1 : ~InOrder(rs[i], rs[i + 1])}
        IN  \A i, j \in turns : i = j

\* Table and chains stay whole and in the elevator's order, in every order of
\* arrivals and completions on the devices that share the table.
ChainsSound == QueueTypeOK /\ TableMatchesChains /\ TwoSweeps

\* A new request never displaces the one the device is working on: the head of
\* a chain changes only when it ends (add_request links behind tmp).
HeadStays ==
    [][\A m \in Major : chain[m] # <<>> =>
            \/ chain'[m] # <<>> /\ Head(chain'[m]) = Head(chain[m])
            \/ chain'[m] = Tail(chain[m])]_queueVars

\* No request waits for ever, whatever others arrive: a sweep only moves
\* forward, and what does not fit in it waits for one more sweep.
EachRequestEnds == \A blk \in Block : blk \in PendingBlocks ~> blk \notin PendingBlocks
============================================================================
