------------------------------- MODULE Floppy -------------------------------
(***************************************************************************)
(* The floppy driver, kernel/blk_drv/floppy.c, with the motor timers and   *)
(* the timer list of kernel/sched.c that it runs on.                       *)
(*                                                                         *)
(* do_fd_request looks at what is to be done next - a reset, a             *)
(* recalibration, the first request - and starts it: the motor, the seek   *)
(* and the transfer each go on from the timer or the interrupt that ends   *)
(* the one before.  One step of the model is one such piece: a call of     *)
(* do_fd_request by a task, an interrupt of the controller, the function   *)
(* of a timer, a tick of the clock.                                        *)
(*                                                                         *)
(* The controller (fdc) and the drives are external.  The controller takes *)
(* no command while it executes one, executes a transfer only where the    *)
(* head really is, and is done, with a recovery before it, within the      *)
(* 10000 ticks that a motor is left on.                                    *)
(* Faults, MaxFaults at most, are of two kinds: an operation ends with an  *)
(* error status, or the controller refuses its command or result bytes, so *)
(* that output_byte or result gives up and sets reset.                     *)
(***************************************************************************)
EXTENDS TimerOps

CONSTANTS Drive,          \* the drives, numbers from 0
          Device,         \* the minor devices: drive and type
          Geometry,       \* floppy_type: size, sect, head, stretch and spec1
          Protected,      \* the drives whose disks are write protected
          Work,           \* the requests that tasks make: cmd, dev, sector
          MAX_ERRORS,     \* the errors a request may meet
          SpinTicks,      \* HZ/2, for the motor to get up to speed
          OffTicks,       \* the ticks after which an idle motor stops
          Cylinder,       \* the cylinders a head may stand on at first
          LateRequests,   \* a request may come while the driver recovers without one
          MaxFaults,      \* bound: the faults of the controller
          MaxRequests,    \* bound: the requests made
          NoWork          \* no request's work

READ  == 0
WRITE == 1
None  == "none"
SelectTicks == 2

ASSUME DeviceAssumption == Device \subseteq [drive : Drive, type : DOMAIN Geometry]
ASSUME WorkAssumption   == Work \subseteq [cmd : {READ, WRITE}, dev : Device, sector : Nat]

VARIABLES chain,      \* the requests of blk_dev[2]: work, errors
          drv,        \* the driver's static variables
          dor,        \* current_DOR: selected drive, motors
          mon, moff,  \* mon_timer, moff_timer
          timers,     \* the timer list
          fdc,        \* the controller: operation, parameters
          head,       \* each drive: where the head is, where the controller thinks it is
          ticking,    \* do_timer is calling the functions of expired timers
          said,       \* the complaints the driver has printed
          ended,      \* the requests that ended in the last step, and how
          wild,       \* CURRENT was used when it was null
          faults, made

vars == <<chain, drv, dor, mon, moff, timers, fdc, head, ticking, said, ended, wild, faults, made>>

Idle == [op |-> None, drive |-> 0, cyl |-> 0, lba |-> 0, for |-> NoWork]

Init == /\ chain = <<>>
        /\ drv = [reset |-> FALSE, recalibrate |-> FALSE, seek |-> FALSE, do_floppy |-> None,
                  current_drive |-> 0, current_track |-> 255, selected |-> FALSE,
                  aim |-> NoWork,
                  cur_spec1 |-> -1, st1 |-> FALSE]
        /\ dor = [drive |-> 0, motors |-> {}]
        /\ mon = [d \in Drive |-> 0] /\ moff = [d \in Drive |-> 0]
        /\ timers = <<>>
        /\ fdc = [run |-> Idle, spec1 |-> -1]
        /\ head \in [Drive -> [at : Cylinder, pcn : {0}]]
        /\ ticking = FALSE /\ said = {} /\ ended = {} /\ wild = FALSE
        /\ faults = 0 /\ made = 0

\* The state as one record, for the functions that the steps are made of; moved
\* is the transfer that has just succeeded.
Here == [chain |-> chain, drv |-> drv, dor |-> dor, mon |-> mon, moff |-> moff,
         timers |-> timers, fdc |-> fdc, head |-> head, said |-> said, ended |-> {},
         wild |-> wild, moved |-> Idle]

Becomes(s) ==
    \E t \in {s} :
        /\ chain' = t.chain /\ drv' = t.drv /\ dor' = t.dor /\ mon' = t.mon /\ moff' = t.moff
        /\ timers' = t.timers /\ fdc' = t.fdc /\ head' = t.head /\ said' = t.said
        /\ ended' = t.ended /\ wild' = t.wild

----------------------------------------------------------------------------
\* Where do_fd_request's arithmetic puts a sector of a disk of type g, and where
\* the controller finds it.
Place(g, block) == [sector |-> (block % g.sect) + 1, head |-> (block \div g.sect) % g.head,
                    track |-> (block \div g.sect) \div g.head]

Lba(g, c) == (c.track * g.head + c.head) * g.sect + c.sector - 1

Shape(s)     == Geometry[s.drv.aim.dev.type]
SeekTrack(s) == Place(Shape(s), s.drv.aim.sector).track * 2^Shape(s).stretch

\* output_byte of a command's bytes: a controller that is busy, or mute, does
\* not take them, and after a failure nothing more is sent.
Give(s, command, mute) ==
    IF s.drv.reset THEN s
    ELSE IF mute \/ s.fdc.run.op # None THEN [s EXCEPT !.drv.reset = TRUE]
    ELSE [s EXCEPT !.fdc.run = command]

\* FD_SPECIFY, which the controller carries out at once.
Specify(s, mute) ==
    IF s.drv.reset THEN s
    ELSE IF mute \/ s.fdc.run.op # None THEN [s EXCEPT !.drv.reset = TRUE]
    ELSE [s EXCEPT !.fdc.spec1 = s.drv.cur_spec1]

\* FD_SENSEI and result: silent is a controller that does not answer.
Sense(s, out, pcn) ==
    IF out = "silent" THEN [s EXCEPT !.drv.reset = TRUE]
    ELSE [s EXCEPT !.drv.st1 = (pcn \div 2) % 2 = 1]

Complain(s, what) == [s EXCEPT !.said = @ \cup {what}]

\* floppy_deselect.
Deselect(s) == [s EXCEPT !.drv.selected = FALSE]

\* end_request, of a null CURRENT too.
EndRequest(s, uptodate) ==
    IF s.chain = <<>> THEN [s EXCEPT !.wild = TRUE]
    ELSE [s EXCEPT !.chain = Tail(@),
                   !.ended = @ \cup {[work |-> Head(s.chain).work, errors |-> Head(s.chain).errors,
                                      uptodate |-> uptodate, moved |-> s.moved]}]

\* The errors field of CURRENT.  A null CURRENT reads an entry of the page
\* directory, which is greater than any count.
ErrorsOfCurrent(s) == IF s.chain = <<>> THEN MAX_ERRORS + 1 ELSE Head(s.chain).errors

\* bad_flp_intr.
BadFlpIntr(s) ==
    IF s.chain = <<>> THEN [s EXCEPT !.wild = TRUE]
    ELSE LET t == [s EXCEPT !.chain[1].errors = @ + 1]
             u == IF ErrorsOfCurrent(t) > MAX_ERRORS THEN EndRequest(Deselect(t), FALSE) ELSE t
         IN  IF ErrorsOfCurrent(u) > MAX_ERRORS \div 2
             THEN [u EXCEPT !.drv.reset = TRUE] ELSE [u EXCEPT !.drv.recalibrate = TRUE]

\* reset_floppy, as do_fd_request calls it: the controller drops what it does.
ResetFloppy(s) ==
    [s EXCEPT !.drv.seek = FALSE, !.drv.reset = FALSE, !.drv.recalibrate = TRUE,
              !.drv.cur_spec1 = -1, !.drv.do_floppy = "reset_interrupt",
              !.fdc = [run |-> [Idle EXCEPT !.op = "reset"], spec1 |-> -1]]

\* "if (reset) do_fd_request();" behind the last byte of a command.
ResetIfFailed(s) == IF s.drv.reset THEN ResetFloppy(s) ELSE s

RecalibrateFloppy(s, mute) ==
    LET t == [s EXCEPT !.drv.recalibrate = FALSE, !.drv.current_track = 0,
                       !.drv.do_floppy = "recal_interrupt"]
    IN  ResetIfFailed(Give(t, [Idle EXCEPT !.op = "recal", !.drive = s.drv.current_drive], mute))

\* setup_rw_floppy, with setup_DMA for CURRENT's buffer.
SetupRwFloppy(s, mute) ==
    IF s.chain = <<>> THEN [s EXCEPT !.wild = TRUE]
    ELSE LET t == [s EXCEPT !.drv.do_floppy = "rw_interrupt"]
             g == Shape(s)
         IN  ResetIfFailed(Give(t, [op |-> "rw", drive |-> s.drv.current_drive, cyl |-> SeekTrack(s),
                                    lba |-> Lba(g, Place(g, s.drv.aim.sector)),
                                    for |-> Head(s.chain).work], mute))

\* transfer: the disk type's parameters, then the seek or at once the transfer.
Transfer(s, mute) ==
    LET t == IF s.drv.cur_spec1 # Shape(s).spec1
             THEN Specify([s EXCEPT !.drv.cur_spec1 = Shape(s).spec1], mute) ELSE s
    IN  IF t.drv.reset THEN ResetFloppy(t)
        ELSE IF ~t.drv.seek THEN SetupRwFloppy(t, mute)
        ELSE ResetIfFailed(Give([t EXCEPT !.drv.do_floppy = "seek_interrupt"],
                 [Idle EXCEPT !.op = IF SeekTrack(t) = 0 THEN "recal" ELSE "seek",
                              !.drive = t.drv.current_drive, !.cyl = SeekTrack(t)], mute))

\* floppy_on_interrupt: the motor runs; the drive is selected, with two more
\* ticks if another one was.
FloppyOnInterrupt(s, mute) ==
    LET t == [s EXCEPT !.drv.selected = TRUE]
    IN  IF t.drv.current_drive # t.dor.drive
        THEN [t EXCEPT !.dor.drive = t.drv.current_drive,
                       !.timers = WithTimer(@, [jiffies |-> SelectTicks, fn |-> "transfer"])]
        ELSE Transfer(t, mute)

\* ticks_to_floppy_on: the motor is turned on, and the drive selected unless
\* one is; mon_timer counts the ticks until it can be used.
TicksToFloppyOn(s, nr) ==
    LET mask == [drive  |-> IF s.drv.selected THEN s.dor.drive ELSE nr,
                 motors |-> s.dor.motors \cup {nr}]
    IN  [s EXCEPT !.moff[nr] = OffTicks, !.dor = mask,
                  !.mon[nr] = IF mask = s.dor THEN @
                              ELSE IF mask.motors # s.dor.motors THEN SpinTicks
                              ELSE Max({@, SelectTicks})]

InDevice(r) == r.work.sector + 2 <= Geometry[r.work.dev.type].size

\* The requests at the front that reach past their disk end with an error; the
\* drive of the last one looked at is the current drive.
PastRefused(s) ==
    LET good   == {i \in DOMAIN s.chain : ~InDevice(s.chain[i])}
        n      == Max({k \in 0 .. Len(s.chain) : 1 .. k \subseteq good})
        looked == [i \in 1 .. Min({n + 1, Len(s.chain)}) |-> s.chain[i].work.dev.drive]
        drives == <<s.drv.current_drive>> \o looked
    IN  [s EXCEPT !.chain = SubSeq(@, n + 1, Len(@)),
                  !.ended = @ \cup {[work |-> s.chain[i].work, errors |-> 0, uptodate |-> FALSE,
                                     moved |-> Idle] : i \in 1 .. n},
                  !.drv.current_drive = Last(drives),
                  !.drv.seek = \E i \in 1 .. Len(drives) - 1 : drives[i] # drives[i + 1]]

\* The rest of do_fd_request, for the request at the head: what to move, whether
\* to seek, and floppy_on_interrupt once the motor runs.
StartRequest(s, mute) ==
    LET t == [s EXCEPT !.drv.aim = Head(s.chain).work]
        u == [t EXCEPT !.drv.seek = @ \/ SeekTrack(t) # t.drv.current_track]
        v == TicksToFloppyOn(u, u.drv.current_drive)
        j == v.mon[u.drv.current_drive]
    IN  IF j = 0 THEN FloppyOnInterrupt(v, mute)
        ELSE [v EXCEPT !.timers = WithTimer(@, [jiffies |-> j, fn |-> "floppy_on_interrupt"])]

\* do_fd_request.
DoFdRequest(s, mute) ==
    IF s.wild THEN s
    ELSE IF s.drv.reset THEN ResetFloppy(s)
    ELSE IF s.drv.recalibrate THEN RecalibrateFloppy([s EXCEPT !.drv.seek = FALSE], mute)
    ELSE LET t == PastRefused(s)
         IN  IF t.chain = <<>> THEN [t EXCEPT !.drv.do_floppy = None] ELSE StartRequest(t, mute)

----------------------------------------------------------------------------
\* A transfer succeeds where the head really is; the disk may be protected.
Natural(run) ==
    IF run.op # "rw" THEN "good"
    ELSE IF head[run.drive].at # run.cyl THEN "bad"
    ELSE IF run.for.cmd = WRITE /\ run.drive \in Protected THEN "protected" ELSE "good"

\* What the operation has done to the drive: a seek moves the head by the
\* difference to where the controller thinks it is.
HeadAfter(run, out) ==
    IF out # "good" THEN head
    ELSE CASE run.op = "recal" -> [head EXCEPT ![run.drive] = [at |-> 0, pcn |-> 0]]
           [] run.op = "seek"  -> [head EXCEPT ![run.drive] =
                                     [at |-> Max({0, @.at + run.cyl - @.pcn}), pcn |-> run.cyl]]
           [] OTHER            -> head

\* seek_interrupt.
SeekInterrupt(s, run, out, mute) ==
    LET t == Sense(s, out, run.cyl)
    IN  IF out # "good" \/ run.cyl # SeekTrack(s)
        THEN DoFdRequest(BadFlpIntr(t), mute)
        ELSE SetupRwFloppy([t EXCEPT !.drv.current_track = run.cyl], mute)

RecalInterrupt(s, run, out, mute) ==
    LET t == Sense(s, out, run.cyl)
    IN  DoFdRequest(IF out = "good" THEN [t EXCEPT !.drv.recalibrate = FALSE]
                                    ELSE [t EXCEPT !.drv.reset = TRUE], mute)

\* A reset's interrupt that does not go on.
ResetInterruptStops(s, run, out, mute) == Specify(Sense(s, out, run.cyl), mute)

ResetInterrupt(s, run, out, mute) == DoFdRequest(Specify(Sense(s, out, run.cyl), mute), mute)

\* Success without a look at the status.
RwInterruptBlind(s, run, out, mute) ==
    IF out = "silent" THEN DoFdRequest(BadFlpIntr([s EXCEPT !.drv.reset = TRUE]), mute)
    ELSE DoFdRequest(EndRequest(Deselect(s), TRUE), mute)

\* rw_interrupt.  result() leaves the reply buffer as it was when it fails, and
\* its second byte may be the cylinder of the last seek.
RwInterrupt(s, run, out, mute) ==
    LET t == IF out = "silent" THEN [s EXCEPT !.drv.reset = TRUE]
             ELSE [s EXCEPT !.drv.st1 = (out = "protected")]
        u == IF out = "protected" THEN t ELSE Complain(t, "not protected")
    IN  IF out = "good" THEN DoFdRequest(EndRequest(Deselect(t), TRUE), mute)
        ELSE IF t.drv.st1 THEN DoFdRequest(EndRequest(Deselect(u), FALSE), mute)
        ELSE DoFdRequest(BadFlpIntr(t), mute)

UnexpectedInterrupt(s, run, out) ==
    LET t == Sense(Complain(s, "unexpected floppy interrupt"), out, run.cyl)
    IN  IF run.op = "rw" \/ out # "good" THEN [t EXCEPT !.drv.reset = TRUE]
        ELSE [t EXCEPT !.drv.recalibrate = TRUE]

\* floppy_interrupt: the handler is taken out and called.
HandlerCalled(s, handler, run, out, mute) ==
    CASE handler = "seek_interrupt"  -> SeekInterrupt(s, run, out, mute)
      [] handler = "recal_interrupt" -> RecalInterrupt(s, run, out, mute)
      [] handler = "reset_interrupt" -> ResetInterrupt(s, run, out, mute)
      [] handler = "rw_interrupt"    -> RwInterrupt(s, run, out, mute)
      [] OTHER                       -> UnexpectedInterrupt(s, run, out)

\* The operation of the controller ends and its interrupt is served.  (After a
\* use of a null CURRENT nothing can be said, and the model stops.)
Operating == ~wild /\ ~ticking /\ fdc.run.op # None

FdInterrupt ==
    LET run == fdc.run IN
    /\ Operating
    /\ \E out \in {Natural(run), "bad", "silent"}, mute \in BOOLEAN :
        /\ faults' = faults + (IF out # Natural(run) THEN 1 ELSE 0) + (IF mute THEN 1 ELSE 0)
        /\ faults' <= MaxFaults
        /\ Becomes(HandlerCalled([Here EXCEPT !.fdc.run = Idle, !.head = HeadAfter(run, out),
                                              !.drv.do_floppy = None,
                                              !.moved = IF out = "good" THEN run ELSE Idle],
                                 drv.do_floppy, run, out, mute))
    /\ UNCHANGED <<ticking, made>>

\* make_request and add_request, for a buffer that has no request yet; the first
\* request calls do_fd_request.
Submit(w) ==
    LET r == [work |-> w, errors |-> 0] IN
    /\ ~wild /\ ~ticking /\ made < MaxRequests
    /\ \A i \in DOMAIN chain : chain[i].work # w
    /\ chain = <<>> => LateRequests \/ drv.do_floppy = None
    /\ made' = made + 1
    /\ \E mute \in BOOLEAN :
        /\ mute => chain = <<>>
        /\ faults' = faults + (IF mute THEN 1 ELSE 0)
        /\ faults' <= MaxFaults
        /\ IF chain = <<>> THEN Becomes(DoFdRequest([Here EXCEPT !.chain = <<r>>], mute))
           ELSE \E i \in 2 .. Len(chain) + 1 : Becomes([Here EXCEPT !.chain = InsertAt(@, i, r)])
    /\ UNCHANGED ticking

\* The motors that stop in this tick.
Stopping == {d \in dor.motors : mon[d] = 0 /\ moff[d] = 0}

\* A tick does something, and comes before the drive in use stops by itself.
ClockRuns ==
    /\ ~wild
    /\ \/ ticking
       \/ /\ timers # <<>> \/ dor.motors # {}
          /\ fdc.run.op # None => drv.current_drive \notin Stopping

\* A clock tick: do_timer looks at the list.
Tick ==
    /\ ~ticking /\ ClockRuns
    /\ ticking' = TRUE
    /\ timers' = Ticked(timers)
    /\ ended' = {}
    /\ UNCHANGED <<chain, drv, dor, mon, moff, fdc, head, said, wild, faults, made>>

\* An expired timer's function.
CallTimer ==
    /\ ~wild /\ ticking /\ Expired(timers)
    /\ \E mute \in BOOLEAN :
        /\ faults' = faults + (IF mute THEN 1 ELSE 0)
        /\ faults' <= MaxFaults
        /\ LET s == [Here EXCEPT !.timers = Tail(@)]
           IN  Becomes(IF Head(timers).fn = "transfer" THEN Transfer(s, mute)
                                                       ELSE FloppyOnInterrupt(s, mute))
    /\ UNCHANGED <<ticking, made>>

\* A do_floppy_timer that never counts an idle motor down.
DoFloppyTimerNoOff ==
    /\ ~wild /\ ticking /\ ~Expired(timers)
    /\ ticking' = FALSE
    /\ mon' = [d \in Drive |-> IF d \in dor.motors /\ mon[d] > 0 THEN mon[d] - 1 ELSE mon[d]]
    /\ ended' = {}
    /\ UNCHANGED <<chain, drv, dor, moff, timers, fdc, head, said, wild, faults, made>>

\* The end of do_timer: do_floppy_timer, for the motors that run.
DoFloppyTimer ==
    /\ ~wild /\ ticking /\ ~Expired(timers)
    /\ ticking' = FALSE
    /\ mon' = [d \in Drive |-> IF d \in dor.motors /\ mon[d] > 0 THEN mon[d] - 1 ELSE mon[d]]
    /\ moff' = [d \in Drive |-> IF d \in dor.motors /\ mon[d] = 0 /\ moff[d] > 0
                                THEN moff[d] - 1 ELSE moff[d]]
    /\ dor' = [dor EXCEPT !.motors = @ \ Stopping]
    /\ ended' = {}
    /\ UNCHANGED <<chain, drv, timers, fdc, head, said, wild, faults, made>>

Clock == Tick \/ CallTimer \/ DoFloppyTimer

Next == FdInterrupt \/ Clock \/ \E w \in Work : Submit(w)

Spec == Init /\ [][Next]_vars

\* The clock ticks, and every operation of the controller ends: weak fairness,
\* with the conditions under which the two are enabled written out.
FairSpec ==
    /\ Spec
    /\ []<>(~ClockRuns) \/ []<><<Clock>>_vars
    /\ []<>(~Operating) \/ []<><<FdInterrupt>>_vars

----------------------------------------------------------------------------
Moves == {"rw", "seek", "recal"}

\* Type invariant.
TypeOK ==
    /\ chain \in Seq([work : Work, errors : 0 .. MAX_ERRORS])
    /\ drv.do_floppy \in {None, "seek_interrupt", "recal_interrupt", "reset_interrupt", "rw_interrupt"}
    /\ {drv.reset, drv.recalibrate, drv.seek, drv.selected, drv.st1} \subseteq BOOLEAN
    /\ drv.current_drive \in Drive /\ drv.current_track \in 0 .. 255
    /\ drv.aim \in Work \cup {NoWork}
    /\ dor.drive \in Drive /\ dor.motors \subseteq Drive
    /\ mon \in [Drive -> 0 .. Max({SpinTicks, SelectTicks})] /\ moff \in [Drive -> 0 .. OffTicks]
    /\ \A i \in DOMAIN timers : timers[i].jiffies \in 0 .. SpinTicks + SelectTicks
    /\ fdc.run.op \in Moves \cup {None, "reset"}

\* While there is a request the driver has exactly one thing under way: a timer
\* that goes on with it, or an operation whose interrupt has a handler.  None is
\* a hung queue, two are a transfer for a request that has ended.
OneThingUnderWay ==
    /\ Len(timers) + (IF fdc.run.op = None THEN 0 ELSE 1) = 1 \/ (chain = <<>> /\ timers = <<>>)
    /\ fdc.run.op = None <=> drv.do_floppy = None

\* The controller seeks and transfers only on the drive that is selected and
\* whose motor is on and up to speed, with the parameters of that disk's type
\* (floppy.c:205-237, 283-294; sched.c:145-169).  A tick's mon_timer is counted
\* down behind the call of the timer's function.
ReadyToMove ==
    fdc.run.op \in Moves =>
        /\ dor.drive = fdc.run.drive /\ fdc.run.drive \in dor.motors
        /\ fdc.run.op # "recal" => /\ mon[fdc.run.drive] <= (IF ticking THEN 1 ELSE 0)
                                   /\ fdc.spec1 = Geometry[drv.aim.dev.type].spec1

\* A request ends up to date only after a transfer of its own sectors to or from
\* its own buffer has succeeded, whatever resets and retries came between.
SuccessIsItsOwn ==
    \A e \in ended : e.uptodate =>
        /\ e.moved.op = "rw" /\ e.moved.for = e.work
        /\ e.moved.drive = e.work.dev.drive /\ e.moved.lba = e.work.sector

\* The message "Drive %d is write protected" (floppy.c:148) is about a disk that
\* is.  It need not be: rw_interrupt reads ST1 also when result() gave up, and then
\* the byte is an older one.
ProtectedIsProtected == "not protected" \notin said

\* A request fails only if it reaches past its disk, writes on a protected one
\* or met more than MAX_ERRORS errors (or is the victim that
\* ProtectedIsProtected tells of); without faults of the controller none of
\* the errors that the driver makes by itself, a head that is not where it is
\* believed to be, comes more than once in a row.
FailsForAReason ==
    \A e \in ended : ~e.uptodate =>
        \/ e.work.sector + 2 > Geometry[e.work.dev.type].size
        \/ e.work.cmd = WRITE /\ e.work.dev.drive \in Protected
        \/ faults > 0 /\ (e.errors > MAX_ERRORS \/ ~ProtectedIsProtected)

\* The message "unexpected floppy interrupt" (floppy.c:198): every interrupt of
\* the controller finds its handler.
InterruptExpected == "unexpected floppy interrupt" \notin said

\* No step of the driver uses CURRENT when the queue is empty.
NoNullCurrent == ~wild

\* The driver keeps the controller and itself in order: one thing under way, started
\* only when drive and motor are ready, each interrupt met by its handler, and no
\* handler left without a request to work for.
UnderControl ==
    TypeOK /\ OneThingUnderWay /\ ReadyToMove /\ InterruptExpected /\ NoNullCurrent

\* Through every order of timers, interrupts and faults the driver stays in control, and
\* what it says of a request that ended, success or failure, is true of that request.
DriverSound == UnderControl /\ SuccessIsItsOwn /\ FailsForAReason

\* Every request ends.
EachEnds == \A w \in Work :
    (\E i \in DOMAIN chain : chain[i].work = w) ~> ~\E i \in DOMAIN chain : chain[i].work = w

\* The motors stop when no request comes any more; nothing calls floppy_off, so
\* moff_timer's first value does it (sched.c:152, 176-195).
MotorsStop == <>[](dor.motors = {})
============================================================================
