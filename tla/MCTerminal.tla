----------------------------- MODULE MCTerminal -----------------------------
(***************************************************************************)
(* A terminal from the key to the process: the keyboard (Keyboard), the    *)
(* rings of the line (Tty) and the queue on which tasks wait for it        *)
(* (WaitQueue, with four tasks).  Each is explored from its initial state  *)
(* while the others are in theirs, where they have no fair action: what    *)
(* the keyboard sends and when a queue is woken are inputs of the others.  *)
(***************************************************************************)
EXTENDS WaitQueue

\* Rings of three characters; four may be typed before a line is read.
VARIABLES read_q, secondary, write_q, data, canon, echo, reader, writer, held, owed
theTty == <<read_q, secondary, write_q, data, canon, echo, reader, writer, held, owed>>
T == INSTANCE Tty WITH
        TTY_BUF_SIZE <- 4, Typed <- {"a", "nl", "eof", "erase", "kill", "intr"}, Raw <- {"nl"},
        Texts <- {<<"nl">>}, Counts <- {2}, Ahead <- 4, MaxHeld <- 1,
        ReadEcho <- {FALSE}, WriteEcho <- {TRUE}, Windows <- {}

\* One key of each kind.
VARIABLES mode, leds, e0, down, last, locked
theKeys == <<mode, leds, e0, down, last, locked>>
K == INSTANCE Keyboard WITH
        Key <- {"d", "five", "slash", "lshift", "rshift", "ctrl", "rctrl", "caps", "num",
                "scroll", "home", "greyhome", "kpslash", "f11", "pause"},
        MaxDown <- 3, CtrlAlone <- TRUE

AllInit == WaitInit /\ T!Init /\ K!Init
AllNext ==
    \/ T!Init /\ K!Init /\ WaitNext /\ UNCHANGED <<theTty, theKeys>>
    \/ WaitInit /\ K!Init /\ T!Next /\ UNCHANGED <<waitVars, theKeys>>
    \/ WaitInit /\ T!Init /\ K!Next /\ UNCHANGED <<waitVars, theTty>>
AllSpec == /\ AllInit /\ [][AllNext]_<<waitVars, theTty, theKeys>>
           /\ \A t \in Sleeper : WF_waitVars(Resume(t))
           /\ T!Fairness

RingsSound  == T!RingsSound
LineSpec    == T!LineSpec
LineArrives == T!LineArrives
KeysMean    == K!KeysMean
=============================================================================
