------------------------------ MODULE Console ------------------------------
(***************************************************************************)
(* The console, kernel/chr_drv/console.c: con_write's characters and       *)
(* escape sequences, and the video memory behind the screen.  The screen   *)
(* is a window of LINES rows that moves through a larger memory: a scroll  *)
(* of the whole screen moves the window, and copies it back to the start   *)
(* when it would leave the memory; other scrolls copy rows.                *)
(*                                                                         *)
(* Addresses count cells of two bytes.  A cell is blank or has ink;        *)
(* colours and the other attributes are left out, and so is what the       *)
(* hardware cursor shows.  Cursor arithmetic is that of 32-bit unsigned    *)
(* numbers, with Word in place of 2^32.  Characters without a meaning of   *)
(* their own are "a".                                                      *)
(***************************************************************************)
EXTENDS Integers

CONSTANTS COLS, LINES,  \* the screen
          MEM,          \* the cells of the video memory
          Word,         \* the range of an unsigned long
          TabStop,      \* the columns between tab stops, 8 in the code
          NPAR,         \* the parameters of an escape sequence
          Char,         \* the characters that are written
          Blank, Ink,   \* the contents of a cell
          Beyond        \* of one that is not video memory

\* Rows are copied two cells at a time.
ASSUME ScreenAssumption == /\ {COLS, LINES, NPAR} \subseteq Nat \ {0, 1}
                           /\ COLS % 2 = 0
                           /\ TabStop \in 1 .. COLS /\ COLS % TabStop = 0
                           /\ MEM \in Nat /\ MEM >= COLS * LINES
ASSUME WordAssumption   == Word \in Nat /\ Word > COLS + LINES
ASSUME CellAssumption   == Beyond \notin {Blank, Ink}

VARIABLES x, y, pos,        \* the cursor, and its address
          origin, scr_end,  \* the window
          top, bottom,      \* the lines that scroll
          mem,              \* the video memory, and as many cells around it
          state,            \* where in an escape sequence
          npar, par, ques,  \* its parameters
          saved             \* the cursor that was saved

vars == <<x, y, pos, origin, scr_end, top, bottom, mem, state, npar, par, ques, saved>>

\* A row's length of other memory lies before and behind the video memory.
Video   == 0 .. MEM - 1
Address == -COLS .. MEM + COLS - 1

NoPar == [i \in 0 .. NPAR - 1 |-> 0]

\* con_init, wherever the boot loader left the cursor.
Init == /\ x \in 0 .. COLS - 1 /\ y \in 0 .. LINES - 1
        /\ pos = y * COLS + x
        /\ origin = 0 /\ scr_end = LINES * COLS
        /\ top = 0 /\ bottom = LINES
        /\ mem = [a \in Address |-> IF a \in Video THEN Blank ELSE Beyond]
        /\ state = "normal" /\ npar = 0 /\ par = NoPar /\ ques = FALSE
        /\ saved = [x |-> 0, y |-> 0]

Here == [x |-> x, y |-> y, pos |-> pos, origin |-> origin, scr_end |-> scr_end, top |-> top,
         bottom |-> bottom, mem |-> mem, state |-> state, npar |-> npar, par |-> par,
         ques |-> ques, saved |-> saved]

Becomes(s) ==
    \E t \in {s} :
        /\ x' = t.x /\ y' = t.y /\ pos' = t.pos /\ origin' = t.origin /\ scr_end' = t.scr_end
        /\ top' = t.top /\ bottom' = t.bottom /\ mem' = t.mem /\ state' = t.state
        /\ npar' = t.npar /\ par' = t.par /\ ques' = t.ques /\ saved' = t.saved

----------------------------------------------------------------------------
\* Memory: count cells from start are blanked; count cells are copied.
Fill(m, start, count) == [a \in Address |-> IF a \in start .. start + count - 1 THEN Blank ELSE m[a]]
Copy(m, to, from, count) ==
    [a \in Address |-> IF a \in to .. to + count - 1 THEN m[a - to + from] ELSE m[a]]

\* gotoxy: a place that is not on the screen leaves the cursor where it is; a
\* column behind the last one is on it.
Gotoxy(s, nx, ny) ==
    IF nx % Word > COLS \/ ny % Word >= LINES THEN s
    ELSE [s EXCEPT !.x = nx % Word, !.y = ny % Word,
                   !.pos = s.origin + (ny % Word) * COLS + (nx % Word)]

\* A window that moves to the start of the memory, and the cursor's address stays.
WindowUpStalePos(s) ==
    LET o == s.origin + COLS
        e == s.scr_end + COLS
    IN  IF e > MEM
        THEN [s EXCEPT !.mem = Fill(Copy(@, 0, o, (LINES - 1) * COLS), (LINES - 1) * COLS, COLS),
                       !.origin = 0, !.scr_end = e - o, !.pos = @ + COLS]
        ELSE [s EXCEPT !.mem = Fill(@, e - COLS, COLS), !.origin = o, !.scr_end = e, !.pos = @ + COLS]

\* A window whose new line keeps what the memory held.
WindowUpUnblanked(s) ==
    LET o == s.origin + COLS
        e == s.scr_end + COLS
    IN  IF e > MEM
        THEN [s EXCEPT !.mem = Copy(@, 0, o, (LINES - 1) * COLS),
                       !.origin = 0, !.scr_end = e - o, !.pos = @ + COLS - o]
        ELSE [s EXCEPT !.origin = o, !.scr_end = e, !.pos = @ + COLS]

\* The whole screen moves up: the window moves on, or its copy to the start.
WindowUp(s) ==
    LET o == s.origin + COLS
        e == s.scr_end + COLS
    IN  IF e > MEM
        THEN [s EXCEPT !.mem = Fill(Copy(@, 0, o, (LINES - 1) * COLS), (LINES - 1) * COLS, COLS),
                       !.origin = 0, !.scr_end = e - o, !.pos = @ + COLS - o]
        ELSE [s EXCEPT !.mem = Fill(@, e - COLS, COLS), !.origin = o, !.scr_end = e, !.pos = @ + COLS]

RowsUp(s) ==
    LET t == s.origin + s.top * COLS
        n == (s.bottom - s.top - 1) * COLS
    IN  [s EXCEPT !.mem = Fill(Copy(@, t, t + COLS, n), t + n, COLS)]

\* scrup: the lines of the region move up by one.
Scrup(s) == IF s.top = 0 /\ s.bottom = LINES THEN WindowUp(s) ELSE RowsUp(s)

\* scrdown: they move down by one.
Scrdown(s) ==
    LET t == s.origin + s.top * COLS
    IN  IF s.bottom <= s.top THEN s
        ELSE [s EXCEPT !.mem = Fill(Copy(@, t + COLS, t, (s.bottom - s.top - 1) * COLS), t, COLS)]

Ri(s) == IF s.y > s.top THEN [s EXCEPT !.y = @ - 1, !.pos = @ - COLS] ELSE Scrdown(s)

Lf(s) == IF s.y + 1 < s.bottom THEN [s EXCEPT !.y = @ + 1, !.pos = @ + COLS] ELSE Scrup(s)

Cr(s) == [s EXCEPT !.pos = @ - s.x, !.x = 0]

Del(s) == IF s.x = 0 THEN s
          ELSE [s EXCEPT !.pos = @ - 1, !.x = @ - 1, !.mem[s.pos - 1] = Blank]

Bs(s) == IF s.x = 0 THEN s ELSE [s EXCEPT !.x = @ - 1, !.pos = @ - 1]

\* The place in the next line, where the cursor is past the end of this one.
Wrap(s) == Lf([s EXCEPT !.x = @ - COLS, !.pos = @ - COLS])

Put(s) == LET t == IF s.x >= COLS THEN Wrap(s) ELSE s
          IN  [t EXCEPT !.mem[t.pos] = Ink, !.pos = @ + 1, !.x = @ + 1]

Tab(s) == LET n == TabStop - (s.x % TabStop)
              t == [s EXCEPT !.x = @ + n, !.pos = @ + n]
          IN  IF t.x > COLS THEN Wrap(t) ELSE t

CsiJ(s, p) ==
    CASE p = 0 -> [s EXCEPT !.mem = Fill(@, s.pos, s.scr_end - s.pos)]
      [] p = 1 -> [s EXCEPT !.mem = Fill(@, s.origin, s.pos - s.origin)]
      [] p = 2 -> [s EXCEPT !.mem = Fill(@, s.origin, COLS * LINES)]
      [] OTHER -> s

CsiK(s, p) ==
    CASE p = 0 -> [s EXCEPT !.mem = Fill(@, s.pos, COLS - s.x)]
      [] p = 1 -> [s EXCEPT !.mem = Fill(@, s.pos - s.x, s.x)]
      [] p = 2 -> [s EXCEPT !.mem = Fill(@, s.pos - s.x, COLS)]
      [] OTHER -> s

\* delete_line and insert_line: a scroll of the lines from the cursor's on.
OnLinesBelow(s, f(_)) == [f([s EXCEPT !.top = s.y, !.bottom = LINES])
                            EXCEPT !.top = s.top, !.bottom = s.bottom]
DeleteLine(s) == OnLinesBelow(s, Scrup)
InsertLine(s) == OnLinesBelow(s, Scrdown)

DeleteChar(s) ==
    IF s.x >= COLS THEN s
    ELSE LET n == COLS - s.x - 1
         IN  [s EXCEPT !.mem = Fill(Copy(@, s.pos, s.pos + 1, n), s.pos + n, 1)]

InsertChar(s) ==
    IF s.x >= COLS THEN s
    ELSE [s EXCEPT !.mem = Fill(Copy(@, s.pos + 1, s.pos, COLS - s.x - 1), s.pos, 1)]

\* The step that a sequence repeats, taken n times.
Moved(c, s) == CASE c = "L" -> InsertLine(s)
                 [] c = "M" -> DeleteLine(s)
                 [] c = "P" -> DeleteChar(s)
                 [] c = "@" -> InsertChar(s)

Times(n, c, s) == LET after[i \in 0 .. n] == IF i = 0 THEN s ELSE Moved(c, after[i - 1])
                  IN  after[n]

\* How often: a parameter of zero is one, and more than the screen holds is not
\* needed.
Clipped(n, most) == IF n > most THEN most ELSE IF n = 0 THEN 1 ELSE n

----------------------------------------------------------------------------
\* The parameters that are counted from one; 'd' takes one off where it is none.
FromOne(n) == IF n > 0 THEN n - 1 ELSE 0
AtLeastOne(n) == IF n = 0 THEN 1 ELSE n
OneOffNone(n) == IF n = 0 THEN Word - 1 ELSE n

\* 'r': the region that scrolls, if it is one.
SetRegion(s, p, q) ==
    LET t == FromOne(p)
        b == IF q = 0 THEN LINES ELSE q
    IN  IF t < b /\ b <= LINES THEN [s EXCEPT !.top = t, !.bottom = b] ELSE s

Save(s)    == [s EXCEPT !.saved = [x |-> s.x, y |-> s.y]]
Restore(s) == Gotoxy(s, s.saved.x, s.saved.y)

\* The end of a sequence ESC [ ... c.  The next one sets par and npar anew, so that
\* what this one leaves in them is forgotten at once.
GotPars(r, c) ==
    LET p == r.par[0]
        n == AtLeastOne(p)
        s == [r EXCEPT !.state = "normal", !.npar = 0, !.par = NoPar, !.ques = FALSE]
    IN  CASE r.ques  -> s
          [] c = "G" -> Gotoxy(s, FromOne(p), s.y)
          [] c = "A" -> Gotoxy(s, s.x, s.y - n)
          [] c = "B" -> Gotoxy(s, s.x, s.y + n)
          [] c = "C" -> Gotoxy(s, s.x + n, s.y)
          [] c = "D" -> Gotoxy(s, s.x - n, s.y)
          [] c = "E" -> Gotoxy(s, 0, s.y + n)
          [] c = "F" -> Gotoxy(s, 0, s.y - n)
          [] c = "d" -> Gotoxy(s, s.x, OneOffNone(p))
          [] c = "H" -> Gotoxy(s, FromOne(r.par[1]), FromOne(p))
          [] c = "J" -> CsiJ(s, p)
          [] c = "K" -> CsiK(s, p)
          [] c \in {"L", "M"} -> Times(Clipped(p, LINES), c, s)
          [] c \in {"P", "@"} -> Times(Clipped(p, COLS), c, s)
          [] c = "r" -> SetRegion(s, p, r.par[1])
          [] c = "s" -> Save(s)
          [] c = "u" -> Restore(s)
          [] OTHER   -> s

Digit == [c \in {"0", "1", "2", "3", "9"} |->
            CASE c = "0" -> 0 [] c = "1" -> 1 [] c = "2" -> 2 [] c = "3" -> 3 [] c = "9" -> 9]

\* ESgetpars and, behind the parameters, ESgotpars.
GetPars(s, c) ==
    IF c = ";" /\ s.npar < NPAR - 1 THEN [s EXCEPT !.npar = @ + 1]
    ELSE IF c \in DOMAIN Digit THEN [s EXCEPT !.par[s.npar] = (10 * @ + Digit[c]) % Word]
    ELSE GotPars(s, c)

Normal(s, c) ==
    CASE c = "esc" -> [s EXCEPT !.state = "esc"]
      [] c = "lf"  -> Lf(s)
      [] c = "cr"  -> Cr(s)
      [] c = "del" -> Del(s)
      [] c = "bs"  -> Bs(s)
      [] c = "tab" -> Tab(s)
      [] OTHER     -> Put(s)

\* Behind an ESC.  ESsetgraph and the state -1 are not looked at again.
Escape(s, c) ==
    LET t == [s EXCEPT !.state = "normal"]
    IN  CASE c = "[" -> [t EXCEPT !.state = "square"]
          [] c = "E" -> Gotoxy(t, 0, t.y + 1)
          [] c = "M" -> Ri(t)
          [] c = "D" -> Lf(t)
          [] c = "7" -> Save(t)
          [] c = "8" -> Restore(t)
          [] c = "P" -> [t EXCEPT !.state = "setterm"]
          [] c = "c" -> [t EXCEPT !.top = 0, !.bottom = LINES]
          [] c \in {"(", "#"} -> [t EXCEPT !.state = "deaf"]
          [] OTHER -> t

\* Behind ESC [.
Square(s, c) ==
    LET t == [s EXCEPT !.npar = 0, !.par = NoPar, !.state = "getpars", !.ques = (c = "?")]
    IN  IF c = "[" THEN [t EXCEPT !.state = "deaf", !.ques = s.ques]
        ELSE IF c = "?" THEN t ELSE GetPars(t, c)

\* One character of con_write.
Written(s, c) ==
    CASE s.state = "normal"  -> Normal(s, c)
      [] s.state = "esc"     -> Escape(s, c)
      [] s.state = "square"  -> Square(s, c)
      [] s.state = "getpars" -> GetPars(s, c)
      [] s.state = "setterm" -> [s EXCEPT !.state = "normal"]
      [] s.state = "deaf"    -> s

\* con_write of a character; behind the last one the cursor is set anew.
ConWrite(c, last) ==
    \E s \in {Written(Here, c)} : Becomes(IF last THEN Gotoxy(s, s.x, s.y) ELSE s)

Next == \E c \in Char, last \in BOOLEAN : ConWrite(c, last)

Spec == Init /\ [][Next]_vars

----------------------------------------------------------------------------
\* Type invariant.
TypeOK ==
    /\ x \in 0 .. COLS /\ y \in 0 .. LINES - 1
    /\ origin \in 0 .. MEM /\ scr_end \in 0 .. MEM
    /\ top \in 0 .. LINES - 1 /\ bottom \in 1 .. LINES /\ top < bottom
    /\ mem \in [Address -> {Blank, Ink, Beyond}]
    /\ state \in {"normal", "esc", "square", "getpars", "setterm", "deaf"}
    /\ npar \in 0 .. NPAR - 1 /\ par \in [0 .. NPAR - 1 -> 0 .. Word - 1] /\ ques \in BOOLEAN
    /\ saved \in [x : 0 .. COLS, y : 0 .. LINES - 1]

\* The cursor's place and its address are two records of one thing, kept by hand
\* in each of con_write's branches; the window lies in the video memory.
PosAgrees ==
    /\ pos = origin + y * COLS + x
    /\ scr_end = origin + LINES * COLS

\* No character and no sequence, whatever its parameters and wherever the window
\* is, writes memory that is not the video memory's, or brings its content onto
\* the screen.
KeepsToVideo == \A a \in Address : mem[a] = Beyond <=> a \notin Video

\* con_write keeps its records straight and stays in the video memory, after any
\* sequence of characters.
WithinScreen == TypeOK /\ PosAgrees /\ KeepsToVideo

\* The screen that the window shows.
Grid == [r \in 0 .. LINES - 1 |-> [c \in 0 .. COLS - 1 |-> mem[origin + r * COLS + c]]]

Shown == INSTANCE Screen WITH grid <- Grid

\* Whatever the window and the copies do, the user sees a screen: scrolls by
\* moving the window and scrolls by copying look the same, and lines and
\* characters inserted or deleted one by one are moved by their number.
ShowsScreen == Shown!Spec
============================================================================
