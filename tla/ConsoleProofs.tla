--------------------------- MODULE ConsoleProofs ---------------------------
(***************************************************************************)
(* Theorems about Console for every size of screen, video memory and word: *)
(* after any sequence of characters the cursor, its address and the window *)
(* agree, nothing outside the video memory was written, and what the       *)
(* window shows is Screen's grid.                                          *)
(***************************************************************************)
EXTENDS Console, CommonLemmas

Contents == {Blank, Ink, Beyond}
Modes    == {"normal", "esc", "square", "getpars", "setterm", "deaf"}

\* What lies around the video memory is where it was, and only there.
VideoKept(m) == m \in [Address -> Contents] /\ \A a \in Address : m[a] = Beyond <=> a \notin Video

Record == [x : 0 .. COLS, y : 0 .. LINES - 1, pos : Int, origin : Int, scr_end : Int,
           top : 0 .. LINES - 1, bottom : 1 .. LINES, mem : [Address -> Contents],
           state : Modes, npar : 0 .. NPAR - 1, par : [0 .. NPAR - 1 -> 0 .. Word - 1],
           ques : BOOLEAN, saved : [x : 0 .. COLS, y : 0 .. LINES - 1]]

\* The cursor's address is that of its place in the window, which lies in the
\* video memory.
Placed(s) == /\ s.pos = s.origin + s.y * COLS + s.x
             /\ s.scr_end = s.origin + LINES * COLS
             /\ 0 <= s.origin /\ s.scr_end <= MEM

Well(s) == s \in Record /\ s.top < s.bottom /\ Placed(s) /\ VideoKept(s.mem)

\* The inductive invariant.
Inv == Well(Here)

\* The sizes, one by one.
LEMMA Sizes ==
    /\ COLS \in Nat /\ LINES \in Nat /\ NPAR \in Nat /\ COLS > 1 /\ LINES > 1 /\ NPAR > 1
    /\ TabStop \in 1 .. COLS /\ MEM \in Nat /\ LINES * COLS <= MEM
    /\ Word \in Nat /\ Word > COLS /\ Word > LINES
    /\ Beyond # Blank /\ Beyond # Ink
<1>1. /\ COLS \in Nat /\ LINES \in Nat /\ NPAR \in Nat /\ COLS > 1 /\ LINES > 1 /\ NPAR > 1
      /\ TabStop \in 1 .. COLS /\ MEM \in Nat
  BY ScreenAssumption
<1>2. LINES * COLS <= MEM
  BY <1>1, ScreenAssumption
<1>3. Word \in Nat /\ Word > COLS /\ Word > LINES
  BY <1>1, WordAssumption
<1> QED
  BY <1>1, <1>2, <1>3, CellAssumption

----------------------------------------------------------------------------
\* The address of a row.
LEMMA RowsInOrder ==
    ASSUME NEW a \in Int, NEW b \in Int, a <= b
    PROVE  a * COLS \in Int /\ b * COLS \in Int /\ a * COLS <= b * COLS
<1>1. COLS \in Int /\ COLS >= 0 /\ b - a \in Int /\ b - a >= 0
  BY Sizes
<1>2. (b - a) * COLS >= 0
  BY <1>1
<1>3. (b - a) * COLS = b * COLS - a * COLS
  BY <1>1
<1> QED
  BY <1>1, <1>2, <1>3

LEMMA NextRow ==
    ASSUME NEW a \in Int
    PROVE  (a + 1) * COLS = a * COLS + COLS /\ (a - 1) * COLS = a * COLS - COLS /\ a * COLS \in Int
<1>1. COLS \in Int
  BY Sizes
<1> QED
  BY <1>1

\* The window's cells are video memory.
LEMMA InWindow ==
    ASSUME NEW s, Well(s)
    PROVE  /\ s.x \in 0 .. COLS /\ s.y \in 0 .. LINES - 1 /\ s.pos \in Int
           /\ s.origin \in Nat /\ s.scr_end \in Nat
           /\ s.y * COLS \in Nat /\ LINES * COLS \in Nat /\ COLS \in Nat
           /\ s.y * COLS + COLS <= LINES * COLS
           /\ s.pos = s.origin + s.y * COLS + s.x
           /\ s.scr_end = s.origin + LINES * COLS
           /\ s.scr_end <= MEM
<1>1. /\ s.x \in 0 .. COLS /\ s.y \in 0 .. LINES - 1 /\ s.pos \in Int /\ s.origin \in Int
      /\ s.scr_end \in Int
  BY DEF Well, Record
<1>2. (s.y + 1) * COLS <= LINES * COLS /\ 0 * COLS <= s.y * COLS
  <2>1. s.y + 1 \in Int /\ LINES \in Int /\ s.y + 1 <= LINES /\ s.y \in Int /\ 0 <= s.y
    BY <1>1, Sizes
  <2> QED
    BY <2>1, RowsInOrder
<1>3. s.y * COLS \in Int /\ (s.y + 1) * COLS = s.y * COLS + COLS /\ 0 * COLS = 0
  BY <1>1, NextRow, Sizes
<1> DEFINE r == s.y * COLS
           w == LINES * COLS
<1>4. r \in Int /\ r >= 0 /\ r + COLS <= w /\ w \in Int
  <2>1. w \in Int
    BY Sizes
  <2> QED
    BY <1>2, <1>3, <2>1
<1>5. /\ s.pos = s.origin + r + s.x /\ s.scr_end = s.origin + w
      /\ 0 <= s.origin /\ s.scr_end <= MEM
  BY DEF Well, Placed
<1>6. COLS \in Nat
  BY Sizes
<1> HIDE DEF r, w
<1>7. s.origin \in Nat /\ s.scr_end \in Nat /\ r \in Nat /\ w \in Nat
  BY <1>1, <1>4, <1>5, <1>6
<1> QED
  BY <1>1, <1>4, <1>5, <1>6, <1>7 DEF r, w

\* The cursor's row is a piece of the window.
LEMMA RowInWindow ==
    ASSUME NEW s, Well(s)
    PROVE  /\ s.x \in 0 .. COLS /\ s.origin \in Nat /\ s.pos \in Nat /\ s.scr_end \in Nat
           /\ s.origin <= s.pos - s.x /\ s.pos - s.x + COLS <= s.scr_end /\ s.scr_end <= MEM
           /\ COLS \in Nat /\ MEM \in Nat
<1> PICK r, w : r = s.y * COLS /\ w = LINES * COLS
  OBVIOUS
<1>1. /\ s.x \in 0 .. COLS /\ s.origin \in Nat /\ s.scr_end \in Nat /\ s.scr_end <= MEM
      /\ r \in Nat /\ w \in Nat /\ COLS \in Nat /\ r + COLS <= w
      /\ s.pos = s.origin + r + s.x /\ s.scr_end = s.origin + w
  BY InWindow
<1>2. MEM \in Nat
  BY Sizes
<1> QED
  BY <1>1, <1>2

----------------------------------------------------------------------------
\* Memory.

LEMMA FillKept ==
    ASSUME NEW m, VideoKept(m), NEW start \in Int, NEW count \in Int,
           start >= 0, start + count <= MEM
    PROVE  VideoKept(Fill(m, start, count))
<1>1. \A a \in start .. start + count - 1 : a \in Video
  BY Sizes DEF Video
<1>2. Blank \in Contents /\ Blank # Beyond
  BY Sizes DEF Contents
<1>3. Fill(m, start, count) \in [Address -> Contents]
  BY <1>2 DEF Fill, VideoKept
<1>4. ASSUME NEW a \in Address
      PROVE  Fill(m, start, count)[a] = Beyond <=> a \notin Video
  <2>1. CASE a \in start .. start + count - 1
    BY <2>1, <1>1, <1>2 DEF Fill
  <2>2. CASE a \notin start .. start + count - 1
    BY <2>2 DEF Fill, VideoKept
  <2> QED
    BY <2>1, <2>2
<1> QED
  BY <1>3, <1>4 DEF VideoKept

LEMMA CopyKept ==
    ASSUME NEW m, VideoKept(m), NEW to \in Int, NEW from \in Int, NEW count \in Int,
           to >= 0, to + count <= MEM, from >= 0, from + count <= MEM
    PROVE  VideoKept(Copy(m, to, from, count))
<1>1. ASSUME NEW a \in to .. to + count - 1
      PROVE  a \in Video /\ a - to + from \in Video /\ a - to + from \in Address
  BY <1>1, Sizes DEF Video, Address
<1>2. ASSUME NEW a \in Address
      PROVE  /\ Copy(m, to, from, count)[a] \in Contents
             /\ Copy(m, to, from, count)[a] = Beyond <=> a \notin Video
  <2>1. CASE a \in to .. to + count - 1
    <3>1. Copy(m, to, from, count)[a] = m[a - to + from]
      BY <2>1 DEF Copy
    <3> QED
      BY <2>1, <3>1, <1>1 DEF VideoKept
  <2>2. CASE a \notin to .. to + count - 1
    <3>1. Copy(m, to, from, count)[a] = m[a]
      BY <2>2 DEF Copy
    <3> QED
      BY <3>1 DEF VideoKept
  <2> QED
    BY <2>1, <2>2
<1>3. Copy(m, to, from, count) = [a \in Address |-> Copy(m, to, from, count)[a]]
  BY DEF Copy
<1>4. Copy(m, to, from, count) \in [Address -> Contents]
  BY <1>2, <1>3
<1> QED
  BY <1>2, <1>4 DEF VideoKept

\* One cell of the video memory changes.
LEMMA CellKept ==
    ASSUME NEW m, VideoKept(m), NEW p \in Video, NEW v \in {Blank, Ink}
    PROVE  VideoKept([m EXCEPT ![p] = v])
<1>1. v \in Contents /\ v # Beyond
  BY Sizes DEF Contents
<1> QED
  BY <1>1 DEF VideoKept

----------------------------------------------------------------------------
\* Operations.

\* An operation that changes the video memory only.
LEMMA Changed ==
    ASSUME NEW s, Well(s), NEW m, VideoKept(m)
    PROVE  Well([s EXCEPT !.mem = m])
<1> PICK t : t = [s EXCEPT !.mem = m]
  OBVIOUS
<1>1. m \in [Address -> Contents]
  BY DEF VideoKept
<1>2. t \in Record /\ t.mem = m
  BY <1>1 DEF Well, Record
<1>3. /\ t.pos = s.pos /\ t.origin = s.origin /\ t.y = s.y /\ t.x = s.x /\ t.scr_end = s.scr_end
      /\ t.top = s.top /\ t.bottom = s.bottom
  BY DEF Well, Record
<1> QED
  BY <1>2, <1>3 DEF Well, Placed

\* One that moves the cursor.
LEMMA CursorMoved ==
    ASSUME NEW s, Well(s), NEW nx \in 0 .. COLS, NEW ny \in 0 .. LINES - 1,
           NEW np, np = s.origin + ny * COLS + nx
    PROVE  Well([s EXCEPT !.x = nx, !.y = ny, !.pos = np])
<1> PICK t : t = [s EXCEPT !.x = nx, !.y = ny, !.pos = np]
  OBVIOUS
<1>1. np \in Int
  BY InWindow, Sizes
<1>2. t \in Record /\ t.x = nx /\ t.y = ny /\ t.pos = np
  BY <1>1 DEF Well, Record
<1>3. /\ t.origin = s.origin /\ t.scr_end = s.scr_end /\ t.mem = s.mem
      /\ t.top = s.top /\ t.bottom = s.bottom
  BY DEF Well, Record
<1> QED
  BY <1>2, <1>3 DEF Well, Placed

\* In its line, and in its column.
LEMMA ColumnMoved ==
    ASSUME NEW s, Well(s), NEW nx \in 0 .. COLS, NEW np, np = s.pos - s.x + nx
    PROVE  Well([s EXCEPT !.x = nx, !.pos = np])
<1> PICK ny : ny = s.y
  OBVIOUS
<1>1. [s EXCEPT !.x = nx, !.pos = np] = [s EXCEPT !.x = nx, !.y = ny, !.pos = np]
  BY DEF Well, Record
<1>2. ny \in 0 .. LINES - 1 /\ np = s.origin + ny * COLS + nx
  BY InWindow
<1>3. Well([s EXCEPT !.x = nx, !.y = ny, !.pos = np])
  BY <1>2, CursorMoved
<1> QED
  BY <1>1, <1>3

LEMMA LineMoved ==
    ASSUME NEW s, Well(s), NEW ny \in 0 .. LINES - 1, NEW np, np = s.pos - s.y * COLS + ny * COLS
    PROVE  Well([s EXCEPT !.y = ny, !.pos = np])
<1> PICK nx : nx = s.x
  OBVIOUS
<1>1. [s EXCEPT !.y = ny, !.pos = np] = [s EXCEPT !.x = nx, !.y = ny, !.pos = np]
  BY DEF Well, Record
<1>2. nx \in 0 .. COLS
  BY InWindow
<1>3. np = s.origin + ny * COLS + nx
  <2> PICK r : r = ny * COLS
    OBVIOUS
  <2>1. r \in Int
    BY Sizes
  <2> QED
    BY <2>1, InWindow
<1>4. Well([s EXCEPT !.x = nx, !.y = ny, !.pos = np])
  BY <1>2, <1>3, CursorMoved
<1> QED
  BY <1>1, <1>4

\* gotoxy, whatever the numbers.
LEMMA GotoxyWell ==
    ASSUME NEW s, Well(s), NEW nx \in Int, NEW ny \in Int
    PROVE  Well(Gotoxy(s, nx, ny))
<1>1. nx % Word \in 0 .. Word - 1 /\ ny % Word \in 0 .. Word - 1
  BY Sizes
<1> PICK a, b : a = nx % Word /\ b = ny % Word
  OBVIOUS
<1>2. CASE a > COLS \/ b >= LINES
  BY <1>2 DEF Gotoxy
<1>3. CASE ~(a > COLS \/ b >= LINES)
  <2>1. a \in 0 .. COLS /\ b \in 0 .. LINES - 1
    BY <1>1, <1>3, Sizes
  <2> PICK np : np = s.origin + b * COLS + a
    OBVIOUS
  <2>2. Gotoxy(s, nx, ny) = [s EXCEPT !.x = a, !.y = b, !.pos = np]
    BY <1>3 DEF Gotoxy
  <2>3. Well([s EXCEPT !.x = a, !.y = b, !.pos = np])
    BY <2>1, CursorMoved
  <2> QED
    BY <2>2, <2>3
<1> QED
  BY <1>2, <1>3

\* The window moves.
LEMMA WindowMoved ==
    ASSUME NEW s, Well(s), NEW m, VideoKept(m), NEW o \in Int, NEW e \in Int, NEW np \in Int,
           np = o + s.y * COLS + s.x, e = o + LINES * COLS, 0 <= o, e <= MEM
    PROVE  Well([s EXCEPT !.mem = m, !.origin = o, !.scr_end = e, !.pos = np])
<1> PICK t : t = [s EXCEPT !.mem = m, !.origin = o, !.scr_end = e, !.pos = np]
  OBVIOUS
<1>1. m \in [Address -> Contents]
  BY DEF VideoKept
<1>2. t \in Record /\ t.mem = m /\ t.origin = o /\ t.scr_end = e /\ t.pos = np
  BY <1>1 DEF Well, Record
<1>3. t.x = s.x /\ t.y = s.y /\ t.top = s.top /\ t.bottom = s.bottom
  BY DEF Well, Record
<1> QED
  BY <1>2, <1>3 DEF Well, Placed

\* The scroll of the whole screen: the window moves, or starts anew.
LEMMA WindowUpWell == ASSUME NEW s, Well(s) PROVE Well(WindowUp(s))
<1> PICK o, e, w, r : /\ o = s.origin + COLS /\ e = s.scr_end + COLS /\ w = LINES * COLS
                      /\ r = s.y * COLS
  OBVIOUS
<1>1. /\ o \in Nat /\ e \in Nat /\ w \in Nat /\ r \in Nat /\ e = o + w /\ s.pos = o - COLS + r + s.x
      /\ COLS \in Nat /\ r + COLS <= w /\ s.x \in 0 .. COLS /\ w <= MEM /\ COLS <= w
  <2>1. /\ w \in Nat /\ r \in Nat /\ r + COLS <= w /\ COLS \in Nat
        /\ s.origin \in Nat /\ s.scr_end = s.origin + w /\ s.pos = s.origin + r + s.x
        /\ s.x \in 0 .. COLS
    BY InWindow
  <2>2. w <= MEM
    BY Sizes
  <2> QED
    BY <2>1, <2>2
<1>2. VideoKept(s.mem)
  BY DEF Well
<1>3. CASE e > MEM
  <2>1. (LINES - 1) * COLS = w - COLS
    BY Sizes, NextRow
  <2> PICK m : m = Fill(Copy(s.mem, 0, o, w - COLS), w - COLS, COLS)
    OBVIOUS
  <2>2. VideoKept(m)
    <3> PICK c : c = Copy(s.mem, 0, o, w - COLS)
      OBVIOUS
    <3>1. o + (w - COLS) <= MEM
      <4>1. s.scr_end <= MEM /\ s.scr_end \in Nat
        BY InWindow
      <4> QED
        BY <4>1, <1>1
    <3>2. VideoKept(c)
      BY <1>1, <1>2, <3>1, CopyKept, Sizes
    <3> QED
      BY <1>1, <3>2, FillKept, Sizes
  <2> PICK z, e2, np : z = 0 /\ e2 = e - o /\ np = s.pos + COLS - o
    OBVIOUS
  <2>3. WindowUp(s) = [s EXCEPT !.mem = m, !.origin = z, !.scr_end = e2, !.pos = np]
    BY <1>3, <2>1 DEF WindowUp
  <2>4. /\ z \in Int /\ e2 \in Int /\ np \in Int
        /\ np = z + r + s.x /\ e2 = z + w /\ 0 <= z /\ e2 <= MEM
    BY <1>1
  <2>5. Well([s EXCEPT !.mem = m, !.origin = z, !.scr_end = e2, !.pos = np])
    BY <2>2, <2>4, WindowMoved
  <2> QED
    BY <2>3, <2>5
<1>4. CASE ~(e > MEM)
  <2> PICK m : m = Fill(s.mem, e - COLS, COLS)
    OBVIOUS
  <2>2. VideoKept(m)
    BY <1>1, <1>2, <1>4, FillKept, Sizes
  <2> PICK np : np = s.pos + COLS
    OBVIOUS
  <2>3. WindowUp(s) = [s EXCEPT !.mem = m, !.origin = o, !.scr_end = e, !.pos = np]
    BY <1>4 DEF WindowUp
  <2>4. /\ o \in Int /\ e \in Int /\ np \in Int
        /\ np = o + r + s.x /\ e = o + w /\ 0 <= o /\ e <= MEM
    BY <1>1, <1>4, Sizes
  <2>5. Well([s EXCEPT !.mem = m, !.origin = o, !.scr_end = e, !.pos = np])
    BY <2>2, <2>4, WindowMoved
  <2> QED
    BY <2>3, <2>5
<1> QED
  BY <1>3, <1>4

\* The lines that a scroll of rows moves are in the window.
LEMMA InRegion ==
    ASSUME NEW s, Well(s), NEW t, t = s.origin + s.top * COLS,
           NEW n, n = (s.bottom - s.top - 1) * COLS
    PROVE  t \in Nat /\ n \in Nat /\ t + n + COLS <= MEM
<1> PICK a, b, w : a = s.top * COLS /\ b = s.bottom * COLS /\ w = LINES * COLS
  OBVIOUS
<1>1. s.top \in 0 .. LINES - 1 /\ s.bottom \in 1 .. LINES /\ s.top < s.bottom
  BY DEF Well, Record
<1>2. /\ s.top \in Int /\ s.bottom \in Int /\ LINES \in Int /\ s.bottom - s.top - 1 \in Int
      /\ 0 <= s.top /\ s.bottom <= LINES /\ 0 <= s.bottom - s.top - 1
  BY <1>1, Sizes
<1>3. a \in Int /\ b \in Int /\ w \in Int /\ n \in Int /\ 0 <= a /\ b <= w /\ 0 <= n
  <2>1. 0 * COLS = 0
    BY Sizes
  <2> QED
    BY <1>2, <2>1, RowsInOrder
<1>4. n = b - a - COLS
  <2>1. COLS \in Int
    BY Sizes
  <2> QED
    BY <1>2, <2>1
<1>5. s.origin \in Nat /\ s.origin + w <= MEM /\ COLS \in Nat
  BY InWindow
<1> QED
  BY <1>3, <1>4, <1>5, Sizes

LEMMA RowsUpWell == ASSUME NEW s, Well(s) PROVE Well(RowsUp(s))
<1> PICK t, n : t = s.origin + s.top * COLS /\ n = (s.bottom - s.top - 1) * COLS
  OBVIOUS
<1>1. t \in Nat /\ n \in Nat /\ t + n + COLS <= MEM /\ COLS \in Nat
  BY InRegion, Sizes
<1> PICK c : c = Copy(s.mem, t, t + COLS, n)
  OBVIOUS
<1>2. VideoKept(c)
  <2>1. VideoKept(s.mem)
    BY DEF Well
  <2> QED
    BY <1>1, <2>1, CopyKept, Sizes
<1> PICK m : m = Fill(c, t + n, COLS)
  OBVIOUS
<1>3. VideoKept(m)
  BY <1>1, <1>2, FillKept, Sizes
<1>4. RowsUp(s) = [s EXCEPT !.mem = m]
  BY DEF RowsUp
<1> QED
  BY <1>3, <1>4, Changed

LEMMA ScrupWell == ASSUME NEW s, Well(s) PROVE Well(Scrup(s))
BY RowsUpWell, WindowUpWell DEF Scrup

LEMMA ScrdownWell == ASSUME NEW s, Well(s) PROVE Well(Scrdown(s))
<1> PICK t, n : t = s.origin + s.top * COLS /\ n = (s.bottom - s.top - 1) * COLS
  OBVIOUS
<1>1. t \in Nat /\ n \in Nat /\ t + n + COLS <= MEM /\ COLS \in Nat
  BY InRegion, Sizes
<1> PICK c : c = Copy(s.mem, t + COLS, t, n)
  OBVIOUS
<1>2. VideoKept(c)
  <2>1. VideoKept(s.mem)
    BY DEF Well
  <2> QED
    BY <1>1, <2>1, CopyKept, Sizes
<1> PICK m : m = Fill(c, t, COLS)
  OBVIOUS
<1>3. VideoKept(m)
  BY <1>1, <1>2, FillKept, Sizes
<1>4. Scrdown(s) = s \/ Scrdown(s) = [s EXCEPT !.mem = m]
  BY DEF Scrdown
<1> QED
  BY <1>3, <1>4, Changed

\* A scroll leaves the column alone, and one of rows the line.
LEMMA ScrupColumn == ASSUME NEW s, Well(s) PROVE Scrup(s).x = s.x
<1>1. WindowUp(s).x = s.x
  BY DEF WindowUp, Well, Record
<1>2. RowsUp(s).x = s.x
  BY DEF RowsUp, Well, Record
<1> QED
  BY <1>1, <1>2 DEF Scrup

LEMMA LfWell ==
    ASSUME NEW s, Well(s)
    PROVE  Well(Lf(s)) /\ Lf(s).x = s.x
<1>1. CASE s.y + 1 < s.bottom
  <2> PICK ny, np : ny = s.y + 1 /\ np = s.pos + COLS
    OBVIOUS
  <2>0. /\ s.y \in 0 .. LINES - 1 /\ s.top \in 0 .. LINES - 1 /\ s.bottom \in 1 .. LINES
        /\ LINES \in Nat
    BY Sizes DEF Well, Record
  <2>1. ny \in 0 .. LINES - 1
    BY <1>1, <2>0
  <2>2. np = s.pos - s.y * COLS + ny * COLS
    <3>1. s.y \in Int /\ s.pos \in Int /\ COLS \in Int
      BY <2>0, InWindow
    <3>2. (s.y + 1) * COLS = s.y * COLS + COLS /\ s.y * COLS \in Int
      BY <3>1, NextRow
    <3> QED
      BY <3>1, <3>2
  <2>3. Well([s EXCEPT !.y = ny, !.pos = np])
    BY <2>1, <2>2, LineMoved
  <2>4. Lf(s) = [s EXCEPT !.y = ny, !.pos = np]
    BY <1>1 DEF Lf
  <2>5. [s EXCEPT !.y = ny, !.pos = np].x = s.x
    BY DEF Well, Record
  <2> QED
    BY <2>3, <2>4, <2>5
<1>2. CASE ~(s.y + 1 < s.bottom)
  BY <1>2, ScrupWell, ScrupColumn DEF Lf
<1> QED
  BY <1>1, <1>2

LEMMA RiWell == ASSUME NEW s, Well(s) PROVE Well(Ri(s))
<1>1. CASE s.y > s.top
  <2> PICK ny, np : ny = s.y - 1 /\ np = s.pos - COLS
    OBVIOUS
  <2>0. /\ s.y \in 0 .. LINES - 1 /\ s.top \in 0 .. LINES - 1 /\ s.bottom \in 1 .. LINES
        /\ LINES \in Nat
    BY Sizes DEF Well, Record
  <2>1. ny \in 0 .. LINES - 1
    BY <1>1, <2>0
  <2>2. np = s.pos - s.y * COLS + ny * COLS
    <3>1. s.y \in Int /\ s.pos \in Int /\ COLS \in Int
      BY <2>0, InWindow
    <3>2. (s.y - 1) * COLS = s.y * COLS - COLS /\ s.y * COLS \in Int
      BY <3>1, NextRow
    <3> QED
      BY <3>1, <3>2
  <2>3. Well([s EXCEPT !.y = ny, !.pos = np])
    BY <2>1, <2>2, LineMoved
  <2> QED
    BY <1>1, <2>3 DEF Ri
<1>2. CASE ~(s.y > s.top)
  BY <1>2, ScrdownWell DEF Ri
<1> QED
  BY <1>1, <1>2

LEMMA CrWell == ASSUME NEW s, Well(s) PROVE Well(Cr(s))
<1> PICK nx, np : nx = 0 /\ np = s.pos - s.x
  OBVIOUS
<1>1. nx \in 0 .. COLS /\ np = s.pos - s.x + nx
  BY InWindow
<1>2. Well([s EXCEPT !.x = nx, !.pos = np])
  BY <1>1, ColumnMoved
<1>3. Cr(s) = [s EXCEPT !.x = nx, !.pos = np]
  BY DEF Cr, Well, Record
<1> QED
  BY <1>2, <1>3

LEMMA BsWell == ASSUME NEW s, Well(s) PROVE Well(Bs(s))
<1> PICK nx, np : nx = s.x - 1 /\ np = s.pos - 1
  OBVIOUS
<1>1. CASE s.x # 0
  <2>1. nx \in 0 .. COLS /\ np = s.pos - s.x + nx
    BY <1>1, InWindow
  <2>2. Well([s EXCEPT !.x = nx, !.pos = np])
    BY <2>1, ColumnMoved
  <2> QED
    BY <1>1, <2>2 DEF Bs
<1> QED
  BY <1>1 DEF Bs

LEMMA DelWell == ASSUME NEW s, Well(s) PROVE Well(Del(s))
<1> PICK nx, np : nx = s.x - 1 /\ np = s.pos - 1
  OBVIOUS
<1>1. CASE s.x # 0
  <2>1. nx \in 0 .. COLS /\ np = s.pos - s.x + nx /\ np \in Video
    BY <1>1, InWindow, Sizes DEF Video
  <2>t. PICK t : t = [s EXCEPT !.x = nx, !.pos = np]
    OBVIOUS
  <2>2. Well(t)
    BY <2>1, <2>t, ColumnMoved
  <2>m. PICK m : m = [s.mem EXCEPT ![np] = Blank]
    OBVIOUS
  <2>3. VideoKept(m)
    BY <2>1, <2>m, CellKept DEF Well
  <2>4. Del(s) = [t EXCEPT !.mem = m]
    BY <1>1, <2>t, <2>m DEF Del, Well, Record
  <2> QED
    BY <2>2, <2>3, <2>4, Changed
<1> QED
  BY <1>1 DEF Del

\* The cursor of x and pos, moved on to the next line.
LEMMA WrapWell ==
    ASSUME NEW s, Well(s), NEW d \in Int, s.x + d - COLS \in 0 .. COLS,
           NEW t, t = [s EXCEPT !.x = s.x + d, !.pos = s.pos + d]
    PROVE  Well(Wrap(t)) /\ Wrap(t).x = s.x + d - COLS
<1> PICK nx, np : nx = s.x + d - COLS /\ np = s.pos + d - COLS
  OBVIOUS
<1>1. np = s.pos - s.x + nx /\ nx \in 0 .. COLS
  BY InWindow, Sizes
<1>2. Well([s EXCEPT !.x = nx, !.pos = np])
  BY <1>1, ColumnMoved
<1>3. [t EXCEPT !.x = @ - COLS, !.pos = @ - COLS] = [s EXCEPT !.x = nx, !.pos = np]
  <2>1. t.x = s.x + d /\ t.pos = s.pos + d
    BY DEF Well, Record
  <2>2. t.x - COLS = nx /\ t.pos - COLS = np
    BY <2>1, InWindow, Sizes
  <2>3. [t EXCEPT !.x = nx, !.pos = np] = [s EXCEPT !.x = nx, !.pos = np]
    BY DEF Well, Record
  <2> QED
    BY <2>2, <2>3
<1>4. [s EXCEPT !.x = nx, !.pos = np].x = nx
  BY DEF Well, Record
<1>5. Well(Wrap(t)) /\ Wrap(t).x = nx
  BY <1>2, <1>3, <1>4, LfWell DEF Wrap
<1> QED
  BY <1>5

LEMMA PutWell == ASSUME NEW s, Well(s) PROVE Well(Put(s))
<1>t. PICK t : t = IF s.x >= COLS THEN Wrap(s) ELSE s
  OBVIOUS
<1>1. Well(t) /\ t.x < COLS
  <2>1. CASE s.x >= COLS
    <3>1. s.x + 0 - COLS = 0 /\ 0 \in 0 .. COLS /\ s.x + 0 = s.x /\ s.pos + 0 = s.pos
      BY <2>1, InWindow
    <3>2. s = [s EXCEPT !.x = s.x + 0, !.pos = s.pos + 0]
      BY <3>1 DEF Well, Record
    <3>3. 0 \in Int /\ 0 < COLS
      BY Sizes
    <3>4. Well(Wrap(s)) /\ Wrap(s).x = 0
      BY <3>1, <3>2, <3>3, WrapWell
    <3> QED
      BY <1>t, <2>1, <3>3, <3>4
  <2>2. CASE ~(s.x >= COLS)
    BY <1>t, <2>2, InWindow
  <2> QED
    BY <2>1, <2>2
<1>m. PICK m : m = [t.mem EXCEPT ![t.pos] = Ink]
  OBVIOUS
<1> PICK nx, np : nx = t.x + 1 /\ np = t.pos + 1
  OBVIOUS
<1>2. t.pos \in Video /\ nx \in 0 .. COLS /\ np = t.pos - t.x + nx
  BY <1>1, InWindow, Sizes DEF Video
<1>3. VideoKept(m)
  BY <1>1, <1>2, <1>m, CellKept DEF Well
<1>u. PICK u : u = [t EXCEPT !.x = nx, !.pos = np]
  OBVIOUS
<1>4. Well(u)
  BY <1>1, <1>2, <1>u, ColumnMoved
<1>5. Put(s) = [t EXCEPT !.mem[t.pos] = Ink, !.pos = @ + 1, !.x = @ + 1]
  BY <1>t DEF Put
<1>6. Put(s) = [u EXCEPT !.mem = m]
  BY <1>1, <1>5, <1>m, <1>u DEF Well, Record
<1>7. Well([u EXCEPT !.mem = m])
  BY <1>3, <1>4, Changed
<1> QED
  BY <1>6, <1>7

LEMMA TabWell == ASSUME NEW s, Well(s) PROVE Well(Tab(s))
<1> PICK q : q = s.x % TabStop
  OBVIOUS
<1>1. s.x \in 0 .. COLS /\ TabStop \in 1 .. COLS /\ COLS \in Nat
  BY InWindow, Sizes
<1>2. q \in 0 .. TabStop - 1
  BY <1>1
<1> PICK n : n = TabStop - q
  OBVIOUS
<1>3. n \in 1 .. COLS
  BY <1>1, <1>2
<1>t. PICK t : t = [s EXCEPT !.x = s.x + n, !.pos = s.pos + n]
  OBVIOUS
<1>4. t.x = s.x + n
  BY <1>t DEF Well, Record
<1>5. Tab(s) = IF t.x > COLS THEN Wrap(t) ELSE t
  BY <1>t DEF Tab
<1>6. CASE t.x > COLS
  <2>1. s.x + n - COLS \in 0 .. COLS /\ n \in Int
    BY <1>1, <1>3, <1>4, <1>6
  <2>2. Well(Wrap(t))
    BY <1>t, <2>1, WrapWell
  <2> QED
    BY <1>5, <1>6, <2>2
<1>7. CASE ~(t.x > COLS)
  <2> PICK nx, np : nx = s.x + n /\ np = s.pos + n
    OBVIOUS
  <2>1. nx \in 0 .. COLS /\ np = s.pos - s.x + nx
    BY <1>1, <1>3, <1>4, <1>7, InWindow
  <2>2. Well([s EXCEPT !.x = nx, !.pos = np])
    BY <2>1, ColumnMoved
  <2> QED
    BY <1>t, <1>5, <1>7, <2>2
<1> QED
  BY <1>6, <1>7

----------------------------------------------------------------------------
\* Erasing, inserting and deleting.

LEMMA CsiJWell == ASSUME NEW s, Well(s), NEW p PROVE Well(CsiJ(s, p))
<1>0. VideoKept(s.mem)
  BY DEF Well
<1>1. VideoKept(Fill(s.mem, s.pos, s.scr_end - s.pos))
  <2>1. s.scr_end - s.pos \in Int /\ s.pos \in Int /\ s.pos >= 0 /\ s.pos + (s.scr_end - s.pos) <= MEM
    BY RowInWindow
  <2> QED
    BY <1>0, <2>1, FillKept
<1>2. VideoKept(Fill(s.mem, s.origin, s.pos - s.origin))
  <2>1. /\ s.pos - s.origin \in Int /\ s.origin \in Int /\ s.origin >= 0
        /\ s.origin + (s.pos - s.origin) <= MEM
    BY RowInWindow
  <2> QED
    BY <1>0, <2>1, FillKept
<1>3. VideoKept(Fill(s.mem, s.origin, COLS * LINES))
  <2>1. COLS * LINES = LINES * COLS
    BY Sizes
  <2> QED
    BY <1>0, <2>1, InWindow, FillKept
<1> QED
  BY <1>1, <1>2, <1>3, Changed DEF CsiJ

LEMMA CsiKWell == ASSUME NEW s, Well(s), NEW p PROVE Well(CsiK(s, p))
<1>0. VideoKept(s.mem)
  BY DEF Well
<1> PICK first, end, left : first = s.pos - s.x /\ end = first + COLS /\ left = COLS - s.x
  OBVIOUS
<1>1. /\ first \in Nat /\ end <= MEM /\ s.x \in Nat /\ s.pos \in Nat /\ COLS \in Nat
      /\ left \in Nat /\ s.pos + left <= MEM /\ first + s.x <= MEM /\ first + COLS <= MEM
  BY RowInWindow
<1>2. VideoKept(Fill(s.mem, s.pos, left))
  BY <1>0, <1>1, FillKept
<1>3. VideoKept(Fill(s.mem, first, s.x))
  BY <1>0, <1>1, FillKept
<1>4. VideoKept(Fill(s.mem, first, COLS))
  BY <1>0, <1>1, FillKept
<1> QED
  BY <1>2, <1>3, <1>4, Changed DEF CsiK

\* A region is set.
LEMMA RegionWell ==
    ASSUME NEW s, Well(s), NEW t \in 0 .. LINES - 1, NEW b \in 1 .. LINES, t < b
    PROVE  Well([s EXCEPT !.top = t, !.bottom = b])
<1>u. PICK u : u = [s EXCEPT !.top = t, !.bottom = b]
  OBVIOUS
<1>1. u \in Record /\ u.top = t /\ u.bottom = b
  BY <1>u DEF Well, Record
<1>2. /\ u.x = s.x /\ u.y = s.y /\ u.pos = s.pos /\ u.origin = s.origin /\ u.scr_end = s.scr_end
      /\ u.mem = s.mem
  BY <1>u DEF Well, Record
<1>3. Well(u)
  BY <1>1, <1>2 DEF Well, Placed
<1> QED
  BY <1>u, <1>3

LEMMA LinesBelowWell ==
    ASSUME NEW s, Well(s)
    PROVE  /\ Well(DeleteLine(s))
           /\ Well(InsertLine(s))
<1>0. /\ s.y \in 0 .. LINES - 1 /\ LINES \in 1 .. LINES /\ s.y < LINES
      /\ s.top \in 0 .. LINES - 1 /\ s.bottom \in 1 .. LINES /\ s.top < s.bottom
  BY Sizes DEF Well, Record
<1>b. PICK b : b = [s EXCEPT !.top = s.y, !.bottom = LINES]
  OBVIOUS
<1>1. Well(b)
  BY <1>0, <1>b, RegionWell
<1>2. Well([Scrup(b) EXCEPT !.top = s.top, !.bottom = s.bottom])
  BY <1>0, <1>1, ScrupWell, RegionWell
<1>3. Well([Scrdown(b) EXCEPT !.top = s.top, !.bottom = s.bottom])
  BY <1>0, <1>1, ScrdownWell, RegionWell
<1> QED
  BY <1>b, <1>2, <1>3 DEF DeleteLine, InsertLine, OnLinesBelow

LEMMA CharsWell ==
    ASSUME NEW s, Well(s)
    PROVE  /\ Well(DeleteChar(s))
           /\ Well(InsertChar(s))
<1>0. VideoKept(s.mem)
  BY DEF Well
<1>1. CASE s.x >= COLS
  BY <1>1 DEF DeleteChar, InsertChar
<1>2. CASE ~(s.x >= COLS)
  <2>n. PICK n : n = COLS - s.x - 1
    OBVIOUS
  <2>1. /\ n \in Nat /\ s.pos \in Nat /\ s.pos + 1 + n <= MEM
    BY <1>2, <2>n, RowInWindow
  <2>2. VideoKept(Copy(s.mem, s.pos, s.pos + 1, n)) /\ VideoKept(Copy(s.mem, s.pos + 1, s.pos, n))
    BY <1>0, <2>1, CopyKept, Sizes
  <2>3. /\ VideoKept(Fill(Copy(s.mem, s.pos, s.pos + 1, n), s.pos + n, 1))
        /\ VideoKept(Fill(Copy(s.mem, s.pos + 1, s.pos, n), s.pos, 1))
    BY <2>1, <2>2, FillKept, Sizes
  <2>4. /\ DeleteChar(s) = [s EXCEPT !.mem = Fill(Copy(s.mem, s.pos, s.pos + 1, n), s.pos + n, 1)]
        /\ InsertChar(s) = [s EXCEPT !.mem = Fill(Copy(s.mem, s.pos + 1, s.pos, n), s.pos, 1)]
    BY <1>2, <2>n DEF DeleteChar, InsertChar
  <2> QED
    BY <2>3, <2>4, Changed
<1> QED
  BY <1>1, <1>2

\* A step taken again and again: after each the records agree.
Repeated == {"L", "M", "P", "@"}

LEMMA MovedWell ==
    ASSUME NEW s, Well(s), NEW c \in Repeated
    PROVE  Well(Moved(c, s))
BY LinesBelowWell, CharsWell DEF Moved, Repeated

\* The values after each step exist.
StepsOf(g, k, c, s) == g = [i \in 0 .. k |-> IF i = 0 THEN s ELSE Moved(c, g[i - 1])]

LEMMA StepsExist ==
    ASSUME NEW s, NEW c, NEW n \in Nat
    PROVE  \E g : StepsOf(g, n, c, s)
<1> DEFINE Fails == {k \in Nat : ~\E g : StepsOf(g, k, c, s)}
<1> SUFFICES ASSUME Fails # {} PROVE FALSE
  OBVIOUS
<1>1. PICK k \in Fails : \A j \in Fails : k <= j
  <2>1. Fails \in SUBSET Nat
    OBVIOUS
  <2> HIDE DEF Fails
  <2> QED
    BY <2>1, LeastNumber
<1>2. CASE k = 0
  <2>g. PICK g : g = [i \in 0 .. 0 |-> s]
    OBVIOUS
  <2>1. g = [i \in 0 .. 0 |-> IF i = 0 THEN s ELSE Moved(c, g[i - 1])]
    BY <2>g
  <2> QED
    BY <1>1, <1>2, <2>1 DEF StepsOf
<1>3. CASE k # 0
  <2>1. k \in Nat /\ k - 1 \in Nat /\ k - 1 \notin Fails
    BY <1>1, <1>3
  <2>2. PICK g : StepsOf(g, k - 1, c, s)
    BY <2>1
  <2>h. PICK h : h = [i \in 0 .. k |-> IF i <= k - 1 THEN g[i] ELSE Moved(c, g[k - 1])]
    OBVIOUS
  <2>3. ASSUME NEW i \in 0 .. k PROVE h[i] = IF i = 0 THEN s ELSE Moved(c, h[i - 1])
    <3>1. CASE i = 0
      BY <2>1, <2>2, <2>h, <3>1 DEF StepsOf
    <3>2. CASE i # 0 /\ i <= k - 1
      <4>1. i \in 0 .. k - 1 /\ i - 1 \in 0 .. k /\ i - 1 <= k - 1
        BY <2>1, <3>2
      <4>2. h[i] = g[i] /\ h[i - 1] = g[i - 1]
        BY <2>h, <3>2, <4>1
      <4>3. g[i] = Moved(c, g[i - 1])
        BY <2>2, <3>2, <4>1 DEF StepsOf
      <4> QED
        BY <3>2, <4>2, <4>3
    <3>3. CASE i = k
      <4>1. k \in 0 .. k /\ k - 1 \in 0 .. k /\ ~(k <= k - 1) /\ k - 1 <= k - 1
        BY <2>1
      <4> QED
        BY <1>3, <2>h, <3>3, <4>1
    <3> QED
      BY <2>1, <3>1, <3>2, <3>3
  <2>4. h = [i \in 0 .. k |-> h[i]]
    BY <2>h
  <2>5. StepsOf(h, k, c, s)
    BY <2>3, <2>4 DEF StepsOf
  <2> QED
    BY <1>1, <2>5
<1> QED
  BY <1>2, <1>3

LEMMA TimesWell ==
    ASSUME NEW s, Well(s), NEW c \in Repeated, NEW n \in Nat
    PROVE  Well(Times(n, c, s))
<1>g. PICK g : g = CHOOSE h : h = [i \in 0 .. n |-> IF i = 0 THEN s ELSE Moved(c, h[i - 1])]
  OBVIOUS
<1>1. Times(n, c, s) = g[n]
  BY <1>g DEF Times
<1>2. g = [i \in 0 .. n |-> IF i = 0 THEN s ELSE Moved(c, g[i - 1])]
  <2>1. \E h : h = [i \in 0 .. n |-> IF i = 0 THEN s ELSE Moved(c, h[i - 1])]
    <3>1. PICK h : StepsOf(h, n, c, s)
      BY StepsExist
    <3> QED
      BY <3>1, Zenon DEF StepsOf
  <2> QED
    BY <1>g, <2>1, Zenon
<1> DEFINE Bad == {i \in 0 .. n : ~Well(g[i])}
<1>3. Bad = {}
  <2> SUFFICES ASSUME Bad # {} PROVE FALSE
    OBVIOUS
  <2>1. PICK i \in Bad : \A j \in Bad : i <= j
    <3>1. Bad \in SUBSET Nat
      OBVIOUS
    <3> HIDE DEF Bad
    <3> QED
      BY <3>1, LeastNumber
  <2>2. i # 0
    BY <1>2, <2>1
  <2>3. i - 1 \in 0 .. n /\ i - 1 \notin Bad
    BY <2>1, <2>2
  <2>4. Well(g[i - 1]) /\ g[i] = Moved(c, g[i - 1])
    BY <1>2, <2>1, <2>2, <2>3
  <2> QED
    BY <2>1, <2>4, MovedWell
<1> QED
  BY <1>1, <1>3

----------------------------------------------------------------------------
\* Escape sequences.

\* A step that changes neither cursor nor screen.
Beside(s, u) ==
    /\ u.x = s.x /\ u.y = s.y /\ u.pos = s.pos /\ u.origin = s.origin /\ u.scr_end = s.scr_end
    /\ u.mem = s.mem /\ u.top = s.top /\ u.bottom = s.bottom

LEMMA BesideWell ==
    ASSUME NEW s, Well(s), NEW u \in Record, Beside(s, u)
    PROVE  Well(u)
BY DEF Well, Placed, Beside

LEMMA StateWell ==
    ASSUME NEW s, Well(s), NEW st \in Modes
    PROVE  Well([s EXCEPT !.state = st])
<1>u. PICK u : u = [s EXCEPT !.state = st]
  OBVIOUS
<1>1. u \in Record /\ Beside(s, u)
  BY <1>u DEF Well, Record, Beside
<1> QED
  BY <1>u, <1>1, BesideWell

LEMMA NoParType == NoPar \in [0 .. NPAR - 1 -> 0 .. Word - 1]
BY Sizes DEF NoPar

LEMMA SaveWell == ASSUME NEW s, Well(s) PROVE Well(Save(s))
<1>u. PICK u : u = [s EXCEPT !.saved = [x |-> s.x, y |-> s.y]]
  OBVIOUS
<1>1. u \in Record /\ Beside(s, u)
  BY <1>u DEF Well, Record, Beside
<1>2. Well(u)
  BY <1>1, BesideWell
<1> QED
  BY <1>u, <1>2 DEF Save

LEMMA RestoreWell == ASSUME NEW s, Well(s) PROVE Well(Restore(s))
<1>1. s.saved \in [x : 0 .. COLS, y : 0 .. LINES - 1]
  BY DEF Well, Record
<1>2. s.saved.x \in 0 .. COLS /\ s.saved.y \in 0 .. LINES - 1
  BY <1>1
<1>3. s.saved.x \in Int /\ s.saved.y \in Int
  BY <1>2, Sizes
<1> QED
  BY <1>3, GotoxyWell DEF Restore

LEMMA SetRegionWell ==
    ASSUME NEW s, Well(s), NEW p \in 0 .. Word - 1, NEW q \in 0 .. Word - 1
    PROVE  Well(SetRegion(s, p, q))
<1> PICK t, b : t = FromOne(p) /\ b = IF q = 0 THEN LINES ELSE q
  OBVIOUS
<1>1. t \in Nat /\ b \in Nat /\ b >= 1
  BY Sizes DEF FromOne
<1>2. CASE t < b /\ b <= LINES
  <2>1. t \in 0 .. LINES - 1 /\ b \in 1 .. LINES
    BY <1>1, <1>2, Sizes
  <2> QED
    BY <1>2, <2>1, RegionWell DEF SetRegion
<1>3. CASE ~(t < b /\ b <= LINES)
  BY <1>3 DEF SetRegion
<1> QED
  BY <1>2, <1>3

\* Whatever the parameters are.
LEMMA GotParsWell == ASSUME NEW r, Well(r), NEW c PROVE Well(GotPars(r, c))
<1>p. PICK p, q : p = r.par[0] /\ q = r.par[1]
  OBVIOUS
<1>1. p \in 0 .. Word - 1 /\ q \in 0 .. Word - 1
  <2>1. 0 \in 0 .. NPAR - 1 /\ 1 \in 0 .. NPAR - 1
    BY Sizes
  <2> QED
    BY <1>p, <2>1 DEF Well, Record
<1>s. PICK s : s = [r EXCEPT !.state = "normal", !.npar = 0, !.par = NoPar, !.ques = FALSE]
  OBVIOUS
<1>2. Well(s)
  <2>1. 0 \in 0 .. NPAR - 1 /\ "normal" \in Modes
    BY Sizes DEF Modes
  <2>2. s \in Record /\ Beside(r, s)
    BY <1>s, <2>1, NoParType DEF Well, Record, Beside
  <2> QED
    BY <2>2, BesideWell
<1>3. s.x \in Int /\ s.y \in Int
  BY <1>2, Sizes DEF Well, Record
<1>n. PICK n : n = AtLeastOne(p)
  OBVIOUS
<1>4. n \in Int /\ FromOne(p) \in Int /\ FromOne(q) \in Int /\ OneOffNone(p) \in Int
  BY <1>1, <1>n, Sizes DEF AtLeastOne, FromOne, OneOffNone
<1>5. /\ Well(Gotoxy(s, FromOne(p), s.y)) /\ Well(Gotoxy(s, s.x, OneOffNone(p)))
      /\ Well(Gotoxy(s, FromOne(q), FromOne(p)))
  BY <1>2, <1>3, <1>4, GotoxyWell
<1>6. /\ Well(Gotoxy(s, s.x, s.y - n)) /\ Well(Gotoxy(s, s.x, s.y + n))
      /\ Well(Gotoxy(s, s.x + n, s.y)) /\ Well(Gotoxy(s, s.x - n, s.y))
  <2>1. s.y - n \in Int /\ s.y + n \in Int /\ s.x + n \in Int /\ s.x - n \in Int
    BY <1>3, <1>4
  <2> QED
    BY <1>2, <1>3, <2>1, GotoxyWell
<1>7. Well(Gotoxy(s, 0, s.y + n)) /\ Well(Gotoxy(s, 0, s.y - n))
  <2>1. s.y - n \in Int /\ s.y + n \in Int /\ 0 \in Int
    BY <1>3, <1>4
  <2> QED
    BY <1>2, <2>1, GotoxyWell
<1>8. Well(CsiJ(s, p)) /\ Well(CsiK(s, p)) /\ Well(Save(s)) /\ Well(Restore(s))
  BY <1>2, CsiJWell, CsiKWell, SaveWell, RestoreWell
<1>9. c \in {"L", "M"} => Well(Times(Clipped(p, LINES), c, s))
  <2>1. Clipped(p, LINES) \in Nat
    BY <1>1, Sizes DEF Clipped
  <2> QED
    BY <1>2, <2>1, TimesWell DEF Repeated
<1>10. c \in {"P", "@"} => Well(Times(Clipped(p, COLS), c, s))
  <2>1. Clipped(p, COLS) \in Nat
    BY <1>1, Sizes DEF Clipped
  <2> QED
    BY <1>2, <2>1, TimesWell DEF Repeated
<1>11. Well(SetRegion(s, p, q))
  BY <1>1, <1>2, SetRegionWell
<1> DEFINE G == CASE r.ques  -> s
                  [] c = "G" -> Gotoxy(s, FromOne(p), s.y)
                  [] c = "A" -> Gotoxy(s, s.x, s.y - n)
                  [] c = "B" -> Gotoxy(s, s.x, s.y + n)
                  [] c = "C" -> Gotoxy(s, s.x + n, s.y)
                  [] c = "D" -> Gotoxy(s, s.x - n, s.y)
                  [] c = "E" -> Gotoxy(s, 0, s.y + n)
                  [] c = "F" -> Gotoxy(s, 0, s.y - n)
                  [] c = "d" -> Gotoxy(s, s.x, OneOffNone(p))
                  [] c = "H" -> Gotoxy(s, FromOne(q), FromOne(p))
                  [] c = "J" -> CsiJ(s, p)
                  [] c = "K" -> CsiK(s, p)
                  [] c \in {"L", "M"} -> Times(Clipped(p, LINES), c, s)
                  [] c \in {"P", "@"} -> Times(Clipped(p, COLS), c, s)
                  [] c = "r" -> SetRegion(s, p, q)
                  [] c = "s" -> Save(s)
                  [] c = "u" -> Restore(s)
                  [] OTHER   -> s
<1>12. Well(G)
  BY <1>2, <1>5, <1>6, <1>7, <1>8, <1>9, <1>10, <1>11
<1>13. GotPars(r, c) = G
  BY <1>p, <1>s, <1>n, Zenon DEF GotPars
<1> QED
  BY <1>12, <1>13

LEMMA DigitNumber == ASSUME NEW c \in DOMAIN Digit PROVE Digit[c] \in Int
<1>1. DOMAIN Digit = {"0", "1", "2", "3", "9"}
  BY DEF Digit
<1>2. /\ Digit["0"] = 0 /\ Digit["1"] = 1 /\ Digit["2"] = 2 /\ Digit["3"] = 3
      /\ Digit["9"] = 9
  BY DEF Digit
<1> QED
  BY <1>1, <1>2

LEMMA GetParsWell == ASSUME NEW s, Well(s), NEW c PROVE Well(GetPars(s, c))
<1>0. /\ s.npar \in 0 .. NPAR - 1 /\ s.par \in [0 .. NPAR - 1 -> 0 .. Word - 1]
  BY DEF Well, Record
<1>1. CASE c = ";" /\ s.npar < NPAR - 1
  <2>u. PICK u : u = [s EXCEPT !.npar = s.npar + 1]
    OBVIOUS
  <2>1. s.npar + 1 \in 0 .. NPAR - 1
    <3>1. s.npar < NPAR - 1 /\ NPAR \in Nat
      BY <1>1, Sizes
    <3> QED
      BY <1>0, <3>1
  <2>2. u \in Record /\ Beside(s, u)
    BY <2>u, <2>1 DEF Well, Record, Beside
  <2>3. Well(u)
    BY <2>2, BesideWell
  <2> QED
    BY <1>1, <2>u, <2>3 DEF GetPars
<1>2. CASE ~(c = ";" /\ s.npar < NPAR - 1) /\ c \in DOMAIN Digit
  <2>1. Digit[c] \in Int
    BY <1>2, DigitNumber
  <2>v. PICK v : v = (10 * s.par[s.npar] + Digit[c]) % Word
    OBVIOUS
  <2>2. v \in 0 .. Word - 1
    <3>1. s.par[s.npar] \in 0 .. Word - 1
      BY <1>0
    <3>2. 10 * s.par[s.npar] + Digit[c] \in Int
      BY <2>1, <3>1, Sizes
    <3> QED
      BY <2>v, <3>2, Sizes
  <2>p. PICK p : p = [s.par EXCEPT ![s.npar] = v]
    OBVIOUS
  <2>3. p \in [0 .. NPAR - 1 -> 0 .. Word - 1]
    BY <1>0, <2>2, <2>p
  <2>u. PICK u : u = [s EXCEPT !.par = p]
    OBVIOUS
  <2>4. u \in Record /\ Beside(s, u)
    BY <2>u, <2>3 DEF Well, Record, Beside
  <2>5. Well(u)
    BY <2>4, BesideWell
  <2>6. GetPars(s, c) = u
    BY <1>2, <2>v, <2>p, <2>u DEF GetPars
  <2> QED
    BY <2>5, <2>6
<1>3. CASE ~(c = ";" /\ s.npar < NPAR - 1) /\ c \notin DOMAIN Digit
  BY <1>3, GotParsWell DEF GetPars
<1> QED
  BY <1>1, <1>2, <1>3

LEMMA NormalWell == ASSUME NEW s, Well(s), NEW c PROVE Well(Normal(s, c))
<1>1. Well([s EXCEPT !.state = "esc"])
  BY StateWell DEF Modes
<1> QED
  BY <1>1, LfWell, CrWell, DelWell, BsWell, TabWell, PutWell DEF Normal

LEMMA EscapeWell == ASSUME NEW s, Well(s), NEW c PROVE Well(Escape(s, c))
<1>t. PICK t : t = [s EXCEPT !.state = "normal"]
  OBVIOUS
<1>1. Well(t)
  BY <1>t, StateWell DEF Modes
<1>2. /\ Well([t EXCEPT !.state = "square"]) /\ Well([t EXCEPT !.state = "setterm"])
      /\ Well([t EXCEPT !.state = "deaf"])
  BY <1>1, StateWell DEF Modes
<1>3. Well(Gotoxy(t, 0, t.y + 1))
  <2>0. t.y \in 0 .. LINES - 1 /\ LINES \in Nat
    BY <1>1, Sizes DEF Well, Record
  <2>1. t.y + 1 \in Int /\ 0 \in Int
    BY <2>0
  <2> QED
    BY <1>1, <2>1, GotoxyWell
<1>4. Well(Ri(t)) /\ Well(Lf(t)) /\ Well(Save(t)) /\ Well(Restore(t))
  BY <1>1, RiWell, LfWell, SaveWell, RestoreWell
<1>5. Well([t EXCEPT !.top = 0, !.bottom = LINES])
  <2>1. 0 \in 0 .. LINES - 1 /\ LINES \in 1 .. LINES /\ 0 < LINES
    BY Sizes
  <2> QED
    BY <1>1, <2>1, RegionWell
<1> DEFINE E == CASE c = "[" -> [t EXCEPT !.state = "square"]
                  [] c = "E" -> Gotoxy(t, 0, t.y + 1)
                  [] c = "M" -> Ri(t)
                  [] c = "D" -> Lf(t)
                  [] c = "7" -> Save(t)
                  [] c = "8" -> Restore(t)
                  [] c = "P" -> [t EXCEPT !.state = "setterm"]
                  [] c = "c" -> [t EXCEPT !.top = 0, !.bottom = LINES]
                  [] c \in {"(", "#"} -> [t EXCEPT !.state = "deaf"]
                  [] OTHER -> t
<1>6. Well(E)
  BY <1>1, <1>2, <1>3, <1>4, <1>5
<1>7. Escape(s, c) = E
  BY <1>t, Zenon DEF Escape
<1> QED
  BY <1>6, <1>7

LEMMA SquareWell == ASSUME NEW s, Well(s), NEW c PROVE Well(Square(s, c))
<1>t. PICK t : t = [s EXCEPT !.npar = 0, !.par = NoPar, !.state = "getpars", !.ques = (c = "?")]
  OBVIOUS
<1>1. Well(t)
  <2>1. 0 \in 0 .. NPAR - 1 /\ "getpars" \in Modes /\ (c = "?") \in BOOLEAN
    BY Sizes DEF Modes
  <2>2. t \in Record /\ Beside(s, t)
    BY <1>t, <2>1, NoParType DEF Well, Record, Beside
  <2> QED
    BY <2>2, BesideWell
<1>u. PICK u : u = [t EXCEPT !.state = "deaf", !.ques = s.ques]
  OBVIOUS
<1>2. Well(u)
  <2>1. "deaf" \in Modes /\ s.ques \in BOOLEAN
    BY DEF Modes, Well, Record
  <2>2. u \in Record /\ Beside(t, u)
    BY <1>1, <1>u, <2>1 DEF Well, Record, Beside
  <2> QED
    BY <1>1, <2>2, BesideWell
<1>3. Square(s, c) = IF c = "[" THEN u ELSE IF c = "?" THEN t ELSE GetPars(t, c)
  BY <1>t, <1>u, Zenon DEF Square
<1> QED
  BY <1>1, <1>2, <1>3, GetParsWell

\* One character, whatever came before it.
LEMMA WrittenWell == ASSUME NEW s, Well(s), NEW c PROVE Well(Written(s, c))
<1>1. s.state \in Modes
  BY DEF Well, Record
<1>2. Well([s EXCEPT !.state = "normal"])
  BY StateWell DEF Modes
<1>3. /\ Well(Normal(s, c)) /\ Well(Escape(s, c)) /\ Well(Square(s, c)) /\ Well(GetPars(s, c))
  BY NormalWell, EscapeWell, SquareWell, GetParsWell
<1> QED
  BY <1>1, <1>2, <1>3 DEF Written, Modes

----------------------------------------------------------------------------
\* con_init's screen fits the invariant.
LEMMA InitWell == Init => Inv
<1> SUFFICES ASSUME Init PROVE Inv
  OBVIOUS
<1>1. /\ x \in 0 .. COLS - 1 /\ y \in 0 .. LINES - 1 /\ pos = y * COLS + x
      /\ origin = 0 /\ scr_end = LINES * COLS
      /\ top = 0 /\ bottom = LINES
      /\ mem = [a \in Address |-> IF a \in Video THEN Blank ELSE Beyond]
      /\ state = "normal" /\ npar = 0 /\ par = NoPar /\ ques = FALSE
      /\ saved = [x |-> 0, y |-> 0]
  BY DEF Init
<1>2. x \in 0 .. COLS /\ y * COLS \in Int /\ y * COLS + x \in Int /\ LINES * COLS \in Int
  BY <1>1, Sizes
<1>3. /\ 0 \in 0 .. LINES - 1 /\ LINES \in 1 .. LINES /\ 0 < LINES /\ 0 \in 0 .. NPAR - 1
      /\ 0 \in 0 .. COLS /\ "normal" \in Modes
  BY Sizes DEF Modes
<1>4. VideoKept(mem)
  BY <1>1, Sizes DEF VideoKept, Contents
<1>5. mem \in [Address -> Contents] /\ saved \in [x : 0 .. COLS, y : 0 .. LINES - 1]
  BY <1>1, <1>3, <1>4 DEF VideoKept
<1>6. Here \in Record
  <2>1. /\ x \in 0 .. COLS /\ y \in 0 .. LINES - 1 /\ pos \in Int /\ origin \in Int
        /\ scr_end \in Int /\ top \in 0 .. LINES - 1 /\ bottom \in 1 .. LINES
    BY <1>1, <1>2, <1>3
  <2>2. /\ state \in Modes /\ npar \in 0 .. NPAR - 1 /\ par \in [0 .. NPAR - 1 -> 0 .. Word - 1]
        /\ ques \in BOOLEAN
    BY <1>1, <1>3, NoParType
  <2> QED
    BY <1>5, <2>1, <2>2 DEF Here, Record
<1>7. Placed(Here)
  BY <1>1, <1>2, Sizes DEF Here, Placed
<1> QED
  BY <1>1, <1>3, <1>4, <1>6, <1>7 DEF Inv, Well, Here

LEMMA StepWell == Inv /\ [Next]_vars => Inv'
<1> SUFFICES ASSUME Inv, [Next]_vars PROVE Inv'
  OBVIOUS
<1>1. ASSUME NEW c \in Char, NEW last \in BOOLEAN, ConWrite(c, last) PROVE Inv'
  <2>s. PICK s : s = Written(Here, c)
    OBVIOUS
  <2>1. Well(s)
    BY <2>s, WrittenWell DEF Inv
  <2>t. PICK t : t = IF last THEN Gotoxy(s, s.x, s.y) ELSE s
    OBVIOUS
  <2>2. Well(t)
    <3>1. s.x \in Int /\ s.y \in Int
      BY <2>1, Sizes DEF Well, Record
    <3>2. Well(Gotoxy(s, s.x, s.y))
      BY <2>1, <3>1, GotoxyWell
    <3> QED
      BY <2>1, <2>t, <3>2
  <2>3. Becomes(t)
    BY <1>1, <2>s, <2>t DEF ConWrite
  <2>4. Here' = [x |-> t.x, y |-> t.y, pos |-> t.pos, origin |-> t.origin, scr_end |-> t.scr_end,
                 top |-> t.top, bottom |-> t.bottom, mem |-> t.mem, state |-> t.state,
                 npar |-> t.npar, par |-> t.par, ques |-> t.ques, saved |-> t.saved]
    BY <2>3 DEF Becomes, Here
  <2>5. Here' = t
    BY <2>2, <2>4 DEF Well, Record
  <2> QED
    BY <2>2, <2>5 DEF Inv
<1>2. ASSUME UNCHANGED vars PROVE Inv'
  BY <1>2 DEF vars, Inv, Here
<1> QED
  BY <1>1, <1>2 DEF Next

\* The inductive invariant: after any sequence of characters the records of
\* cursor and window agree, and only video memory was written (con_write,
\* console.c:434-643).
THEOREM ConsoleInvariant == Spec => []Inv
BY InitWell, StepWell, PTL DEF Spec

\* Whatever is written, in whatever sequences with whatever parameters, the cursor
\* is on the screen, its address is that of its place, the window lies in the video
\* memory, and nothing beyond that is written or brought onto the screen.
THEOREM WithinScreenTheorem == Spec => []WithinScreen
<1>1. ASSUME Inv PROVE WithinScreen
  <2>1. /\ x \in 0 .. COLS /\ y \in 0 .. LINES - 1
        /\ origin \in Int /\ scr_end \in Int
        /\ top \in 0 .. LINES - 1 /\ bottom \in 1 .. LINES /\ top < bottom
        /\ mem \in [Address -> Contents]
        /\ state \in Modes
        /\ npar \in 0 .. NPAR - 1 /\ par \in [0 .. NPAR - 1 -> 0 .. Word - 1] /\ ques \in BOOLEAN
        /\ saved \in [x : 0 .. COLS, y : 0 .. LINES - 1]
    BY <1>1 DEF Inv, Well, Record, Here
  <2>2. PosAgrees /\ 0 <= origin /\ scr_end <= MEM
    BY <1>1 DEF Inv, Well, Placed, Here, PosAgrees
  <2>3. KeepsToVideo
    BY <1>1 DEF Inv, Well, VideoKept, Here, KeepsToVideo
  <2>4. origin \in 0 .. MEM /\ scr_end \in 0 .. MEM
    <3> PICK w : w = LINES * COLS
      OBVIOUS
    <3>1. scr_end = origin + w /\ w \in Nat /\ MEM \in Nat
      BY <2>2, Sizes DEF PosAgrees
    <3> QED
      BY <2>1, <2>2, <3>1
  <2> QED
    BY <2>1, <2>2, <2>3, <2>4 DEF WithinScreen, TypeOK, Contents, Modes
<1> QED
  BY ConsoleInvariant, <1>1, PTL

----------------------------------------------------------------------------
\* The screen.

Rows  == 0 .. LINES - 1
Cols  == 0 .. COLS - 1
Grids == [Rows -> [Cols -> Contents]]

\* What a window from o on shows of a memory.
View(m, o) == [r \in Rows |-> [c \in Cols |-> m[o + r * COLS + c]]]
ViewOf(s)  == View(s.mem, s.origin)

\* A place is behind the rows before its own, and before those behind it.
LEMMA PlaceInRow ==
    ASSUME NEW r \in Int, NEW q \in Int, NEW c \in Cols
    PROVE  /\ r * COLS \in Int /\ q * COLS \in Int
           /\ r * COLS + c < q * COLS <=> r < q
           /\ q * COLS <= r * COLS + c <=> q <= r
<1> PICK a, b : a = r * COLS /\ b = q * COLS
  OBVIOUS
<1>1. a \in Int /\ b \in Int /\ COLS \in Nat /\ c \in 0 .. COLS - 1
  BY Sizes DEF Cols
<1>2. CASE r < q
  <2>1. r + 1 \in Int /\ r + 1 <= q
    BY <1>2
  <2>2. (r + 1) * COLS <= b
    BY <2>1, RowsInOrder
  <2>3. (r + 1) * COLS = a + COLS
    BY NextRow
  <2> QED
    BY <1>1, <1>2, <2>2, <2>3
<1>3. CASE ~(r < q)
  <2>1. b <= a
    BY <1>3, RowsInOrder
  <2> QED
    BY <1>1, <1>3, <2>1
<1> QED
  BY <1>2, <1>3

\* No two places have one address.
LEMMA PlaceUnique ==
    ASSUME NEW r \in Rows, NEW c \in Cols, NEW q \in Rows, NEW d \in Cols,
           r * COLS + c = q * COLS + d
    PROVE  r = q /\ c = d
<1>1. r \in Int /\ q \in Int /\ c \in Int /\ d \in Int /\ COLS \in Int
  BY Sizes DEF Rows, Cols
<1>2. r * COLS \in Int /\ q * COLS \in Int
  BY <1>1
<1>3. q <= r
  <2>1. q * COLS <= q * COLS + d
    BY <1>2 DEF Cols
  <2> QED
    BY <1>1, <2>1, PlaceInRow
<1>4. r <= q
  <2>1. r * COLS <= r * COLS + c
    BY <1>2 DEF Cols
  <2>2. r * COLS <= q * COLS + d
    BY <2>1
  <2> QED
    BY <1>1, <2>2, PlaceInRow
<1>5. r = q
  BY <1>1, <1>3, <1>4
<1> QED
  BY <1>1, <1>2, <1>5

\* A window at o lies in the video memory, and so do its places.
Fits(o) == o \in Nat /\ o + LINES * COLS <= MEM

\* A window that fits has its cells in the video memory.
LEMMA PlaceInVideo ==
    ASSUME NEW o, Fits(o), NEW r \in Rows, NEW c \in Cols
    PROVE  /\ r * COLS \in Nat /\ r * COLS + COLS <= LINES * COLS
           /\ o + r * COLS + c \in Video /\ o + r * COLS + c \in Address
<1> PICK a, w : a = r * COLS /\ w = LINES * COLS
  OBVIOUS
<1>1. /\ r \in Int /\ r + 1 \in Int /\ 0 \in Int /\ LINES \in Int /\ 0 <= r /\ r + 1 <= LINES
      /\ c \in 0 .. COLS - 1 /\ COLS \in Nat /\ MEM \in Nat
  BY Sizes DEF Rows, Cols
<1>2. 0 * COLS <= a /\ (r + 1) * COLS <= w
  BY <1>1, RowsInOrder
<1>3. 0 * COLS = 0 /\ (r + 1) * COLS = a + COLS /\ a \in Int /\ w \in Int
  BY <1>1, NextRow
<1>4. o \in Nat /\ o + w <= MEM
  BY DEF Fits
<1> QED
  BY <1>1, <1>2, <1>3, <1>4 DEF Video, Address

\* Where a row of a window starts.
RowAt(o, r) == o + r * COLS

\* Rows are COLS cells apart.
LEMMA RowAtNext ==
    ASSUME NEW o \in Int, NEW r \in Int
    PROVE  /\ RowAt(o, r) \in Int
           /\ RowAt(o, r + 1) = RowAt(o, r) + COLS /\ RowAt(o, r - 1) = RowAt(o, r) - COLS
<1> PICK a : a = r * COLS
  OBVIOUS
<1>1. a \in Int /\ COLS \in Int /\ (r + 1) * COLS = a + COLS /\ (r - 1) * COLS = a - COLS
  BY NextRow, Sizes
<1> QED
  BY <1>1 DEF RowAt

\* Which cells a block of rows has.
LEMMA InRows ==
    ASSUME NEW o \in Int, NEW r \in Int, NEW c \in Cols, NEW q \in Int, NEW k \in Int
    PROVE  RowAt(o, r) + c \in RowAt(o, q) .. RowAt(o, k) - 1 <=> q <= r /\ r < k
<1> PICK x1, x2, x3 : x1 = r * COLS /\ x2 = q * COLS /\ x3 = k * COLS
  OBVIOUS
<1>1. x1 \in Int /\ x2 \in Int /\ x3 \in Int /\ c \in Int
  BY Sizes DEF Cols
<1>2. (x2 <= x1 + c <=> q <= r) /\ (x1 + c < x3 <=> r < k)
  BY PlaceInRow
<1> QED
  BY <1>1, <1>2 DEF RowAt

\* Two screens with the same cells are the same.
LEMMA SameCells ==
    ASSUME NEW g \in Grids, NEW h \in Grids,
           \A r \in Rows : \A c \in Cols : g[r][c] = h[r][c]
    PROVE  g = h
<1>1. ASSUME NEW r \in Rows PROVE g[r] = h[r]
  <2>1. g[r] \in [Cols -> Contents] /\ h[r] \in [Cols -> Contents]
    BY DEF Grids
  <2> QED
    BY <2>1
<1> QED
  BY <1>1 DEF Grids

\* The cells of a view.
LEMMA ViewCell ==
    ASSUME NEW m, NEW o, NEW r \in Rows, NEW c \in Cols
    PROVE  View(m, o)[r][c] = m[RowAt(o, r) + c]
BY DEF View, RowAt

LEMMA ViewType ==
    ASSUME NEW m \in [Address -> Contents], NEW o, Fits(o)
    PROVE  View(m, o) \in Grids
<1>1. ASSUME NEW r \in Rows, NEW c \in Cols PROVE m[o + r * COLS + c] \in Contents
  BY PlaceInVideo
<1> QED
  BY <1>1 DEF View, Grids

\* The view of a window in order.
LEMMA ViewOfType ==
    ASSUME NEW s, Well(s)
    PROVE  /\ ViewOf(s) \in Grids /\ s.mem \in [Address -> Contents]
           /\ Fits(s.origin)
<1>1. Fits(s.origin)
  BY InWindow DEF Fits
<1>2. s.mem \in [Address -> Contents]
  BY DEF Well, Record
<1> QED
  BY <1>1, <1>2, ViewType DEF ViewOf

----------------------------------------------------------------------------
\* Scrolls.

\* The cells of a screen whose lines were moved, and the screen of such cells.
LEMMA UpCells ==
    ASSUME NEW g \in Grids, NEW t \in Nat, NEW b \in Int, b <= LINES, NEW n \in Nat
    PROVE  /\ Shown!Up(g, t, b, n) \in Grids
           /\ \A r \in Rows : \A c \in Cols :
                /\ r < t \/ r >= b => Shown!Up(g, t, b, n)[r][c] = g[r][c]
                /\ r >= t /\ r + n < b => Shown!Up(g, t, b, n)[r][c] = g[r + n][c]
                /\ r >= t /\ r < b /\ r + n >= b => Shown!Up(g, t, b, n)[r][c] = Blank
<1>h. PICK h : h = Shown!Up(g, t, b, n)
  OBVIOUS
<1>1. h = [r \in Rows |-> IF r < t \/ r >= b THEN g[r]
                          ELSE IF r + n < b THEN g[r + n] ELSE Shown!BlankRow]
  BY <1>h DEF Shown!Up, Shown!Row, Rows
<1>2. Shown!BlankRow \in [Cols -> Contents] /\ \A c \in Cols : Shown!BlankRow[c] = Blank
  BY DEF Shown!BlankRow, Shown!Col, Cols, Contents
<1>3. ASSUME NEW r \in Rows, r >= t, r + n < b PROVE r + n \in Rows
  BY <1>3, Sizes DEF Rows
<1>4. \A r \in Rows : h[r] \in [Cols -> Contents]
  BY <1>1, <1>2, <1>3, Sizes DEF Grids, Rows
<1>5. h \in Grids
  BY <1>1, <1>4 DEF Grids
<1>6. ASSUME NEW r \in Rows, NEW c \in Cols
      PROVE  /\ r < t \/ r >= b => h[r][c] = g[r][c]
             /\ r >= t /\ r + n < b => h[r][c] = g[r + n][c]
             /\ r >= t /\ r < b /\ r + n >= b => h[r][c] = Blank
  BY <1>1, <1>2, Sizes DEF Rows
<1> QED
  BY <1>h, <1>5, <1>6

\* A screen with the cells of one whose lines were moved up is that one.
LEMMA IsUp ==
    ASSUME NEW g \in Grids, NEW h \in Grids, NEW t \in Nat, NEW b \in Int, b <= LINES,
           NEW n \in Nat,
           \A r \in Rows : \A c \in Cols :
                /\ r < t \/ r >= b => h[r][c] = g[r][c]
                /\ r >= t /\ r + n < b => h[r][c] = g[r + n][c]
                /\ r >= t /\ r < b /\ r + n >= b => h[r][c] = Blank
    PROVE  h = Shown!Up(g, t, b, n)
<1>k. PICK k : k = Shown!Up(g, t, b, n)
  OBVIOUS
<1>1. k \in Grids
  BY <1>k, UpCells
<1>2. ASSUME NEW r \in Rows, NEW c \in Cols PROVE h[r][c] = k[r][c]
  <2>0. r \in Int /\ n \in Int /\ t \in Int
    BY DEF Rows
  <2>1. /\ r < t \/ r >= b => k[r][c] = g[r][c]
        /\ r >= t /\ r + n < b => k[r][c] = g[r + n][c]
        /\ r >= t /\ r < b /\ r + n >= b => k[r][c] = Blank
    BY <1>k, UpCells
  <2>2. /\ r < t \/ r >= b => h[r][c] = g[r][c]
        /\ r >= t /\ r + n < b => h[r][c] = g[r + n][c]
        /\ r >= t /\ r < b /\ r + n >= b => h[r][c] = Blank
    OBVIOUS
  <2>3. CASE r < t \/ r >= b
    BY <2>1, <2>2, <2>3
  <2>4. CASE r >= t /\ r + n < b
    BY <2>1, <2>2, <2>4
  <2>5. CASE r >= t /\ r < b /\ r + n >= b
    BY <2>1, <2>2, <2>5
  <2> QED
    BY <2>0, <2>3, <2>4, <2>5
<1>3. h = k
  BY <1>1, <1>2, SameCells
<1> QED
  BY <1>k, <1>3

\* The same of lines that were moved down.
LEMMA DownCells ==
    ASSUME NEW g \in Grids, NEW t \in Nat, NEW b \in Int, b <= LINES, NEW n \in Nat
    PROVE  /\ Shown!Down(g, t, b, n) \in Grids
           /\ \A r \in Rows : \A c \in Cols :
                /\ r < t \/ r >= b => Shown!Down(g, t, b, n)[r][c] = g[r][c]
                /\ r >= t + n /\ r < b => Shown!Down(g, t, b, n)[r][c] = g[r - n][c]
                /\ r >= t /\ r < b /\ r < t + n => Shown!Down(g, t, b, n)[r][c] = Blank
<1>h. PICK h : h = Shown!Down(g, t, b, n)
  OBVIOUS
<1>1. h = [r \in Rows |-> IF r < t \/ r >= b THEN g[r]
                          ELSE IF r >= t + n THEN g[r - n] ELSE Shown!BlankRow]
  BY <1>h DEF Shown!Down, Shown!Row, Rows
<1>2. Shown!BlankRow \in [Cols -> Contents] /\ \A c \in Cols : Shown!BlankRow[c] = Blank
  BY DEF Shown!BlankRow, Shown!Col, Cols, Contents
<1>3. ASSUME NEW r \in Rows, r >= t + n, r < b PROVE r - n \in Rows
  BY <1>3, Sizes DEF Rows
<1>4. \A r \in Rows : h[r] \in [Cols -> Contents]
  BY <1>1, <1>2, <1>3, Sizes DEF Grids, Rows
<1>5. h \in Grids
  BY <1>1, <1>4 DEF Grids
<1>6. ASSUME NEW r \in Rows, NEW c \in Cols
      PROVE  /\ r < t \/ r >= b => h[r][c] = g[r][c]
             /\ r >= t + n /\ r < b => h[r][c] = g[r - n][c]
             /\ r >= t /\ r < b /\ r < t + n => h[r][c] = Blank
  BY <1>1, <1>2, Sizes DEF Rows
<1> QED
  BY <1>h, <1>5, <1>6

\* A screen with the cells of one whose lines were moved down is that one.
LEMMA IsDown ==
    ASSUME NEW g \in Grids, NEW h \in Grids, NEW t \in Nat, NEW b \in Int, b <= LINES,
           NEW n \in Nat,
           \A r \in Rows : \A c \in Cols :
                /\ r < t \/ r >= b => h[r][c] = g[r][c]
                /\ r >= t + n /\ r < b => h[r][c] = g[r - n][c]
                /\ r >= t /\ r < b /\ r < t + n => h[r][c] = Blank
    PROVE  h = Shown!Down(g, t, b, n)
<1>k. PICK k : k = Shown!Down(g, t, b, n)
  OBVIOUS
<1>1. k \in Grids
  BY <1>k, DownCells
<1>2. ASSUME NEW r \in Rows, NEW c \in Cols PROVE h[r][c] = k[r][c]
  <2>0. r \in Int /\ n \in Int /\ t \in Int
    BY DEF Rows
  <2>1. /\ r < t \/ r >= b => k[r][c] = g[r][c]
        /\ r >= t + n /\ r < b => k[r][c] = g[r - n][c]
        /\ r >= t /\ r < b /\ r < t + n => k[r][c] = Blank
    BY <1>k, DownCells
  <2>2. /\ r < t \/ r >= b => h[r][c] = g[r][c]
        /\ r >= t + n /\ r < b => h[r][c] = g[r - n][c]
        /\ r >= t /\ r < b /\ r < t + n => h[r][c] = Blank
    OBVIOUS
  <2>3. CASE r < t \/ r >= b
    BY <2>1, <2>2, <2>3
  <2>4. CASE r >= t + n /\ r < b
    BY <2>1, <2>2, <2>4
  <2>5. CASE r >= t /\ r < b /\ r < t + n
    BY <2>1, <2>2, <2>5
  <2> QED
    BY <2>0, <2>3, <2>4, <2>5
<1>3. h = k
  BY <1>1, <1>2, SameCells
<1> QED
  BY <1>k, <1>3

\* The region of a record in order.
LEMMA RegionSound ==
    ASSUME NEW s, Well(s)
    PROVE  s.top \in Nat /\ s.bottom \in Nat /\ s.bottom <= LINES /\ s.top < s.bottom
<1>1. s.top \in 0 .. LINES - 1 /\ s.bottom \in 1 .. LINES /\ s.top < s.bottom
  BY DEF Well, Record
<1> QED
  BY <1>1, Sizes

\* Which cells the rows of a region have, as a scroll of the region names them.
LEMMA RegionCells ==
    ASSUME NEW o \in Int, NEW p \in Int, NEW b \in Int, p < b, NEW r \in Int, NEW c \in Cols,
           NEW t, t = RowAt(o, p), NEW n \in Int, RowAt(o, b) = t + n + COLS
    PROVE  /\ RowAt(o, r) + c \in t .. t + COLS - 1 <=> r = p
           /\ RowAt(o, r) + c \in t + n .. t + n + COLS - 1 <=> r = b - 1
           /\ RowAt(o, r) + c \in t .. t + n - 1 <=> p <= r /\ r < b - 1
           /\ RowAt(o, r) + c \in t + COLS .. t + COLS + n - 1 <=> p + 1 <= r /\ r < b
           /\ RowAt(o, r) + c \in t .. t + n + COLS - 1 <=> p <= r /\ r < b
<1>p. PICK i, j, a : i = p + 1 /\ j = b - 1 /\ a = RowAt(o, r) + c
  OBVIOUS
<1>1. i \in Int /\ j \in Int
  BY <1>p
<1>2. /\ RowAt(o, i) = t + COLS /\ RowAt(o, j) = t + n /\ RowAt(o, b) = t + COLS + n
      /\ t \in Int /\ COLS \in Int
  <2>1. RowAt(o, i) = RowAt(o, p) + COLS /\ RowAt(o, p) \in Int
    BY <1>p, RowAtNext
  <2>2. RowAt(o, j) = RowAt(o, b) - COLS /\ RowAt(o, b) \in Int
    BY <1>p, RowAtNext
  <2> QED
    BY <2>1, <2>2, Sizes
<1>3. /\ a \in RowAt(o, p) .. RowAt(o, i) - 1 <=> p <= r /\ r < i
      /\ a \in RowAt(o, j) .. RowAt(o, b) - 1 <=> j <= r /\ r < b
      /\ a \in RowAt(o, p) .. RowAt(o, j) - 1 <=> p <= r /\ r < j
      /\ a \in RowAt(o, i) .. RowAt(o, b) - 1 <=> i <= r /\ r < b
      /\ a \in RowAt(o, p) .. RowAt(o, b) - 1 <=> p <= r /\ r < b
  BY <1>1, <1>p, InRows
<1>4. (p <= r /\ r < i <=> r = p) /\ (j <= r /\ r < b <=> r = b - 1)
  BY <1>p
<1> QED
  BY <1>2, <1>3, <1>4, <1>p

\* The neighbour of a cell in the next row.
LEMMA CellBelow ==
    ASSUME NEW o \in Int, NEW r \in Rows, NEW c \in Cols, NEW a \in Int, a = RowAt(o, r) + c
    PROVE  /\ a + COLS = RowAt(o, r + 1) + c
           /\ a - COLS = RowAt(o, r - 1) + c
<1>1. r \in Int /\ c \in Int /\ COLS \in Int
  BY Sizes DEF Rows, Cols
<1>2. /\ RowAt(o, r) \in Int
      /\ RowAt(o, r + 1) = RowAt(o, r) + COLS /\ RowAt(o, r - 1) = RowAt(o, r) - COLS
  BY <1>1, RowAtNext
<1> QED
  BY <1>1, <1>2

\* The size of a region.
LEMMA RegionEnd ==
    ASSUME NEW o \in Int, NEW p \in Int, NEW b \in Int, p < b, NEW n, n = (b - p - 1) * COLS
    PROVE  n \in Nat /\ RowAt(o, b) = RowAt(o, p) + n + COLS
<1>p. PICK x1, x2 : x1 = p * COLS /\ x2 = b * COLS
  OBVIOUS
<1>1. x1 \in Int /\ x2 \in Int /\ COLS \in Nat /\ b - p - 1 \in Int /\ 0 <= b - p - 1
  BY <1>p, Sizes
<1>3. n = x2 - x1 - COLS
  BY <1>p, <1>1
<1>4. n \in Nat
  <2>1. 0 * COLS <= (b - p - 1) * COLS /\ 0 * COLS = 0
    BY <1>1, RowsInOrder
  <2> QED
    BY <1>1, <1>3, <2>1
<1> QED
  BY <1>p, <1>1, <1>3, <1>4 DEF RowAt

\* A copy of a region's rows moves its lines.
LEMMA ViewUp ==
    ASSUME NEW m \in [Address -> Contents], NEW o, Fits(o),
           NEW p \in Nat, NEW b \in Nat, p < b, b <= LINES,
           NEW t, t = RowAt(o, p), NEW n \in Nat, RowAt(o, b) = t + n + COLS,
           NEW u \in [Address -> Contents], u = Fill(Copy(m, t, t + COLS, n), t + n, COLS)
    PROVE  View(u, o) = Shown!Up(View(m, o), p, b, 1)
<1>g. PICK g, h : g = View(m, o) /\ h = View(u, o)
  OBVIOUS
<1>0. o \in Int /\ t \in Int /\ COLS \in Nat
  BY RowAtNext, Sizes DEF Fits
<1>1. g \in Grids /\ h \in Grids
  BY <1>g, ViewType
<1>2. ASSUME NEW r \in Rows, NEW c \in Cols
      PROVE  /\ r < p \/ r >= b => h[r][c] = g[r][c]
             /\ r >= p /\ r + 1 < b => h[r][c] = g[r + 1][c]
             /\ r >= p /\ r < b /\ r + 1 >= b => h[r][c] = Blank
  <2>a. PICK a : a = RowAt(o, r) + c
    OBVIOUS
  <2>0. a \in Address /\ a \in Int /\ r \in Int
    <3>1. a \in Address
      BY <2>a, PlaceInVideo DEF RowAt
    <3> QED
      BY <3>1, Sizes DEF Rows, Address
  <2>1. h[r][c] = u[a] /\ g[r][c] = m[a]
    BY <1>g, <2>a, ViewCell
  <2>2. /\ a \in t + n .. t + n + COLS - 1 <=> r = b - 1
        /\ a \in t .. t + n - 1 <=> p <= r /\ r < b - 1
        /\ a \in t .. t + n + COLS - 1 <=> p <= r /\ r < b
    BY <1>0, <2>0, <2>a, RegionCells
  <2>3. /\ a \in t + n .. t + n + COLS - 1 => u[a] = Blank
        /\ a \in t .. t + n - 1 => u[a] = m[a + COLS]
        /\ a \notin t .. t + n + COLS - 1 => u[a] = m[a]
    <3>c. PICK d : d = Copy(m, t, t + COLS, n)
      OBVIOUS
    <3>1. d[a] = IF a \in t .. t + n - 1 THEN m[a - t + (t + COLS)] ELSE m[a]
      BY <2>0, <3>c DEF Copy
    <3>2. u[a] = IF a \in t + n .. t + n + COLS - 1 THEN Blank ELSE d[a]
      BY <2>0, <3>c DEF Fill
    <3>3. a - t + (t + COLS) = a + COLS
      BY <1>0, <2>0
    <3> QED
      BY <1>0, <2>0, <3>1, <3>2, <3>3
  <2>4. r + 1 < b => g[r + 1][c] = m[a + COLS]
    <3>1. a + COLS = RowAt(o, r + 1) + c
      BY <1>0, <2>0, <2>a, CellBelow
    <3>2. r + 1 < b => r + 1 \in Rows
      BY Sizes DEF Rows
    <3>3. r + 1 \in Rows => g[r + 1][c] = m[RowAt(o, r + 1) + c]
      BY <1>g, ViewCell
    <3> QED
      BY <3>1, <3>2, <3>3
  <2>5. r + 1 < b <=> r < b - 1
    BY <2>0
  <2>6. r >= p /\ r < b /\ r + 1 >= b => r = b - 1
    BY <2>0
  <2>7. r < p \/ r >= b => ~(p <= r /\ r < b)
    BY <2>0
  <2> QED
    BY <2>1, <2>2, <2>3, <2>4, <2>5, <2>6, <2>7
<1>3. h = Shown!Up(g, p, b, 1)
  BY <1>1, <1>2, IsUp
<1> QED
  BY <1>g, <1>3

LEMMA ViewDown ==
    ASSUME NEW m \in [Address -> Contents], NEW o, Fits(o),
           NEW p \in Nat, NEW b \in Nat, p < b, b <= LINES,
           NEW t, t = RowAt(o, p), NEW n \in Nat, RowAt(o, b) = t + n + COLS,
           NEW u \in [Address -> Contents], u = Fill(Copy(m, t + COLS, t, n), t, COLS)
    PROVE  View(u, o) = Shown!Down(View(m, o), p, b, 1)
<1>g. PICK g, h : g = View(m, o) /\ h = View(u, o)
  OBVIOUS
<1>0. o \in Int /\ t \in Int /\ COLS \in Nat
  BY RowAtNext, Sizes DEF Fits
<1>1. g \in Grids /\ h \in Grids
  BY <1>g, ViewType
<1>2. ASSUME NEW r \in Rows, NEW c \in Cols
      PROVE  /\ r < p \/ r >= b => h[r][c] = g[r][c]
             /\ r >= p + 1 /\ r < b => h[r][c] = g[r - 1][c]
             /\ r >= p /\ r < b /\ r < p + 1 => h[r][c] = Blank
  <2>a. PICK a : a = RowAt(o, r) + c
    OBVIOUS
  <2>0. a \in Address /\ a \in Int /\ r \in Int
    <3>1. a \in Address
      BY <2>a, PlaceInVideo DEF RowAt
    <3> QED
      BY <3>1, Sizes DEF Rows, Address
  <2>1. h[r][c] = u[a] /\ g[r][c] = m[a]
    BY <1>g, <2>a, ViewCell
  <2>2. /\ a \in t .. t + COLS - 1 <=> r = p
        /\ a \in t + COLS .. t + COLS + n - 1 <=> p + 1 <= r /\ r < b
        /\ a \in t .. t + n + COLS - 1 <=> p <= r /\ r < b
    BY <1>0, <2>0, <2>a, RegionCells
  <2>3. /\ a \in t .. t + COLS - 1 => u[a] = Blank
        /\ a \in t + COLS .. t + COLS + n - 1 => u[a] = m[a - COLS]
        /\ a \notin t .. t + COLS + n - 1 => u[a] = m[a]
    <3>c. PICK d : d = Copy(m, t + COLS, t, n)
      OBVIOUS
    <3>1. d[a] = IF a \in t + COLS .. t + COLS + n - 1 THEN m[a - (t + COLS) + t] ELSE m[a]
      BY <2>0, <3>c DEF Copy
    <3>2. u[a] = IF a \in t .. t + COLS - 1 THEN Blank ELSE d[a]
      BY <2>0, <3>c DEF Fill
    <3>3. a - (t + COLS) + t = a - COLS
      BY <1>0, <2>0
    <3> QED
      BY <1>0, <2>0, <3>1, <3>2, <3>3
  <2>4. r >= p + 1 => g[r - 1][c] = m[a - COLS]
    <3>1. a - COLS = RowAt(o, r - 1) + c
      BY <1>0, <2>0, <2>a, CellBelow
    <3>2. r >= p + 1 => r - 1 \in Rows
      BY Sizes DEF Rows
    <3>3. r - 1 \in Rows => g[r - 1][c] = m[RowAt(o, r - 1) + c]
      BY <1>g, ViewCell
    <3> QED
      BY <3>1, <3>2, <3>3
  <2>5. r >= p + 1 /\ r < b <=> p + 1 <= r /\ r < b
    BY <2>0
  <2>6. r >= p /\ r < b /\ r < p + 1 => r = p
    BY <2>0
  <2>7. r < p \/ r >= b => ~(p <= r /\ r < b)
    BY <2>0
  <2>8. t + COLS + n - 1 = t + n + COLS - 1
    BY <1>0
  <2> QED
    BY <2>1, <2>2, <2>3, <2>4, <2>5, <2>6, <2>7, <2>8
<1>3. h = Shown!Down(g, p, b, 1)
  BY <1>1, <1>2, IsDown
<1> QED
  BY <1>g, <1>3

\* The scrolls of rows.
LEMMA RowsUpShows ==
    ASSUME NEW s, Well(s)
    PROVE  ViewOf(RowsUp(s)) = Shown!Up(ViewOf(s), s.top, s.bottom, 1)
<1>t. PICK t, n, u, o, p, b, m :
            /\ t = RowAt(s.origin, s.top) /\ n = (s.bottom - s.top - 1) * COLS
            /\ u = Fill(Copy(s.mem, t, t + COLS, n), t + n, COLS)
            /\ o = s.origin /\ p = s.top /\ b = s.bottom /\ m = s.mem
  OBVIOUS
<1>1. RowsUp(s) = [s EXCEPT !.mem = u]
  BY <1>t DEF RowsUp, RowAt
<1>2. RowsUp(s).mem = u /\ RowsUp(s).origin = o
  BY <1>1, <1>t DEF Well, Record
<1>3. p \in Nat /\ b \in Nat /\ b <= LINES /\ p < b
  BY <1>t, RegionSound
<1>4. m \in [Address -> Contents] /\ Fits(o)
  BY <1>t, ViewOfType
<1>5. u \in [Address -> Contents]
  BY <1>2, RowsUpWell, ViewOfType
<1>7. n \in Nat /\ RowAt(o, b) = t + n + COLS
  BY <1>t, <1>3, <1>4, RegionEnd DEF Fits
<1>6. View(u, o) = Shown!Up(View(m, o), p, b, 1)
  BY <1>t, <1>3, <1>4, <1>5, <1>7, ViewUp
<1> QED
  BY <1>2, <1>6, <1>t DEF ViewOf

LEMMA ScrdownShows ==
    ASSUME NEW s, Well(s)
    PROVE  /\ ViewOf(Scrdown(s)) = Shown!Down(ViewOf(s), s.top, s.bottom, 1)
           /\ Scrdown(s).x = s.x /\ Scrdown(s).y = s.y
           /\ Scrdown(s).top = s.top /\ Scrdown(s).bottom = s.bottom
<1>t. PICK t, n, u, o, p, b, m :
            /\ t = RowAt(s.origin, s.top) /\ n = (s.bottom - s.top - 1) * COLS
            /\ u = Fill(Copy(s.mem, t + COLS, t, n), t, COLS)
            /\ o = s.origin /\ p = s.top /\ b = s.bottom /\ m = s.mem
  OBVIOUS
<1>3. p \in Nat /\ b \in Nat /\ b <= LINES /\ p < b
  BY <1>t, RegionSound
<1>1. Scrdown(s) = [s EXCEPT !.mem = u]
  <2>1. ~(s.bottom <= s.top)
    BY <1>t, <1>3
  <2> QED
    BY <1>t, <2>1 DEF Scrdown, RowAt
<1>2. /\ Scrdown(s).mem = u /\ Scrdown(s).origin = o
      /\ Scrdown(s).x = s.x /\ Scrdown(s).y = s.y
      /\ Scrdown(s).top = s.top /\ Scrdown(s).bottom = s.bottom
  BY <1>1, <1>t DEF Well, Record
<1>4. m \in [Address -> Contents] /\ Fits(o)
  BY <1>t, ViewOfType
<1>5. u \in [Address -> Contents]
  BY <1>2, ScrdownWell, ViewOfType
<1>7. n \in Nat /\ RowAt(o, b) = t + n + COLS
  BY <1>t, <1>3, <1>4, RegionEnd DEF Fits
<1>6. View(u, o) = Shown!Down(View(m, o), p, b, 1)
  BY <1>t, <1>3, <1>4, <1>5, <1>7, ViewDown
<1> QED
  BY <1>2, <1>6, <1>t DEF ViewOf
\* A window that moves over the memory shows the same as rows that move.
LEMMA RowAtBase ==
    ASSUME NEW o \in Int, NEW r \in Int
    PROVE  RowAt(o, r) = o + RowAt(0, r) /\ RowAt(o + COLS, r) = RowAt(o, r + 1)
<1>p. PICK a : a = r * COLS
  OBVIOUS
<1>1. a \in Int /\ COLS \in Int /\ (r + 1) * COLS = a + COLS
  BY <1>p, NextRow, Sizes
<1> QED
  BY <1>p, <1>1 DEF RowAt

\* Where a window's rows start and end.
LEMMA WindowEnds ==
    ASSUME NEW o \in Int
    PROVE  /\ RowAt(o, 0) = o /\ RowAt(o, LINES) = o + LINES * COLS
           /\ RowAt(0, LINES - 1) = (LINES - 1) * COLS
           /\ RowAt(o, LINES - 1) \in Int /\ RowAt(o, LINES) \in Int /\ LINES - 1 \in Int
<1>1. 0 * COLS = 0 /\ LINES * COLS \in Int /\ (LINES - 1) * COLS \in Int /\ LINES - 1 \in Int
  BY Sizes
<1> QED
  BY <1>1 DEF RowAt

\* The scroll that copies the window to the start of the memory.
LEMMA ViewOfCopy ==
    ASSUME NEW m \in [Address -> Contents], NEW o, Fits(o), NEW z, z = 0, Fits(z), NEW k,
           k = RowAt(0, LINES - 1),
           NEW u \in [Address -> Contents], u = Fill(Copy(m, z, o + COLS, k), k, COLS)
    PROVE  View(u, z) = Shown!Up(View(m, o), 0, LINES, 1)
<1>g. PICK g, h : g = View(m, o) /\ h = View(u, z)
  OBVIOUS
<1>0. o \in Int /\ k \in Int /\ COLS \in Nat /\ LINES \in Nat
  BY WindowEnds, Sizes DEF Fits
<1>1. g \in Grids /\ h \in Grids
  BY <1>g, ViewType
<1>2. ASSUME NEW r \in Rows, NEW c \in Cols
      PROVE  /\ r < 0 \/ r >= LINES => h[r][c] = g[r][c]
             /\ r >= 0 /\ r + 1 < LINES => h[r][c] = g[r + 1][c]
             /\ r >= 0 /\ r < LINES /\ r + 1 >= LINES => h[r][c] = Blank
  <2>a. PICK a : a = RowAt(z, r) + c
    OBVIOUS
  <2>0. a \in Address /\ a \in Int /\ r \in Int /\ 0 <= r /\ r < LINES
    <3>1. a \in Address
      BY <2>a, PlaceInVideo DEF RowAt
    <3> QED
      BY <3>1, Sizes DEF Rows, Address
  <2>1. h[r][c] = u[a]
    BY <1>g, <2>a, ViewCell
  <2>2. /\ a \in k .. k + COLS - 1 <=> r = LINES - 1
        /\ a \in z .. z + k - 1 <=> r < LINES - 1
    <3>i. PICK i, n : i = LINES - 1 /\ n = 0
      OBVIOUS
    <3>0. i \in Int /\ n \in Int /\ z \in Int
      BY <1>0, <3>i
    <3>1. /\ a \in RowAt(z, i) .. RowAt(z, LINES) - 1 <=> i <= r /\ r < LINES
          /\ a \in RowAt(z, n) .. RowAt(z, i) - 1 <=> n <= r /\ r < i
      BY <1>0, <2>0, <2>a, <3>0, InRows
    <3>2. RowAt(z, i) = k /\ RowAt(z, n) = 0
      BY <3>i, WindowEnds
    <3>3. RowAt(z, LINES) = k + COLS
      <4>1. LINES = i + 1
        BY <1>0, <3>i
      <4>2. RowAt(z, i + 1) = RowAt(z, i) + COLS
        BY <3>0, RowAtNext
      <4> QED
        BY <3>2, <4>1, <4>2
    <3>4. (i <= r /\ r < LINES <=> r = LINES - 1) /\ (n <= r /\ r < i <=> r < LINES - 1)
      BY <1>0, <2>0, <3>i
    <3>5. z + k - 1 = k - 1
      BY <1>0
    <3> QED
      BY <1>0, <2>0, <3>1, <3>2, <3>3, <3>4, <3>5
  <2>3. u[a] = IF a \in k .. k + COLS - 1 THEN Blank
               ELSE IF a \in z .. z + k - 1 THEN m[a - z + (o + COLS)] ELSE m[a]
    BY <2>0 DEF Fill, Copy
  <2>4. r + 1 < LINES => g[r + 1][c] = m[a - z + (o + COLS)]
    <3>1. r + 1 < LINES => r + 1 \in Rows
      BY <1>0, <2>0 DEF Rows
    <3>2. r + 1 \in Rows => g[r + 1][c] = m[RowAt(o, r + 1) + c]
      BY <1>g, ViewCell
    <3>3. a - z + (o + COLS) = RowAt(o, r + 1) + c
      <4>1. RowAt(o, r + 1) = RowAt(o, r) + COLS /\ RowAt(o, r) \in Int
        BY <1>0, <2>0, RowAtNext
      <4>2. RowAt(o, r) = o + RowAt(z, r)
        BY <1>0, <2>0, RowAtBase
      <4>3. RowAt(z, r) \in Int /\ c \in Int
        BY <2>0, RowAtNext, Sizes DEF Cols
      <4> QED
        BY <1>0, <2>a, <4>1, <4>2, <4>3
    <3> QED
      BY <3>1, <3>2, <3>3
  <2>5. /\ r < 0 \/ r >= LINES => FALSE
        /\ r + 1 < LINES <=> r < LINES - 1
        /\ r + 1 >= LINES => r = LINES - 1
    BY <1>0, <2>0
  <2> QED
    BY <1>0, <2>1, <2>2, <2>3, <2>4, <2>5
<1>3. h = Shown!Up(g, 0, LINES, 1)
  BY <1>0, <1>1, <1>2, IsUp
<1> QED
  BY <1>g, <1>3

\* The scroll that moves the window.
LEMMA ViewOfMove ==
    ASSUME NEW m \in [Address -> Contents], NEW o, Fits(o), NEW q, q = o + COLS, Fits(q),
           NEW t, t = RowAt(o, LINES),
           NEW u \in [Address -> Contents], u = Fill(m, t, COLS)
    PROVE  View(u, q) = Shown!Up(View(m, o), 0, LINES, 1)
<1>g. PICK g, h : g = View(m, o) /\ h = View(u, q)
  OBVIOUS
<1>0. o \in Int /\ COLS \in Nat /\ LINES \in Nat /\ t \in Int
  BY WindowEnds, Sizes DEF Fits
<1>1. g \in Grids /\ h \in Grids
  BY <1>g, ViewType
<1>2. ASSUME NEW r \in Rows, NEW c \in Cols
      PROVE  /\ r < 0 \/ r >= LINES => h[r][c] = g[r][c]
             /\ r >= 0 /\ r + 1 < LINES => h[r][c] = g[r + 1][c]
             /\ r >= 0 /\ r < LINES /\ r + 1 >= LINES => h[r][c] = Blank
  <2>a. PICK a : a = RowAt(q, r) + c
    OBVIOUS
  <2>0. a \in Address /\ a \in Int /\ r \in Int /\ 0 <= r /\ r < LINES
    <3>1. a \in Address
      BY <2>a, PlaceInVideo DEF RowAt
    <3> QED
      BY <3>1, Sizes DEF Rows, Address
  <2>1. h[r][c] = u[a]
    BY <1>g, <2>a, ViewCell
  <2>2. a = RowAt(o, r + 1) + c
    BY <1>0, <2>0, <2>a, RowAtBase
  <2>3. a \in t .. t + COLS - 1 <=> r + 1 = LINES
    <3>i. PICK i, n : i = r + 1 /\ n = LINES + 1
      OBVIOUS
    <3>0. i \in Int /\ n \in Int
      BY <1>0, <2>0, <3>i
    <3>1. a \in RowAt(o, LINES) .. RowAt(o, n) - 1 <=> LINES <= i /\ i < n
      BY <1>0, <2>2, <3>i, <3>0, InRows
    <3>2. RowAt(o, n) = t + COLS
      BY <1>0, <3>i, RowAtNext
    <3>3. LINES <= i /\ i < n <=> r + 1 = LINES
      BY <1>0, <2>0, <3>i
    <3> QED
      BY <1>0, <3>1, <3>2, <3>3
  <2>4. u[a] = IF a \in t .. t + COLS - 1 THEN Blank ELSE m[a]
    BY <2>0 DEF Fill
  <2>5. r + 1 < LINES => g[r + 1][c] = m[a]
    <3>1. r + 1 < LINES => r + 1 \in Rows
      BY <1>0, <2>0 DEF Rows
    <3>2. r + 1 \in Rows => g[r + 1][c] = m[RowAt(o, r + 1) + c]
      BY <1>g, ViewCell
    <3> QED
      BY <2>2, <3>1, <3>2
  <2>6. /\ r < 0 \/ r >= LINES => FALSE
        /\ r + 1 < LINES => r + 1 # LINES
        /\ r + 1 >= LINES => r + 1 = LINES
    BY <1>0, <2>0
  <2> QED
    BY <2>1, <2>3, <2>4, <2>5, <2>6
<1>3. h = Shown!Up(g, 0, LINES, 1)
  BY <1>0, <1>1, <1>2, IsUp
<1> QED
  BY <1>g, <1>3

\* Either way the user sees one thing.
LEMMA WindowUpShows ==
    ASSUME NEW s, Well(s)
    PROVE  ViewOf(WindowUp(s)) = Shown!Up(ViewOf(s), 0, LINES, 1)
<1>t. PICK t, m, o, e, w : /\ t = WindowUp(s) /\ m = s.mem /\ o = s.origin
                           /\ e = s.scr_end + COLS /\ w = LINES * COLS
  OBVIOUS
<1>1. Well(t)
  BY <1>t, WindowUpWell
<1>2. /\ t.mem \in [Address -> Contents] /\ Fits(t.origin)
      /\ m \in [Address -> Contents] /\ Fits(o)
  BY <1>1, <1>t, ViewOfType
<1>3. /\ o \in Nat /\ w \in Nat /\ s.scr_end = o + w /\ COLS \in Nat /\ s.scr_end = RowAt(o, LINES)
      /\ e \in Nat
  <2>1. o \in Nat /\ w \in Nat /\ s.scr_end = o + w /\ COLS \in Nat
    BY <1>t, InWindow
  <2>2. RowAt(o, LINES) = o + w
    BY <1>t, <2>1, WindowEnds
  <2> QED
    BY <1>t, <2>1, <2>2
<1>4. CASE e > MEM
  <2>k. PICK k, z : k = RowAt(0, LINES - 1) /\ z = 0
    OBVIOUS
  <2>1. k = (LINES - 1) * COLS
    BY <2>k, WindowEnds
  <2>2. t.mem = Fill(Copy(m, z, o + COLS, k), k, COLS) /\ t.origin = z
    BY <1>4, <1>t, <2>1, <2>k DEF WindowUp, Well, Record
  <2>3. View(t.mem, z) = Shown!Up(View(m, o), 0, LINES, 1)
    BY <1>2, <2>2, <2>k, ViewOfCopy
  <2> QED
    BY <1>t, <2>2, <2>3 DEF ViewOf
<1>5. CASE ~(e > MEM)
  <2>k. PICK k, q : k = RowAt(o, LINES) /\ q = o + COLS
    OBVIOUS
  <2>1. k = e - COLS
    BY <1>3, <1>t, <2>k
  <2>2. t.mem = Fill(m, k, COLS) /\ t.origin = q
    BY <1>5, <1>t, <2>1, <2>k DEF WindowUp, Well, Record
  <2>3. View(t.mem, q) = Shown!Up(View(m, o), 0, LINES, 1)
    BY <1>2, <2>2, <2>k, ViewOfMove
  <2> QED
    BY <1>t, <2>2, <2>3 DEF ViewOf
<1> QED
  BY <1>4, <1>5

\* Neither scroll moves the cursor.
LEMMA ScrupShows ==
    ASSUME NEW s, Well(s)
    PROVE  /\ ViewOf(Scrup(s)) = Shown!Up(ViewOf(s), s.top, s.bottom, 1)
           /\ Scrup(s).x = s.x /\ Scrup(s).y = s.y
           /\ Scrup(s).top = s.top /\ Scrup(s).bottom = s.bottom
<1>1. /\ WindowUp(s).x = s.x /\ WindowUp(s).y = s.y
      /\ WindowUp(s).top = s.top /\ WindowUp(s).bottom = s.bottom
  BY DEF WindowUp, Well, Record
<1>2. /\ RowsUp(s).x = s.x /\ RowsUp(s).y = s.y
      /\ RowsUp(s).top = s.top /\ RowsUp(s).bottom = s.bottom
  BY DEF RowsUp, Well, Record
<1> QED
  BY <1>1, <1>2, WindowUpShows, RowsUpShows DEF Scrup

----------------------------------------------------------------------------
\* What each operation shows.

\* Screen's operations, from one record to another.
Placing(s, t)  == t.top = s.top /\ t.bottom = s.bottom
FeedOf(s)      == IF s.y + 1 < s.bottom THEN ViewOf(s)
                  ELSE Shown!Up(ViewOf(s), s.top, s.bottom, 1)
FedOf(s)       == IF s.y + 1 < s.bottom THEN s.y + 1 ELSE s.y
Moves(s, t)    == t.x \in 0 .. COLS /\ t.y \in Rows /\ ViewOf(t) = ViewOf(s) /\ Placing(s, t)
Feeds(s, t)    == ViewOf(t) = FeedOf(s) /\ t.y = FedOf(s) /\ t.x = s.x /\ Placing(s, t)
FeedsBack(s, t) ==
    /\ IF s.y > s.top THEN t.y = s.y - 1 /\ ViewOf(t) = ViewOf(s)
       ELSE ViewOf(t) = Shown!Down(ViewOf(s), s.top, s.bottom, 1) /\ t.y = s.y
    /\ t.x = s.x /\ Placing(s, t)
Puts(s, t) ==
    /\ IF s.x < COLS
       THEN ViewOf(t) = [ViewOf(s) EXCEPT ![s.y][s.x] = Ink] /\ t.x = s.x + 1 /\ t.y = s.y
       ELSE ViewOf(t) = [FeedOf(s) EXCEPT ![FedOf(s)][0] = Ink] /\ t.x = 1 /\ t.y = FedOf(s)
    /\ Placing(s, t)
Tabs(s, t) ==
    LET to == s.x + TabStop - (s.x % TabStop)
    IN  /\ IF to <= COLS THEN t.x = to /\ ViewOf(t) = ViewOf(s) /\ t.y = s.y
           ELSE ViewOf(t) = FeedOf(s) /\ t.y = FedOf(s) /\ t.x = to - COLS
        /\ Placing(s, t)
Deletes(s, t) ==
    /\ s.x > 0 /\ t.x = s.x - 1
    /\ ViewOf(t) = [ViewOf(s) EXCEPT ![s.y][s.x - 1] = Blank]
    /\ t.y = s.y /\ Placing(s, t)

\* The parts that con_write does not look at do not show.
LEMMA BesideShows ==
    ASSUME NEW s, NEW t, Beside(s, t)
    PROVE  ViewOf(t) = ViewOf(s) /\ t.x = s.x /\ t.y = s.y /\ Placing(s, t)
BY DEF Beside, ViewOf, Placing

\* The cursor of a record in order.
LEMMA CursorOf ==
    ASSUME NEW s, Well(s)
    PROVE  /\ s.x \in 0 .. COLS /\ s.y \in Rows /\ s.x \in Int /\ s.y \in Int /\ COLS \in Nat
           /\ s.pos \in Int /\ s.origin \in Int /\ s.pos = RowAt(s.origin, s.y) + s.x
<1>1. s.x \in 0 .. COLS /\ s.y \in 0 .. LINES - 1 /\ s.pos \in Int
  BY InWindow
<1>2. s.origin \in Int /\ COLS \in Nat
  BY InWindow
<1>3. s.pos = RowAt(s.origin, s.y) + s.x
  BY DEF Well, Placed, RowAt
<1> QED
  BY <1>1, <1>2, <1>3, Sizes DEF Rows

\* One cell of the memory is one of the screen.
Stored(m, a, v)     == [m EXCEPT ![a] = v]
CellSet(g, p, d, v) == [g EXCEPT ![p][d] = v]

LEMMA CellShows ==
    ASSUME NEW m \in [Address -> Contents], NEW o, Fits(o), NEW p \in Rows, NEW d \in Cols,
           NEW v \in Contents, NEW a, a = RowAt(o, p) + d,
           NEW u \in [Address -> Contents], u = Stored(m, a, v)
    PROVE  View(u, o) = CellSet(View(m, o), p, d, v)
<1>g. PICK g, h, k : g = View(m, o) /\ h = View(u, o) /\ k = [g EXCEPT ![p][d] = v]
  OBVIOUS
<1>1. g \in Grids /\ h \in Grids
  BY <1>g, ViewType
<1>2. k \in Grids
  BY <1>1, <1>g DEF Grids
<1>0. o \in Int /\ a \in Address
  BY PlaceInVideo DEF Fits, RowAt
<1>3. ASSUME NEW r \in Rows, NEW c \in Cols PROVE h[r][c] = k[r][c]
  <2>b. PICK b : b = RowAt(o, r) + c
    OBVIOUS
  <2>1. h[r][c] = u[b] /\ g[r][c] = m[b]
    <3>1. View(u, o)[r][c] = u[RowAt(o, r) + c]
      BY DEF View, RowAt
    <3>2. View(m, o)[r][c] = m[RowAt(o, r) + c]
      BY DEF View, RowAt
    <3> QED
      BY <1>g, <2>b, <3>1, <3>2
  <2>2. b \in Address
    BY <2>b, PlaceInVideo DEF RowAt
  <2>3. CASE r = p /\ c = d
    <3>1. u[b] = v
      BY <1>0, <2>b, <2>3 DEF Stored
    <3>2. k[r][c] = v
      BY <1>1, <1>g, <2>3 DEF Grids
    <3> QED
      BY <2>1, <3>1, <3>2
  <2>4. CASE ~(r = p /\ c = d)
    <3>1. b # a
      <4>1. SUFFICES ASSUME b = a PROVE FALSE
        OBVIOUS
      <4>2. r * COLS \in Int /\ p * COLS \in Int /\ c \in Int /\ d \in Int
        BY Sizes DEF Rows, Cols
      <4>3. r * COLS + c = p * COLS + d
        BY <1>0, <2>b, <4>1, <4>2 DEF RowAt
      <4> QED
        BY <2>4, <4>3, PlaceUnique
    <3>2. u[b] = m[b]
      BY <2>2, <3>1 DEF Stored
    <3>3. k[r][c] = g[r][c]
      BY <1>1, <1>g, <2>4 DEF Grids
    <3> QED
      BY <2>1, <3>2, <3>3
  <2> QED
    BY <2>3, <2>4
<1>4. h = k
  BY <1>1, <1>2, <1>3, SameCells
<1> QED
  BY <1>g, <1>4 DEF CellSet

\* Line feeds, forwards and back.
LEMMA LfShows == ASSUME NEW s, Well(s) PROVE Feeds(s, Lf(s))
<1>1. CASE s.y + 1 < s.bottom
  <2>t. PICK t : t = [s EXCEPT !.y = @ + 1, !.pos = @ + COLS]
    OBVIOUS
  <2>1. Lf(s) = t
    BY <1>1, <2>t DEF Lf
  <2>2. /\ t.mem = s.mem /\ t.origin = s.origin /\ t.y = s.y + 1 /\ t.x = s.x
        /\ t.top = s.top /\ t.bottom = s.bottom
    BY <2>t DEF Well, Record
  <2> QED
    BY <1>1, <2>1, <2>2 DEF Feeds, FeedOf, FedOf, ViewOf, Placing
<1>2. CASE ~(s.y + 1 < s.bottom)
  <2>1. Lf(s) = Scrup(s)
    BY <1>2 DEF Lf
  <2> QED
    BY <1>2, <2>1, ScrupShows DEF Feeds, FeedOf, FedOf, Placing
<1> QED
  BY <1>1, <1>2

LEMMA RiShows == ASSUME NEW s, Well(s) PROVE FeedsBack(s, Ri(s))
<1>1. CASE s.y > s.top
  <2>t. PICK t : t = [s EXCEPT !.y = @ - 1, !.pos = @ - COLS]
    OBVIOUS
  <2>1. Ri(s) = t
    BY <1>1, <2>t DEF Ri
  <2>2. /\ t.mem = s.mem /\ t.origin = s.origin /\ t.y = s.y - 1 /\ t.x = s.x
        /\ t.top = s.top /\ t.bottom = s.bottom
    BY <2>t DEF Well, Record
  <2> QED
    BY <1>1, <2>1, <2>2 DEF FeedsBack, ViewOf, Placing
<1>2. CASE ~(s.y > s.top)
  <2>1. Ri(s) = Scrdown(s)
    BY <1>2 DEF Ri
  <2> QED
    BY <1>2, <2>1, ScrdownShows DEF FeedsBack, Placing
<1> QED
  BY <1>1, <1>2

\* A cursor moved past the line's end goes on in the next line.
LEMMA WrapShows ==
    ASSUME NEW s, Well(s), NEW d \in Int, s.x + d - COLS \in 0 .. COLS,
           NEW t, t = [s EXCEPT !.x = s.x + d, !.pos = s.pos + d]
    PROVE  /\ ViewOf(Wrap(t)) = FeedOf(s) /\ Wrap(t).y = FedOf(s)
           /\ Wrap(t).x = s.x + d - COLS /\ Placing(s, Wrap(t))
<1>u. PICK nx, np, u : /\ nx = s.x + d - COLS /\ np = s.pos + d - COLS
                       /\ u = [s EXCEPT !.x = nx, !.pos = np]
  OBVIOUS
<1>1. np = s.pos - s.x + nx /\ nx \in 0 .. COLS
  BY <1>u, CursorOf
<1>2. Well(u)
  BY <1>1, <1>u, ColumnMoved
<1>3. [t EXCEPT !.x = @ - COLS, !.pos = @ - COLS] = u
  <2>1. t.x = s.x + d /\ t.pos = s.pos + d
    BY DEF Well, Record
  <2>2. t.x - COLS = nx /\ t.pos - COLS = np
    BY <1>u, <2>1, CursorOf
  <2>3. [t EXCEPT !.x = nx, !.pos = np] = u
    BY <1>u DEF Well, Record
  <2> QED
    BY <2>2, <2>3
<1>4. Wrap(t) = Lf(u)
  BY <1>3 DEF Wrap
<1>5. Feeds(u, Lf(u))
  BY <1>2, LfShows
<1>6. /\ u.x = nx /\ u.y = s.y /\ u.top = s.top /\ u.bottom = s.bottom
      /\ u.mem = s.mem /\ u.origin = s.origin
  BY <1>u DEF Well, Record
<1>7. FeedOf(u) = FeedOf(s) /\ FedOf(u) = FedOf(s)
  BY <1>6 DEF FeedOf, FedOf, ViewOf
<1> QED
  BY <1>4, <1>5, <1>6, <1>7, <1>u DEF Feeds, Placing

\* A character at a cursor that is not behind the line's end.
LEMMA InkShows ==
    ASSUME NEW t, Well(t), t.x < COLS,
           NEW u, u = [t EXCEPT !.mem[t.pos] = Ink, !.pos = @ + 1, !.x = @ + 1]
    PROVE  /\ ViewOf(u) = [ViewOf(t) EXCEPT ![t.y][t.x] = Ink]
           /\ u.x = t.x + 1 /\ u.y = t.y /\ Placing(t, u)
<1>p. PICK m, o, p, d, a : m = t.mem /\ o = t.origin /\ p = t.y /\ d = t.x /\ a = t.pos
  OBVIOUS
<1>1. /\ d \in Cols /\ p \in Rows /\ a = RowAt(o, p) + d /\ Fits(o)
      /\ m \in [Address -> Contents] /\ Ink \in Contents
  <2>1. /\ d \in 0 .. COLS /\ p \in Rows /\ d \in Int /\ COLS \in Nat
        /\ a = RowAt(o, p) + d
    BY <1>p, CursorOf
  <2>2. d \in Cols
    BY <1>p, <2>1 DEF Cols
  <2> QED
    BY <1>p, <2>1, <2>2, ViewOfType DEF Contents
<1>w. PICK w : w = Stored(m, a, Ink)
  OBVIOUS
<1>2. w \in [Address -> Contents]
  BY <1>1, <1>w DEF Stored
<1>3. View(w, o) = CellSet(View(m, o), p, d, Ink)
  BY <1>1, <1>2, <1>w, CellShows
<1>4. /\ u.mem = w /\ u.origin = o /\ u.x = d + 1 /\ u.y = p
      /\ u.top = t.top /\ u.bottom = t.bottom
  BY <1>p, <1>w DEF Well, Record, Stored
<1> QED
  BY <1>3, <1>4, <1>p DEF ViewOf, Placing, CellSet

\* A character, on the next line if this one is full.
LEMMA PutShows == ASSUME NEW s, Well(s) PROVE Puts(s, Put(s))
<1>t. PICK t : t = IF s.x >= COLS THEN Wrap(s) ELSE s
  OBVIOUS
<1>0. 0 \in Int /\ 0 < COLS /\ COLS \in Nat
  BY Sizes
<1>u. Put(s) = [t EXCEPT !.mem[t.pos] = Ink, !.pos = @ + 1, !.x = @ + 1]
  BY <1>t DEF Put
<1>x. s.x \in Int
  BY CursorOf
<1>1. CASE s.x >= COLS
  <2>1. s.x + 0 - COLS = 0 /\ 0 \in 0 .. COLS /\ s.x + 0 = s.x /\ s.pos + 0 = s.pos
    BY <1>1, InWindow
  <2>2. s = [s EXCEPT !.x = s.x + 0, !.pos = s.pos + 0]
    BY <2>1 DEF Well, Record
  <2>3. Well(Wrap(s)) /\ Wrap(s).x = 0
    BY <1>0, <2>1, <2>2, WrapWell
  <2>4. ViewOf(Wrap(s)) = FeedOf(s) /\ Wrap(s).y = FedOf(s) /\ Placing(s, Wrap(s))
    BY <1>0, <2>1, <2>2, WrapShows
  <2>5. /\ Well(t) /\ t.x = 0 /\ t.x < COLS
        /\ ViewOf(t) = FeedOf(s) /\ t.y = FedOf(s) /\ Placing(s, t)
    BY <1>0, <1>1, <1>t, <2>3, <2>4
  <2>p. PICK p : p = Put(s)
    OBVIOUS
  <2>6. /\ ViewOf(p) = [ViewOf(t) EXCEPT ![t.y][t.x] = Ink]
        /\ p.x = t.x + 1 /\ p.y = t.y /\ Placing(t, p)
    BY <1>u, <2>5, <2>p, InkShows
  <2>7. /\ ViewOf(p) = [FeedOf(s) EXCEPT ![FedOf(s)][0] = Ink]
        /\ p.x = 1 /\ p.y = FedOf(s) /\ Placing(s, p) /\ ~(s.x < COLS)
    BY <1>0, <1>1, <1>x, <2>5, <2>6 DEF Placing
  <2> QED
    BY <2>7, <2>p DEF Puts
<1>2. CASE ~(s.x >= COLS)
  <2>1. t = s /\ s.x < COLS
    BY <1>0, <1>2, <1>t, <1>x
  <2>p. PICK p : p = Put(s)
    OBVIOUS
  <2>2. /\ ViewOf(p) = [ViewOf(s) EXCEPT ![s.y][s.x] = Ink]
        /\ p.x = s.x + 1 /\ p.y = s.y /\ Placing(s, p)
    BY <1>u, <2>1, <2>p, InkShows
  <2> QED
    BY <2>1, <2>2, <2>p DEF Puts
<1> QED
  BY <1>1, <1>2

\* A character deleted before the cursor.
LEMMA DelShows == ASSUME NEW s, Well(s), s.x # 0 PROVE Deletes(s, Del(s))
<1>p. PICK m, o, p, d, a : m = s.mem /\ o = s.origin /\ p = s.y /\ d = s.x - 1 /\ a = s.pos - 1
  OBVIOUS
<1>1. /\ d \in Cols /\ p \in Rows /\ a = RowAt(o, p) + d /\ Fits(o) /\ s.x > 0
      /\ m \in [Address -> Contents] /\ Blank \in Contents
  <2>r. PICK r : r = RowAt(o, p)
    OBVIOUS
  <2>1. /\ s.x \in 0 .. COLS /\ p \in Rows /\ s.x \in Int /\ COLS \in Nat
        /\ s.pos = r + s.x /\ s.pos \in Int
    BY <1>p, <2>r, CursorOf
  <2>2. r \in Int
    BY <1>p, <2>r, <2>1, CursorOf, RowAtNext
  <2>3. d \in Cols /\ a = r + d /\ s.x > 0
    BY <1>p, <2>1, <2>2 DEF Cols
  <2> QED
    BY <1>p, <2>r, <2>1, <2>3, ViewOfType DEF Contents
<1>w. PICK w : w = Stored(m, a, Blank)
  OBVIOUS
<1>2. w \in [Address -> Contents]
  BY <1>1, <1>w DEF Stored
<1>3. View(w, o) = CellSet(View(m, o), p, d, Blank)
  BY <1>1, <1>2, <1>w, CellShows
<1>u. PICK u : u = Del(s)
  OBVIOUS
<1>4. /\ u.mem = w /\ u.origin = o /\ u.x = d /\ u.y = p
      /\ u.top = s.top /\ u.bottom = s.bottom
  <2>1. u = [s EXCEPT !.pos = @ - 1, !.x = @ - 1, !.mem[s.pos - 1] = Blank]
    BY <1>u DEF Del
  <2> QED
    BY <1>p, <1>w, <2>1 DEF Well, Record, Stored
<1>5. /\ ViewOf(u) = [ViewOf(s) EXCEPT ![s.y][s.x - 1] = Blank]
      /\ u.x = s.x - 1 /\ u.y = s.y /\ Placing(s, u)
  BY <1>3, <1>4, <1>p DEF ViewOf, Placing, CellSet
<1> QED
  BY <1>1, <1>5, <1>u DEF Deletes

\* A cursor that stays is one that moves.
LEMMA StayShows == ASSUME NEW s, Well(s) PROVE Moves(s, s)
BY CursorOf DEF Moves, Placing

\* Moves of the cursor.
LEMMA BsShows == ASSUME NEW s, Well(s) PROVE Moves(s, Bs(s))
<1>1. CASE s.x # 0
  <2>u. PICK u, nx : u = Bs(s) /\ nx = s.x - 1
    OBVIOUS
  <2>1. u = [s EXCEPT !.x = @ - 1, !.pos = @ - 1]
    BY <1>1, <2>u DEF Bs
  <2>2. /\ u.x = nx /\ u.y = s.y /\ u.mem = s.mem /\ u.origin = s.origin
        /\ u.top = s.top /\ u.bottom = s.bottom
    BY <2>1, <2>u DEF Well, Record
  <2>3. nx \in 0 .. COLS /\ s.y \in Rows
    BY <1>1, <2>u, CursorOf
  <2> QED
    BY <2>2, <2>3, <2>u DEF Moves, ViewOf, Placing
<1> QED
  BY <1>1, StayShows DEF Bs

LEMMA CrShows == ASSUME NEW s, Well(s) PROVE Moves(s, Cr(s))
<1>u. PICK u, z : u = Cr(s) /\ z = 0
  OBVIOUS
<1>1. /\ u.x = z /\ u.y = s.y /\ u.mem = s.mem /\ u.origin = s.origin
      /\ u.top = s.top /\ u.bottom = s.bottom
  BY <1>u DEF Cr, Well, Record
<1>2. z \in 0 .. COLS /\ s.y \in Rows
  BY <1>u, CursorOf
<1> QED
  BY <1>1, <1>2, <1>u DEF Moves, ViewOf, Placing

\* A tab, which may end on the next line.
LEMMA TabShows == ASSUME NEW s, Well(s) PROVE Tabs(s, Tab(s))
<1>q. PICK q : q = s.x % TabStop
  OBVIOUS
<1>1. s.x \in 0 .. COLS /\ TabStop \in 1 .. COLS /\ COLS \in Nat /\ s.x \in Int
  BY CursorOf, Sizes
<1>2. q \in 0 .. TabStop - 1
  BY <1>1, <1>q
<1>n. PICK n, to, u : n = TabStop - q /\ to = s.x + TabStop - q /\ u = Tab(s)
  OBVIOUS
<1>3. n \in 1 .. COLS /\ to = s.x + n /\ to \in Nat
  BY <1>1, <1>2, <1>n
<1>t. PICK t : t = [s EXCEPT !.x = s.x + n, !.pos = s.pos + n]
  OBVIOUS
<1>4. t.x = to
  BY <1>3, <1>t DEF Well, Record
<1>5. u = IF t.x > COLS THEN Wrap(t) ELSE t
  BY <1>t, <1>n, <1>q DEF Tab
<1>6. CASE t.x > COLS
  <2>1. s.x + n - COLS \in 0 .. COLS /\ n \in Int /\ s.x + n - COLS = to - COLS
        /\ ~(to <= COLS)
    BY <1>1, <1>3, <1>4, <1>6
  <2>2. /\ ViewOf(Wrap(t)) = FeedOf(s) /\ Wrap(t).y = FedOf(s)
        /\ Wrap(t).x = s.x + n - COLS /\ Placing(s, Wrap(t))
    BY <1>t, <2>1, WrapShows
  <2>3. /\ ViewOf(u) = FeedOf(s) /\ u.y = FedOf(s) /\ u.x = to - COLS /\ Placing(s, u)
    BY <1>5, <1>6, <2>1, <2>2
  <2> QED
    BY <1>n, <1>q, <2>1, <2>3 DEF Tabs
<1>7. CASE ~(t.x > COLS)
  <2>1. to <= COLS
    BY <1>1, <1>3, <1>4, <1>7
  <2>2. /\ t.y = s.y /\ t.mem = s.mem /\ t.origin = s.origin
        /\ t.top = s.top /\ t.bottom = s.bottom
    BY <1>t DEF Well, Record
  <2>3. u = t
    BY <1>5, <1>7
  <2>4. u.x = to /\ u.y = s.y /\ ViewOf(u) = ViewOf(s) /\ Placing(s, u)
    BY <1>4, <2>2, <2>3 DEF ViewOf, Placing
  <2> QED
    BY <1>n, <1>q, <2>1, <2>4 DEF Tabs
<1> QED
  BY <1>6, <1>7

LEMMA GotoxyShows ==
    ASSUME NEW s, Well(s), NEW nx \in Int, NEW ny \in Int
    PROVE  Moves(s, Gotoxy(s, nx, ny))
<1>1. nx % Word \in 0 .. Word - 1 /\ ny % Word \in 0 .. Word - 1
  BY Sizes
<1>a. PICK a, b, u : a = nx % Word /\ b = ny % Word /\ u = Gotoxy(s, nx, ny)
  OBVIOUS
<1>2. CASE a > COLS \/ b >= LINES
  BY <1>a, <1>2, StayShows DEF Gotoxy
<1>3. CASE ~(a > COLS \/ b >= LINES)
  <2>1. a \in 0 .. COLS /\ b \in Rows
    BY <1>1, <1>3, <1>a, Sizes DEF Rows
  <2>2. u = [s EXCEPT !.x = a, !.y = b, !.pos = s.origin + b * COLS + a]
    BY <1>a, <1>3 DEF Gotoxy
  <2>3. /\ u.x = a /\ u.y = b /\ u.mem = s.mem /\ u.origin = s.origin
        /\ u.top = s.top /\ u.bottom = s.bottom
    BY <2>2 DEF Well, Record
  <2> QED
    BY <1>a, <2>1, <2>3 DEF Moves, ViewOf, Placing
<1> QED
  BY <1>2, <1>3

\* The cursor set anew where it is.
LEMMA SetAnew ==
    ASSUME NEW s, Well(s), NEW t, t = Gotoxy(s, s.x, s.y)
    PROVE  ViewOf(t) = ViewOf(s) /\ t.x = s.x /\ t.y = s.y /\ Placing(s, t)
<1>1. /\ s.x \in 0 .. COLS /\ s.y \in 0 .. LINES - 1 /\ COLS \in Nat /\ LINES \in Nat /\ Word \in Nat
      /\ Word > COLS /\ Word > LINES
  BY InWindow, Sizes
<1>2. s.x % Word = s.x /\ s.y % Word = s.y
  BY <1>1
<1>3. t = [s EXCEPT !.x = s.x, !.y = s.y, !.pos = s.origin + s.y * COLS + s.x] \/ t = s
  BY <1>2 DEF Gotoxy
<1>4. /\ t.x = s.x /\ t.y = s.y /\ t.mem = s.mem /\ t.origin = s.origin
      /\ t.top = s.top /\ t.bottom = s.bottom
  BY <1>3 DEF Well, Record
<1> QED
  BY <1>4 DEF ViewOf, Placing

----------------------------------------------------------------------------
\* Erasing.

Cells == Rows \X Cols
At(r, c) == r * COLS + c
Wiped(g, e) == [r \in Rows |-> [c \in Cols |-> IF <<r, c>> \in e THEN Blank ELSE g[r][c]]]

ErasedOf(s) == {{p \in Cells : At(p[1], p[2]) >= At(s.y, s.x)},
                {p \in Cells : At(p[1], p[2]) < At(s.y, s.x)}, Cells}
InLineOf(s) == {{p \in e : p[1] = s.y} : e \in ErasedOf(s)}
Erases(s, t) ==
    /\ \E e \in ErasedOf(s) \cup InLineOf(s) : ViewOf(t) = Wiped(ViewOf(s), e)
    /\ t.x = s.x /\ t.y = s.y /\ Placing(s, t)

\* The cells that a fill blanks.
LEMMA FillShows ==
    ASSUME NEW m \in [Address -> Contents], NEW o, Fits(o), NEW e, NEW a \in Int, NEW n \in Int,
           \A r \in Rows : \A c \in Cols : RowAt(o, r) + c \in a .. a + n - 1 <=> <<r, c>> \in e
    PROVE  View(Fill(m, a, n), o) = Wiped(View(m, o), e)
<1>1. ASSUME NEW r \in Rows, NEW c \in Cols
      PROVE  View(Fill(m, a, n), o)[r][c] = IF <<r, c>> \in e THEN Blank ELSE View(m, o)[r][c]
  <2>b. PICK b : b = RowAt(o, r) + c
    OBVIOUS
  <2>1. b \in Address
    BY <2>b, PlaceInVideo DEF RowAt
  <2>2. View(Fill(m, a, n), o)[r][c] = Fill(m, a, n)[b] /\ View(m, o)[r][c] = m[b]
    BY <2>b DEF View, RowAt
  <2>3. Fill(m, a, n)[b] = IF b \in a .. a + n - 1 THEN Blank ELSE m[b]
    BY <2>1 DEF Fill
  <2>4. b \in a .. a + n - 1 <=> <<r, c>> \in e
    BY <2>b
  <2> QED
    BY <2>2, <2>3, <2>4
<1>2. View(Fill(m, a, n), o) = [r \in Rows |-> [c \in Cols |-> View(Fill(m, a, n), o)[r][c]]]
  BY DEF View
<1> QED
  BY <1>1, <1>2 DEF Wiped

\* Cells before the cursor, and from it on, by their addresses.
LEMMA CellOrder ==
    ASSUME NEW s, Well(s), NEW r \in Rows, NEW c \in Cols, NEW a, a = RowAt(s.origin, r) + c
    PROVE  /\ a \in Int /\ s.pos \in Int /\ s.origin \in Int /\ s.scr_end \in Int
           /\ At(r, c) >= At(s.y, s.x) <=> s.pos <= a
           /\ At(r, c) < At(s.y, s.x) <=> a < s.pos
           /\ s.origin <= a /\ a < s.scr_end
           /\ s.pos - s.x <= a /\ a < s.pos - s.x + COLS <=> r = s.y
           /\ s.pos - s.x <= s.pos /\ s.pos <= s.pos - s.x + COLS
<1>p. PICK p, q, k, w, f : /\ p = r * COLS /\ q = s.y * COLS /\ k = s.pos /\ w = LINES * COLS
                           /\ f = k - s.x
  OBVIOUS
<1>1. /\ s.x \in 0 .. COLS /\ s.origin \in Int /\ k \in Int /\ q \in Int /\ w \in Int
      /\ COLS \in Nat /\ k = s.origin + q + s.x /\ s.scr_end = s.origin + w
  BY <1>p, InWindow
<1>2. p \in Nat /\ p + COLS <= w /\ c \in 0 .. COLS - 1
  BY <1>p, ViewOfType, PlaceInVideo DEF Cols
<1>3. (q <= p + c <=> s.y <= r) /\ (p + c < q + COLS <=> r < s.y + 1)
  <2>1. r \in Int /\ s.y \in Int /\ s.y + 1 \in Int
    BY CursorOf DEF Rows
  <2>2. (s.y + 1) * COLS = q + COLS
    BY <1>p, <2>1, NextRow
  <2> QED
    BY <1>p, <2>1, <2>2, PlaceInRow
<1>4. s.y <= r /\ r < s.y + 1 <=> r = s.y
  BY CursorOf DEF Rows
<1>5. a = s.origin + p + c
  BY <1>p DEF RowAt
<1>6. At(r, c) = p + c /\ At(s.y, s.x) = q + s.x
  BY <1>p DEF At
<1>7. f = s.origin + q
  BY <1>1, <1>p
<1>8. /\ a \in Int /\ s.scr_end \in Int /\ s.origin <= a /\ a < s.scr_end
      /\ f <= a <=> q <= p + c
      /\ a < f + COLS <=> p + c < q + COLS
      /\ f <= k /\ k <= f + COLS
      /\ p + c >= q + s.x <=> k <= a
      /\ p + c < q + s.x <=> a < k
  BY <1>1, <1>2, <1>5, <1>7
<1> QED
  BY <1>1, <1>3, <1>4, <1>6, <1>8, <1>p

\* An erasure of some cells.
LEMMA ErasureShows ==
    ASSUME NEW s, Well(s), NEW e \in ErasedOf(s) \cup InLineOf(s), NEW a \in Int, NEW n \in Int,
           \A r \in Rows : \A c \in Cols :
               RowAt(s.origin, r) + c \in a .. a + n - 1 <=> <<r, c>> \in e
    PROVE  Erases(s, [s EXCEPT !.mem = Fill(@, a, n)])
<1>t. PICK t, m, o : t = [s EXCEPT !.mem = Fill(@, a, n)] /\ m = s.mem /\ o = s.origin
  OBVIOUS
<1>1. /\ t.mem = Fill(m, a, n) /\ t.origin = o /\ t.x = s.x /\ t.y = s.y
      /\ t.top = s.top /\ t.bottom = s.bottom
  BY <1>t DEF Well, Record
<1>2. m \in [Address -> Contents] /\ Fits(o)
  BY <1>t, ViewOfType
<1>3. View(Fill(m, a, n), o) = Wiped(View(m, o), e)
  BY <1>2, <1>t, FillShows
<1>4. ViewOf(t) = Wiped(ViewOf(s), e)
  BY <1>1, <1>3, <1>t DEF ViewOf
<1> QED
  BY <1>1, <1>4, <1>t DEF Erases, Placing

\* The parts of the screen, and of the line, that a sequence erases.
LEMMA CsiJShows == ASSUME NEW s, Well(s), NEW p PROVE Erases(s, CsiJ(s, p)) \/ CsiJ(s, p) = s
<1>e. PICK e0, e1, e2 : /\ e0 = {k \in Cells : At(k[1], k[2]) >= At(s.y, s.x)}
                        /\ e1 = {k \in Cells : At(k[1], k[2]) < At(s.y, s.x)}
                        /\ e2 = Cells
  OBVIOUS
<1>1. {e0, e1, e2} \subseteq ErasedOf(s) \cup InLineOf(s)
  BY <1>e DEF ErasedOf
<1>n. PICK n0, n1, n2 : n0 = s.scr_end - s.pos /\ n1 = s.pos - s.origin /\ n2 = COLS * LINES
  OBVIOUS
<1>2. /\ s.pos \in Int /\ s.origin \in Int /\ s.scr_end \in Int
      /\ n2 \in Int /\ s.scr_end = s.origin + n2
  <2>1. COLS * LINES = LINES * COLS
    BY Sizes
  <2> QED
    BY <1>n, <2>1, InWindow
<1>3. n0 \in Int /\ n1 \in Int
  BY <1>2, <1>n
<1>4. ASSUME NEW r \in Rows, NEW c \in Cols, NEW a, a = RowAt(s.origin, r) + c
      PROVE  /\ a \in s.pos .. s.pos + n0 - 1 <=> <<r, c>> \in e0
             /\ a \in s.origin .. s.origin + n1 - 1 <=> <<r, c>> \in e1
             /\ a \in s.origin .. s.origin + n2 - 1 <=> <<r, c>> \in e2
  <2>1. /\ <<r, c>> \in e0 <=> At(r, c) >= At(s.y, s.x)
        /\ <<r, c>> \in e1 <=> At(r, c) < At(s.y, s.x)
        /\ <<r, c>> \in e2
    BY <1>e DEF Cells
  <2>2. /\ a \in Int
        /\ At(r, c) >= At(s.y, s.x) <=> s.pos <= a
        /\ At(r, c) < At(s.y, s.x) <=> a < s.pos
        /\ s.origin <= a /\ a < s.scr_end
    BY <1>4, CellOrder
  <2>3. /\ a \in s.pos .. s.pos + n0 - 1 <=> s.pos <= a
        /\ a \in s.origin .. s.origin + n1 - 1 <=> a < s.pos
        /\ a \in s.origin .. s.origin + n2 - 1
    BY <1>2, <1>n, <2>2
  <2> QED
    BY <2>1, <2>2, <2>3
<1>5. Erases(s, [s EXCEPT !.mem = Fill(@, s.pos, n0)])
  <2>1. \A r \in Rows : \A c \in Cols :
            RowAt(s.origin, r) + c \in s.pos .. s.pos + n0 - 1 <=> <<r, c>> \in e0
    BY <1>4
  <2>2. e0 \in ErasedOf(s) \cup InLineOf(s)
    BY <1>1
  <2> QED
    BY <1>2, <1>3, <2>1, <2>2, ErasureShows
<1>6. Erases(s, [s EXCEPT !.mem = Fill(@, s.origin, n1)])
  <2>1. \A r \in Rows : \A c \in Cols :
            RowAt(s.origin, r) + c \in s.origin .. s.origin + n1 - 1 <=> <<r, c>> \in e1
    BY <1>4
  <2>2. e1 \in ErasedOf(s) \cup InLineOf(s)
    BY <1>1
  <2> QED
    BY <1>2, <1>3, <2>1, <2>2, ErasureShows
<1>7. Erases(s, [s EXCEPT !.mem = Fill(@, s.origin, n2)])
  <2>1. \A r \in Rows : \A c \in Cols :
            RowAt(s.origin, r) + c \in s.origin .. s.origin + n2 - 1 <=> <<r, c>> \in e2
    BY <1>4
  <2>2. e2 \in ErasedOf(s) \cup InLineOf(s)
    BY <1>1
  <2> QED
    BY <1>2, <1>3, <2>1, <2>2, ErasureShows
<1> QED
  BY <1>5, <1>6, <1>7, <1>n DEF CsiJ

LEMMA CsiKShows == ASSUME NEW s, Well(s), NEW p PROVE Erases(s, CsiK(s, p)) \/ CsiK(s, p) = s
<1>d. PICK d0, d1, d2 : /\ d0 = {k \in Cells : At(k[1], k[2]) >= At(s.y, s.x)}
                        /\ d1 = {k \in Cells : At(k[1], k[2]) < At(s.y, s.x)}
                        /\ d2 = Cells
  OBVIOUS
<1>e. PICK e0, e1, e2 : /\ e0 = {k \in d0 : k[1] = s.y}
                        /\ e1 = {k \in d1 : k[1] = s.y}
                        /\ e2 = {k \in d2 : k[1] = s.y}
  OBVIOUS
<1>1. {e0, e1, e2} \subseteq ErasedOf(s) \cup InLineOf(s)
  <2>1. d0 \in ErasedOf(s) /\ d1 \in ErasedOf(s) /\ d2 \in ErasedOf(s)
    BY <1>d DEF ErasedOf
  <2>2. e0 \in InLineOf(s) /\ e1 \in InLineOf(s) /\ e2 \in InLineOf(s)
    BY <1>e, <2>1 DEF InLineOf
  <2> QED
    BY <2>2
<1>n. PICK n0, f : n0 = COLS - s.x /\ f = s.pos - s.x
  OBVIOUS
<1>2. /\ s.pos \in Int /\ s.x \in Int /\ COLS \in Int /\ n0 \in Int /\ f \in Int
  BY <1>n, CursorOf
<1>4. ASSUME NEW r \in Rows, NEW c \in Cols, NEW a, a = RowAt(s.origin, r) + c
      PROVE  /\ a \in s.pos .. s.pos + n0 - 1 <=> <<r, c>> \in e0
             /\ a \in f .. f + s.x - 1 <=> <<r, c>> \in e1
             /\ a \in f .. f + COLS - 1 <=> <<r, c>> \in e2
  <2>1. /\ <<r, c>> \in e0 <=> At(r, c) >= At(s.y, s.x) /\ r = s.y
        /\ <<r, c>> \in e1 <=> At(r, c) < At(s.y, s.x) /\ r = s.y
        /\ <<r, c>> \in e2 <=> r = s.y
    BY <1>d, <1>e DEF Cells
  <2>2. /\ a \in Int
        /\ At(r, c) >= At(s.y, s.x) <=> s.pos <= a
        /\ At(r, c) < At(s.y, s.x) <=> a < s.pos
        /\ f <= a /\ a < f + COLS <=> r = s.y
        /\ f <= s.pos /\ s.pos <= f + COLS
    BY <1>4, <1>n, CellOrder
  <2>3. /\ a \in s.pos .. s.pos + n0 - 1 <=> s.pos <= a /\ (f <= a /\ a < f + COLS)
        /\ a \in f .. f + s.x - 1 <=> a < s.pos /\ (f <= a /\ a < f + COLS)
        /\ a \in f .. f + COLS - 1 <=> f <= a /\ a < f + COLS
    BY <1>2, <1>n, <2>2
  <2> QED
    BY <2>1, <2>2, <2>3
<1>5. Erases(s, [s EXCEPT !.mem = Fill(@, s.pos, n0)])
  <2>1. \A r \in Rows : \A c \in Cols :
            RowAt(s.origin, r) + c \in s.pos .. s.pos + n0 - 1 <=> <<r, c>> \in e0
    BY <1>4
  <2>2. e0 \in ErasedOf(s) \cup InLineOf(s)
    BY <1>1
  <2> QED
    BY <1>2, <2>1, <2>2, ErasureShows
<1>6. Erases(s, [s EXCEPT !.mem = Fill(@, f, s.x)])
  <2>1. \A r \in Rows : \A c \in Cols :
            RowAt(s.origin, r) + c \in f .. f + s.x - 1 <=> <<r, c>> \in e1
    BY <1>4
  <2>2. e1 \in ErasedOf(s) \cup InLineOf(s)
    BY <1>1
  <2> QED
    BY <1>2, <2>1, <2>2, ErasureShows
<1>7. Erases(s, [s EXCEPT !.mem = Fill(@, f, COLS)])
  <2>1. \A r \in Rows : \A c \in Cols :
            RowAt(s.origin, r) + c \in f .. f + COLS - 1 <=> <<r, c>> \in e2
    BY <1>4
  <2>2. e2 \in ErasedOf(s) \cup InLineOf(s)
    BY <1>1
  <2> QED
    BY <1>2, <2>1, <2>2, ErasureShows
<1> QED
  BY <1>5, <1>6, <1>7, <1>n DEF CsiK

----------------------------------------------------------------------------
\* Inserting and deleting, one by one and in one piece.

\* A line's characters from column k on, n places to the left, or to the right.
LeftIn(l, k, n)  == [c \in Cols |-> IF c < k THEN l[c] ELSE IF c + n < COLS THEN l[c + n] ELSE Blank]
RightIn(l, k, n) == [c \in Cols |-> IF c < k THEN l[c] ELSE IF c - n >= k THEN l[c - n] ELSE Blank]
LineSet(g, p, l) == [r \in Rows |-> IF r = p THEN l ELSE g[r]]

\* What n of each step do to a screen with the cursor in line p and column k.
Shifted(c, g, p, k, n) ==
    CASE c = "L" -> Shown!Down(g, p, LINES, n)
      [] c = "M" -> Shown!Up(g, p, LINES, n)
      [] c = "P" -> LineSet(g, p, LeftIn(g[p], k, n))
      [] c = "@" -> LineSet(g, p, RightIn(g[p], k, n))

\* The line that is left.
LEMMA LineType ==
    ASSUME NEW g \in Grids, NEW p \in Rows, NEW k \in 0 .. COLS, NEW n \in Nat
    PROVE  /\ g[p] \in [Cols -> Contents]
           /\ LeftIn(g[p], k, n) \in [Cols -> Contents] /\ RightIn(g[p], k, n) \in [Cols -> Contents]
           /\ \A l \in [Cols -> Contents] : LineSet(g, p, l) \in Grids /\ LineSet(g, p, l)[p] = l
<1>l. PICK l : l = g[p]
  OBVIOUS
<1>1. l \in [Cols -> Contents]
  BY <1>l DEF Grids
<1>2. ASSUME NEW c \in Cols
      PROVE  /\ IF c < k THEN l[c] \in Contents ELSE IF c + n < COLS THEN l[c + n] \in Contents ELSE TRUE
             /\ IF c < k THEN l[c] \in Contents ELSE IF c - n >= k THEN l[c - n] \in Contents ELSE TRUE
  <2>1. /\ c + n < COLS => c + n \in Cols
        /\ c - n >= k => c - n \in Cols
    BY Sizes DEF Cols
  <2> QED
    BY <1>1, <2>1
<1>3. Blank \in Contents
  BY DEF Contents
<1>4. LeftIn(l, k, n) \in [Cols -> Contents] /\ RightIn(l, k, n) \in [Cols -> Contents]
  BY <1>2, <1>3 DEF LeftIn, RightIn
<1>5. ASSUME NEW h \in [Cols -> Contents] PROVE LineSet(g, p, h) \in Grids /\ LineSet(g, p, h)[p] = h
  BY DEF LineSet, Grids
<1> QED
  BY <1>1, <1>4, <1>5, <1>l

LEMMA ShiftedType ==
    ASSUME NEW c \in Repeated, NEW g \in Grids, NEW p \in Rows, NEW k \in 0 .. COLS, NEW n \in Nat
    PROVE  Shifted(c, g, p, k, n) \in Grids
<1>1. p \in Nat /\ LINES \in Int /\ LINES <= LINES
  BY Sizes DEF Rows
<1>2. Shown!Up(g, p, LINES, n) \in Grids /\ Shown!Down(g, p, LINES, n) \in Grids
  BY <1>1, UpCells, DownCells
<1>l. PICK l, q : l = LeftIn(g[p], k, n) /\ q = RightIn(g[p], k, n)
  OBVIOUS
<1>3. LineSet(g, p, l) \in Grids /\ LineSet(g, p, q) \in Grids
  BY <1>l, LineType
<1> QED
  BY <1>2, <1>3, <1>l DEF Shifted, Repeated

\* None of them is no step.
LEMMA ShiftedNone ==
    ASSUME NEW c \in Repeated, NEW g \in Grids, NEW p \in Rows, NEW k \in 0 .. COLS
    PROVE  Shifted(c, g, p, k, 0) = g
<1>z. PICK z : z = 0
  OBVIOUS
<1>1. p \in Nat /\ LINES \in Int /\ LINES <= LINES /\ z \in Nat
  BY <1>z, Sizes DEF Rows
<1>2. ASSUME NEW r \in Rows, NEW d \in Cols
      PROVE  /\ r < p \/ r >= LINES => g[r][d] = g[r][d]
             /\ r >= p /\ r + z < LINES => g[r][d] = g[r + z][d]
             /\ r >= p /\ r < LINES /\ r + z >= LINES => g[r][d] = Blank
             /\ r >= p + z /\ r < LINES => g[r][d] = g[r - z][d]
             /\ r >= p /\ r < LINES /\ r < p + z => g[r][d] = Blank
  <2>1. r \in Int /\ p \in Int
    BY <1>1 DEF Rows
  <2>2. r + z = r /\ r - z = r /\ p + z = p
    BY <1>z, <2>1
  <2>3. ~(r < LINES /\ r + z >= LINES) /\ ~(r >= p /\ r < p + z)
    BY <1>1, <2>1, <2>2
  <2> QED
    BY <2>2, <2>3
<1>3. g = Shown!Up(g, p, LINES, z)
  BY <1>1, <1>2, IsUp
<1>4. g = Shown!Down(g, p, LINES, z)
  BY <1>1, <1>2, IsDown
<1>l. PICK l : l = g[p]
  OBVIOUS
<1>5. LeftIn(l, k, z) = l /\ RightIn(l, k, z) = l
  <2>1. l \in [Cols -> Contents]
    BY <1>l, LineType, <1>1
  <2>2. ASSUME NEW d \in Cols
        PROVE  d + z = d /\ d - z = d /\ d < COLS /\ (~(d < k) => d >= k)
    BY <1>z, Sizes DEF Cols
  <2>3. LeftIn(l, k, z) = [d \in Cols |-> l[d]]
    BY <2>2 DEF LeftIn
  <2>4. RightIn(l, k, z) = [d \in Cols |-> l[d]]
    BY <2>2 DEF RightIn
  <2> QED
    BY <2>1, <2>3, <2>4
<1>6. LineSet(g, p, l) = g
  BY <1>l DEF LineSet, Grids
<1> QED
  BY <1>3, <1>4, <1>5, <1>6, <1>l, <1>z DEF Shifted, Repeated

\* One more is a step behind the others.
LEMMA ShiftedUp ==
    ASSUME NEW g \in Grids, NEW p \in Nat, NEW n \in Nat
    PROVE  Shown!Up(Shown!Up(g, p, LINES, n), p, LINES, 1) = Shown!Up(g, p, LINES, n + 1)
<1>i. PICK i, q, h : i = 1 /\ q = n + 1 /\ h = Shown!Up(g, p, LINES, n)
  OBVIOUS
<1>u. PICK u : u = Shown!Up(h, p, LINES, i)
  OBVIOUS
<1>0. LINES \in Int /\ LINES <= LINES /\ q \in Nat /\ i \in Nat
  BY <1>i, Sizes
<1>1. h \in Grids /\ u \in Grids
  BY <1>0, <1>i, <1>u, UpCells
<1>2. ASSUME NEW r \in Rows, NEW c \in Cols
      PROVE  /\ r < p \/ r >= LINES => u[r][c] = g[r][c]
             /\ r >= p /\ r + q < LINES => u[r][c] = g[r + q][c]
             /\ r >= p /\ r < LINES /\ r + q >= LINES => u[r][c] = Blank
  <2>r. PICK r1 : r1 = r + i
    OBVIOUS
  <2>0. r \in Int /\ p \in Int /\ n \in Nat /\ 0 <= r /\ r < LINES
    BY Sizes DEF Rows
  <2>1. /\ r < p \/ r >= LINES => u[r][c] = h[r][c]
        /\ r >= p /\ r1 < LINES => u[r][c] = h[r1][c]
        /\ r >= p /\ r < LINES /\ r1 >= LINES => u[r][c] = Blank
    <3>1. /\ r < p \/ r >= LINES => u[r][c] = h[r][c]
          /\ r >= p /\ r + i < LINES => u[r][c] = h[r + i][c]
          /\ r >= p /\ r < LINES /\ r + i >= LINES => u[r][c] = Blank
      BY <1>0, <1>1, <1>u, UpCells
    <3> QED
      BY <3>1, <2>r
  <2>2. r < p \/ r >= LINES => h[r][c] = g[r][c]
    BY <1>0, <1>i, UpCells
  <2>3. r1 < LINES /\ r1 >= p =>
            /\ r1 + n < LINES => h[r1][c] = g[r1 + n][c]
            /\ r1 + n >= LINES => h[r1][c] = Blank
    <3>1. r1 < LINES => r1 \in Rows
      BY <1>0, <2>0, <2>r, <1>i DEF Rows
    <3> QED
      BY <1>0, <1>i, <3>1, UpCells
  <2>4. r1 + n = r + q /\ r1 \in Int /\ r1 = r + 1
    BY <2>0, <2>r, <1>i
  <2> QED
    BY <1>0, <1>i, <2>0, <2>1, <2>2, <2>3, <2>4
<1>3. u = Shown!Up(g, p, LINES, q)
  BY <1>0, <1>1, <1>2, IsUp
<1> QED
  BY <1>u, <1>3, <1>i

LEMMA ShiftedDown ==
    ASSUME NEW g \in Grids, NEW p \in Nat, NEW n \in Nat
    PROVE  Shown!Down(Shown!Down(g, p, LINES, n), p, LINES, 1) = Shown!Down(g, p, LINES, n + 1)
<1>i. PICK i, q, h : i = 1 /\ q = n + 1 /\ h = Shown!Down(g, p, LINES, n)
  OBVIOUS
<1>u. PICK u : u = Shown!Down(h, p, LINES, i)
  OBVIOUS
<1>0. LINES \in Int /\ LINES <= LINES /\ q \in Nat /\ i \in Nat
  BY <1>i, Sizes
<1>1. h \in Grids /\ u \in Grids
  BY <1>0, <1>i, <1>u, DownCells
<1>2. ASSUME NEW r \in Rows, NEW c \in Cols
      PROVE  /\ r < p \/ r >= LINES => u[r][c] = g[r][c]
             /\ r >= p + q /\ r < LINES => u[r][c] = g[r - q][c]
             /\ r >= p /\ r < LINES /\ r < p + q => u[r][c] = Blank
  <2>r. PICK r1 : r1 = r - i
    OBVIOUS
  <2>0. r \in Int /\ p \in Int /\ n \in Nat /\ 0 <= r /\ r < LINES
    BY Sizes DEF Rows
  <2>1. /\ r < p \/ r >= LINES => u[r][c] = h[r][c]
        /\ r >= p + i /\ r < LINES => u[r][c] = h[r1][c]
        /\ r >= p /\ r < LINES /\ r < p + i => u[r][c] = Blank
    <3>1. /\ r < p \/ r >= LINES => u[r][c] = h[r][c]
          /\ r >= p + i /\ r < LINES => u[r][c] = h[r - i][c]
          /\ r >= p /\ r < LINES /\ r < p + i => u[r][c] = Blank
      BY <1>0, <1>1, <1>u, DownCells
    <3> QED
      BY <3>1, <2>r
  <2>2. r < p \/ r >= LINES => h[r][c] = g[r][c]
    BY <1>0, <1>i, DownCells
  <2>3. r1 >= p =>
            /\ r1 >= p + n => h[r1][c] = g[r1 - n][c]
            /\ r1 < p + n => h[r1][c] = Blank
    <3>1. r1 >= p => r1 \in Rows /\ r1 < LINES
      BY <1>0, <2>0, <2>r, <1>i DEF Rows
    <3> QED
      BY <1>0, <1>i, <3>1, DownCells
  <2>4. r1 - n = r - q /\ r1 \in Int /\ r1 = r - 1
    BY <2>0, <2>r, <1>i
  <2> QED
    BY <1>0, <1>i, <2>0, <2>1, <2>2, <2>3, <2>4
<1>3. u = Shown!Down(g, p, LINES, q)
  BY <1>0, <1>1, <1>2, IsDown
<1> QED
  BY <1>u, <1>3, <1>i

\* Characters, one more.
LEMMA ShiftedChars ==
    ASSUME NEW l \in [Cols -> Contents], NEW k \in 0 .. COLS, NEW n \in Nat
    PROVE  /\ LeftIn(LeftIn(l, k, n), k, 1) = LeftIn(l, k, n + 1)
           /\ RightIn(RightIn(l, k, n), k, 1) = RightIn(l, k, n + 1)
<1>a. PICK a, b, i, q : a = LeftIn(l, k, n) /\ b = RightIn(l, k, n) /\ i = 1 /\ q = n + 1
  OBVIOUS
<1>0. k \in Int /\ n \in Int /\ 0 <= n /\ COLS \in Int /\ 0 <= k
  BY Sizes
<1>1. ASSUME NEW c \in Cols
      PROVE  /\ LeftIn(a, k, i)[c] = LeftIn(l, k, q)[c]
             /\ RightIn(b, k, i)[c] = RightIn(l, k, q)[c]
  <2>c. PICK d, e : d = c + 1 /\ e = c - 1
    OBVIOUS
  <2>0. c \in Int /\ 0 <= c /\ c < COLS
    BY Sizes DEF Cols
  <2>1. LeftIn(a, k, i)[c] = IF c < k THEN a[c] ELSE IF d < COLS THEN a[d] ELSE Blank
    BY <1>a, <2>c DEF LeftIn
  <2>2. RightIn(b, k, i)[c] = IF c < k THEN b[c] ELSE IF e >= k THEN b[e] ELSE Blank
    BY <1>a, <2>c DEF RightIn
  <2>3. a[c] = IF c < k THEN l[c] ELSE IF c + n < COLS THEN l[c + n] ELSE Blank
    BY <1>a DEF LeftIn
  <2>4. b[c] = IF c < k THEN l[c] ELSE IF c - n >= k THEN l[c - n] ELSE Blank
    BY <1>a DEF RightIn
  <2>5. d < COLS => a[d] = IF d < k THEN l[d] ELSE IF d + n < COLS THEN l[d + n] ELSE Blank
    <3>1. d < COLS => d \in Cols
      BY <2>0, <2>c, <1>0 DEF Cols
    <3> QED
      BY <1>a, <3>1 DEF LeftIn
  <2>6. e >= k => b[e] = IF e < k THEN l[e] ELSE IF e - n >= k THEN l[e - n] ELSE Blank
    <3>1. e >= k => e \in Cols
      BY <2>0, <2>c, <1>0 DEF Cols
    <3> QED
      BY <1>a, <3>1 DEF RightIn
  <2>7. LeftIn(l, k, q)[c] = IF c < k THEN l[c] ELSE IF c + q < COLS THEN l[c + q] ELSE Blank
    BY DEF LeftIn
  <2>8. RightIn(l, k, q)[c] = IF c < k THEN l[c] ELSE IF c - q >= k THEN l[c - q] ELSE Blank
    BY DEF RightIn
  <2>9. /\ d + n = c + q /\ e - n = c - q /\ d \in Int /\ e \in Int /\ q \in Int
        /\ d = c + 1 /\ e = c - 1 /\ q = n + 1
    BY <1>0, <1>a, <2>0, <2>c
  <2>10. /\ ~(c < k) => ~(d < k)
         /\ c + q < COLS => d < COLS
         /\ c - q >= k => e >= k
         /\ e >= k => ~(e < k)
    BY <1>0, <2>0, <2>9
  <2>11. LeftIn(a, k, i)[c] = LeftIn(l, k, q)[c]
    BY <2>1, <2>3, <2>5, <2>7, <2>9, <2>10
  <2>12. RightIn(b, k, i)[c] = RightIn(l, k, q)[c]
    BY <2>2, <2>4, <2>6, <2>8, <2>9, <2>10
  <2> QED
    BY <2>11, <2>12
<1>2. LeftIn(a, k, i) = LeftIn(l, k, q) /\ RightIn(b, k, i) = RightIn(l, k, q)
  <2>1. /\ LeftIn(a, k, i) = [c \in Cols |-> LeftIn(a, k, i)[c]]
        /\ LeftIn(l, k, q) = [c \in Cols |-> LeftIn(l, k, q)[c]]
    BY DEF LeftIn
  <2>2. /\ RightIn(b, k, i) = [c \in Cols |-> RightIn(b, k, i)[c]]
        /\ RightIn(l, k, q) = [c \in Cols |-> RightIn(l, k, q)[c]]
    BY DEF RightIn
  <2> QED
    BY <1>1, <2>1, <2>2
<1> QED
  BY <1>2, <1>a

\* Any of the four, one more.
LEMMA ShiftedMore ==
    ASSUME NEW c \in Repeated, NEW g \in Grids, NEW p \in Rows, NEW k \in 0 .. COLS, NEW n \in Nat,
           NEW h, h = Shifted(c, g, p, k, n), NEW q, q = n + 1
    PROVE  Shifted(c, h, p, k, 1) = Shifted(c, g, p, k, q)
<1>i. PICK i : i = 1
  OBVIOUS
<1>0. p \in Nat /\ LINES \in Int /\ LINES <= LINES /\ q \in Nat
  BY Sizes DEF Rows
<1>1. CASE c = "M"
  <2>1. h = Shown!Up(g, p, LINES, n)
    BY <1>1 DEF Shifted
  <2>2. Shown!Up(h, p, LINES, i) = Shown!Up(g, p, LINES, q)
    BY <1>0, <1>i, <2>1, ShiftedUp
  <2> QED
    BY <1>1, <1>i, <2>2 DEF Shifted
<1>2. CASE c = "L"
  <2>1. h = Shown!Down(g, p, LINES, n)
    BY <1>2 DEF Shifted
  <2>2. Shown!Down(h, p, LINES, i) = Shown!Down(g, p, LINES, q)
    BY <1>0, <1>i, <2>1, ShiftedDown
  <2> QED
    BY <1>2, <1>i, <2>2 DEF Shifted
<1>l. PICK l, a, b : l = g[p] /\ a = LeftIn(l, k, n) /\ b = RightIn(l, k, n)
  OBVIOUS
<1>3. l \in [Cols -> Contents] /\ a \in [Cols -> Contents] /\ b \in [Cols -> Contents]
  BY <1>l, LineType
<1>4. LeftIn(a, k, i) = LeftIn(l, k, q) /\ RightIn(b, k, i) = RightIn(l, k, q)
  BY <1>3, <1>i, <1>l, ShiftedChars
<1>5. ASSUME NEW f, NEW e PROVE LineSet(LineSet(g, p, f), p, e) = LineSet(g, p, e)
  BY DEF LineSet
<1>6. CASE c = "P"
  <2>1. h = LineSet(g, p, a)
    BY <1>6, <1>l DEF Shifted
  <2>2. h[p] = a
    BY <2>1, <1>3, <1>l, LineType
  <2>3. Shifted(c, h, p, k, i) = LineSet(h, p, LeftIn(a, k, i))
    BY <1>6, <2>2 DEF Shifted
  <2>4. Shifted(c, g, p, k, q) = LineSet(g, p, LeftIn(l, k, q))
    BY <1>6, <1>l DEF Shifted
  <2> QED
    BY <1>i, <1>4, <1>5, <2>1, <2>3, <2>4
<1>7. CASE c = "@"
  <2>1. h = LineSet(g, p, b)
    BY <1>7, <1>l DEF Shifted
  <2>2. h[p] = b
    BY <2>1, <1>3, <1>l, LineType
  <2>3. Shifted(c, h, p, k, i) = LineSet(h, p, RightIn(b, k, i))
    BY <1>7, <2>2 DEF Shifted
  <2>4. Shifted(c, g, p, k, q) = LineSet(g, p, RightIn(l, k, q))
    BY <1>7, <1>l DEF Shifted
  <2> QED
    BY <1>i, <1>4, <1>5, <2>1, <2>3, <2>4
<1> QED
  BY <1>1, <1>2, <1>6, <1>7 DEF Repeated

ShiftsBy(c, s, t, n) == /\ ViewOf(t) = Shifted(c, ViewOf(s), s.y, s.x, n)
                        /\ t.x = s.x /\ t.y = s.y /\ Placing(s, t)

\* Lines: a scroll of the region below the cursor.
LEMMA LinesShow ==
    ASSUME NEW s, Well(s)
    PROVE  /\ ShiftsBy("M", s, DeleteLine(s), 1)
           /\ ShiftsBy("L", s, InsertLine(s), 1)
<1>0. /\ s.y \in 0 .. LINES - 1 /\ LINES \in 1 .. LINES /\ s.y < LINES
  BY Sizes DEF Well, Record
<1>b. PICK b, u, d : b = [s EXCEPT !.top = s.y, !.bottom = LINES] /\ u = Scrup(b) /\ d = Scrdown(b)
  OBVIOUS
<1>1. Well(b)
  BY <1>0, <1>b, RegionWell
<1>2. /\ b.top = s.y /\ b.bottom = LINES /\ b.x = s.x /\ b.y = s.y /\ ViewOf(b) = ViewOf(s)
  BY <1>b DEF Well, Record, ViewOf
<1>3. /\ u \in Record /\ ViewOf(u) = Shown!Up(ViewOf(s), s.y, LINES, 1) /\ u.x = s.x /\ u.y = s.y
  <2>1. Well(u)
    BY <1>1, <1>b, ScrupWell
  <2>2. /\ ViewOf(u) = Shown!Up(ViewOf(b), b.top, b.bottom, 1)
        /\ u.x = b.x /\ u.y = b.y
    BY <1>1, <1>b, ScrupShows
  <2> QED
    BY <1>2, <2>1, <2>2 DEF Well
<1>4. /\ d \in Record /\ ViewOf(d) = Shown!Down(ViewOf(s), s.y, LINES, 1) /\ d.x = s.x /\ d.y = s.y
  <2>1. Well(d)
    BY <1>1, <1>b, ScrdownWell
  <2>2. /\ ViewOf(d) = Shown!Down(ViewOf(b), b.top, b.bottom, 1)
        /\ d.x = b.x /\ d.y = b.y
    BY <1>1, <1>b, ScrdownShows
  <2> QED
    BY <1>2, <2>1, <2>2 DEF Well
<1>5. ASSUME NEW f \in Record, NEW t, t = [f EXCEPT !.top = s.top, !.bottom = s.bottom]
      PROVE  ViewOf(t) = ViewOf(f) /\ t.x = f.x /\ t.y = f.y /\ Placing(s, t)
  BY <1>5 DEF Record, ViewOf, Placing
<1>6. /\ DeleteLine(s) = [u EXCEPT !.top = s.top, !.bottom = s.bottom]
      /\ InsertLine(s) = [d EXCEPT !.top = s.top, !.bottom = s.bottom]
  BY <1>b DEF DeleteLine, InsertLine, OnLinesBelow
<1>7. /\ ViewOf(DeleteLine(s)) = ViewOf(u) /\ DeleteLine(s).x = u.x /\ DeleteLine(s).y = u.y
      /\ Placing(s, DeleteLine(s))
  BY <1>3, <1>5, <1>6
<1>8. /\ ViewOf(InsertLine(s)) = ViewOf(d) /\ InsertLine(s).x = d.x /\ InsertLine(s).y = d.y
      /\ Placing(s, InsertLine(s))
  BY <1>4, <1>5, <1>6
<1> QED
  BY <1>3, <1>4, <1>7, <1>8 DEF ShiftsBy, Shifted

\* Cells of one line.
LEMMA InLine ==
    ASSUME NEW o \in Int, NEW r \in Rows, NEW c \in Cols, NEW p \in Rows,
           NEW d \in Int, NEW e \in Int, 0 <= d, e < COLS
    PROVE  RowAt(o, r) + c \in RowAt(o, p) + d .. RowAt(o, p) + e <=> r = p /\ d <= c /\ c <= e
<1>a. PICK a, b, q : a = RowAt(o, r) /\ b = RowAt(o, p) /\ q = p + 1
  OBVIOUS
<1>0. r \in Int /\ p \in Int /\ q \in Int /\ c \in Int /\ COLS \in Int
  BY <1>a, Sizes DEF Rows, Cols
<1>1. a \in Int /\ b \in Int /\ RowAt(o, q) = b + COLS
  BY <1>0, <1>a, RowAtNext
<1>2. a + c \in b .. b + COLS - 1 <=> p <= r /\ r < q
  <2>1. RowAt(o, r) + c \in RowAt(o, p) .. RowAt(o, q) - 1 <=> p <= r /\ r < q
    BY <1>0, InRows
  <2> QED
    BY <1>0, <1>a, <1>1, <2>1
<1>3. CASE r = p
  BY <1>0, <1>1, <1>3, <1>a
<1>4. CASE r # p
  <2>1. ~(p <= r /\ r < q)
    BY <1>0, <1>4, <1>a
  <2>2. a + c \notin b + d .. b + e
    BY <1>0, <1>1, <1>2, <2>1
  <2> QED
    BY <1>4, <1>a, <2>2
<1> QED
  BY <1>3, <1>4

\* Characters: a copy of the rest of the line.
LEMMA CharsShow ==
    ASSUME NEW s, Well(s)
    PROVE  /\ ShiftsBy("P", s, DeleteChar(s), 1)
           /\ ShiftsBy("@", s, InsertChar(s), 1)
<1>g. PICK g, p, k, m, o, a : /\ g = ViewOf(s) /\ p = s.y /\ k = s.x /\ m = s.mem /\ o = s.origin
                              /\ a = s.pos
  OBVIOUS
<1>0. /\ k \in 0 .. COLS /\ k \in Int /\ p \in Rows /\ o \in Int /\ a \in Int /\ COLS \in Nat
      /\ a = RowAt(o, p) + k
  BY <1>g, CursorOf
<1>1. /\ g \in Grids /\ m \in [Address -> Contents] /\ Fits(o) /\ g = View(m, o)
  BY <1>g, ViewOfType DEF ViewOf
<1>2. CASE k >= COLS
  <2>1. DeleteChar(s) = s /\ InsertChar(s) = s
    BY <1>2, <1>g DEF DeleteChar, InsertChar
  <2>l. PICK l : l = g[p]
    OBVIOUS
  <2>2. l \in [Cols -> Contents]
    BY <1>0, <1>1, <2>l DEF Grids
  <2>3. LeftIn(l, k, 1) = l /\ RightIn(l, k, 1) = l
    <3>1. \A c \in Cols : c < k
      BY <1>0, <1>2 DEF Cols
    <3> QED
      BY <2>2, <3>1 DEF LeftIn, RightIn
  <2>4. LineSet(g, p, l) = g
    BY <1>1, <2>l DEF LineSet, Grids
  <2>5. Shifted("P", g, p, k, 1) = g /\ Shifted("@", g, p, k, 1) = g
    BY <2>l, <2>3, <2>4 DEF Shifted
  <2> QED
    BY <1>g, <2>1, <2>5 DEF ShiftsBy, Placing
<1>3. CASE ~(k >= COLS)
  <2>n. PICK n, u, v : /\ n = COLS - k - 1
                       /\ u = Fill(Copy(m, a, a + 1, n), a + n, 1)
                       /\ v = Fill(Copy(m, a + 1, a, n), a, 1)
    OBVIOUS
  <2>0. n \in Nat /\ k + n = COLS - 1 /\ k < COLS /\ 0 <= k
    BY <1>0, <1>3, <2>n
  <2>l. PICK l, f, h : l = g[p] /\ f = LineSet(g, p, LeftIn(l, k, 1)) /\ h = LineSet(g, p, RightIn(l, k, 1))
    OBVIOUS
  <2>1. ASSUME NEW r \in Rows, NEW c \in Cols
        PROVE  /\ View(u, o)[r][c] = f[r][c]
               /\ View(v, o)[r][c] = h[r][c]
    <3>b. PICK b, q : b = RowAt(o, r) + c /\ q = RowAt(o, p)
      OBVIOUS
    <3>0. b \in Address /\ b \in Int /\ q \in Int /\ c \in Int /\ r \in Int /\ p \in Int /\ 0 <= c /\ c < COLS
      <4>1. b \in Address
        BY <3>b, <1>1, PlaceInVideo DEF RowAt
      <4>2. p \in Int /\ r \in Int /\ c \in Int /\ 0 <= c /\ c < COLS
        BY <1>0 DEF Rows, Cols
      <4>3. q \in Int
        BY <3>b, <4>2, <1>0, RowAtNext
      <4> QED
        BY <4>1, <4>2, <4>3, Sizes DEF Address
    <3>1. View(u, o)[r][c] = u[b] /\ View(v, o)[r][c] = v[b] /\ g[r][c] = m[b]
      BY <1>1, <3>b DEF View, RowAt
    <3>2. /\ u[b] = IF b \in a + n .. a + n + 1 - 1 THEN Blank
                    ELSE IF b \in a .. a + n - 1 THEN m[b - a + (a + 1)] ELSE m[b]
          /\ v[b] = IF b \in a .. a + 1 - 1 THEN Blank
                    ELSE IF b \in a + 1 .. a + 1 + n - 1 THEN m[b - (a + 1) + a] ELSE m[b]
      BY <2>n, <3>0 DEF Fill, Copy
    <3>i. PICK k1, w, w1 : k1 = k + 1 /\ w = COLS - 1 /\ w1 = COLS - 2
      OBVIOUS
    <3>3. /\ b \in q + k .. q + w1 <=> r = p /\ k <= c /\ c <= w1
          /\ b \in q + w .. q + w <=> r = p /\ w <= c /\ c <= w
          /\ b \in q + k .. q + k <=> r = p /\ k <= c /\ c <= k
          /\ b \in q + k1 .. q + w <=> r = p /\ k1 <= c /\ c <= w
      <4>1. /\ k1 \in Int /\ w \in Int /\ w1 \in Int /\ 0 <= k1 /\ 0 <= w /\ w < COLS /\ w1 < COLS
        BY <1>0, <2>0, <3>i
      <4>2. RowAt(o, r) + c \in RowAt(o, p) + k .. RowAt(o, p) + w1 <=> r = p /\ k <= c /\ c <= w1
        BY <1>0, <2>0, <4>1, InLine
      <4>3. RowAt(o, r) + c \in RowAt(o, p) + w .. RowAt(o, p) + w <=> r = p /\ w <= c /\ c <= w
        <5>v. PICK w2 : w2 = w
          OBVIOUS
        <5>1. w \in Int /\ w2 \in Int /\ 0 <= w2 /\ w < COLS /\ o \in Int /\ p \in Rows
          BY <1>0, <4>1, <5>v
        <5>2. RowAt(o, r) + c \in RowAt(o, p) + w2 .. RowAt(o, p) + w <=> r = p /\ w2 <= c /\ c <= w
          BY <5>1, InLine
        <5> QED
          BY <5>2, <5>v, Zenon
      <4>4. RowAt(o, r) + c \in RowAt(o, p) + k .. RowAt(o, p) + k <=> r = p /\ k <= c /\ c <= k
        BY <1>0, <2>0, <4>1, InLine
      <4>5. RowAt(o, r) + c \in RowAt(o, p) + k1 .. RowAt(o, p) + w <=> r = p /\ k1 <= c /\ c <= w
        BY <1>0, <2>0, <4>1, InLine
      <4> QED
        BY <3>b, <4>2, <4>3, <4>4, <4>5, Zenon
    <3>4. /\ a = q + k /\ a + 1 = q + k1 /\ a + n = q + w /\ a + n - 1 = q + w1 /\ a + 1 + n - 1 = q + w
          /\ a + n + 1 - 1 = q + w /\ a + 1 - 1 = q + k
          /\ b - a + (a + 1) = b + 1 /\ b - (a + 1) + a = b - 1
      BY <1>0, <2>0, <3>0, <3>b, <3>i
    <3>5. /\ u[b] = IF r = p /\ w <= c /\ c <= w THEN Blank
                    ELSE IF r = p /\ k <= c /\ c <= w1 THEN m[b + 1] ELSE m[b]
          /\ v[b] = IF r = p /\ k <= c /\ c <= k THEN Blank
                    ELSE IF r = p /\ k1 <= c /\ c <= w THEN m[b - 1] ELSE m[b]
      BY <3>2, <3>3, <3>4
    <3>6. CASE r # p
      BY <3>1, <3>5, <3>6, <2>l DEF LineSet
    <3>7. CASE r = p
      <4>1. /\ f[r][c] = LeftIn(l, k, 1)[c] /\ h[r][c] = RightIn(l, k, 1)[c] /\ l[c] = m[b]
        BY <2>l, <3>1, <3>7 DEF LineSet
      <4>2. /\ LeftIn(l, k, 1)[c] = IF c < k THEN l[c] ELSE IF c + 1 < COLS THEN l[c + 1] ELSE Blank
            /\ RightIn(l, k, 1)[c] = IF c < k THEN l[c] ELSE IF c - 1 >= k THEN l[c - 1] ELSE Blank
        BY DEF LeftIn, RightIn
      <4>3. /\ c + 1 < COLS => l[c + 1] = m[b + 1]
            /\ c - 1 >= k => l[c - 1] = m[b - 1]
        <5>c. PICK c1, c2 : c1 = c + 1 /\ c2 = c - 1
          OBVIOUS
        <5>1. /\ c1 < COLS => c1 \in Cols
              /\ c2 >= k => c2 \in Cols
          BY <1>0, <2>0, <3>0, <5>c DEF Cols
        <5>2. /\ c1 \in Cols => l[c1] = m[RowAt(o, p) + c1]
              /\ c2 \in Cols => l[c2] = m[RowAt(o, p) + c2]
          BY <1>0, <1>1, <2>l DEF View, RowAt
        <5>3. RowAt(o, p) + c1 = b + 1 /\ RowAt(o, p) + c2 = b - 1
          BY <3>0, <3>7, <3>b, <5>c
        <5> QED
          BY <5>1, <5>2, <5>3, <5>c
      <4>4. /\ c + 1 < COLS <=> c <= w1
            /\ w <= c /\ c <= w <=> ~(c <= w1)
            /\ c - 1 >= k <=> k1 <= c
            /\ c < k <=> ~(k <= c)
            /\ k <= c /\ c <= k <=> k <= c /\ ~(k1 <= c)
            /\ c <= w /\ k <= w
        BY <1>0, <2>0, <3>0, <3>i
      <4>5. u[b] = f[r][c]
        <5>1. w <= c /\ c <= w => ~(c + 1 < COLS) /\ ~(c < k)
          BY <1>0, <2>0, <3>0, <3>i
        <5>2. CASE w <= c /\ c <= w
          BY <3>5, <3>7, <4>1, <4>2, <5>1, <5>2
        <5>3. CASE ~(w <= c /\ c <= w) /\ k <= c
          <6>1. c <= w1 /\ c + 1 < COLS /\ ~(c < k)
            BY <4>4, <5>3
          <6>2. u[b] = m[b + 1]
            BY <3>5, <3>7, <5>3, <6>1
          <6> QED
            BY <4>1, <4>2, <4>3, <6>1, <6>2
        <5>4. CASE ~(k <= c)
          <6>1. u[b] = m[b]
            BY <3>5, <4>4, <5>1, <5>4
          <6> QED
            BY <4>1, <4>2, <4>4, <5>4, <6>1
        <5> QED
          BY <5>2, <5>3, <5>4
      <4>6. v[b] = h[r][c]
        <5>1. k1 <= c => k <= c
          BY <1>0, <3>0, <3>i
        <5> QED
          BY <3>5, <3>7, <4>1, <4>2, <4>3, <4>4, <5>1
      <4> QED
        BY <3>1, <4>5, <4>6
    <3> QED
      BY <3>6, <3>7
  <2>2. View(u, o) = f /\ View(v, o) = h
    <3>1. View(u, o) = [r \in Rows |-> [c \in Cols |-> View(u, o)[r][c]]]
      BY DEF View
    <3>2. View(v, o) = [r \in Rows |-> [c \in Cols |-> View(v, o)[r][c]]]
      BY DEF View
    <3>3. f \in Grids /\ h \in Grids
      <4>1. 1 \in Nat
        OBVIOUS
      <4> QED
        BY <4>1, <1>0, <1>1, <2>l, LineType
    <3>4. f = [r \in Rows |-> [c \in Cols |-> f[r][c]]] /\ h = [r \in Rows |-> [c \in Cols |-> h[r][c]]]
      BY <3>3 DEF Grids
    <3> QED
      BY <2>1, <3>1, <3>2, <3>4
  <2>3. /\ DeleteChar(s) = [s EXCEPT !.mem = u]
        /\ InsertChar(s) = [s EXCEPT !.mem = v]
    BY <1>3, <1>g, <2>n DEF DeleteChar, InsertChar
  <2>4. ASSUME NEW w, NEW t, t = [s EXCEPT !.mem = w]
        PROVE  ViewOf(t) = View(w, o) /\ t.x = s.x /\ t.y = s.y /\ Placing(s, t)
    BY <2>4, <1>g DEF Well, Record, ViewOf, Placing
  <2>5. Shifted("P", g, p, k, 1) = f /\ Shifted("@", g, p, k, 1) = h
    BY <2>l DEF Shifted
  <2>6. ShiftsBy("P", s, DeleteChar(s), 1)
    BY <1>g, <2>2, <2>3, <2>4, <2>5 DEF ShiftsBy
  <2>7. ShiftsBy("@", s, InsertChar(s), 1)
    BY <1>g, <2>2, <2>3, <2>4, <2>5 DEF ShiftsBy
  <2> QED
    BY <2>6, <2>7
<1> QED
  BY <1>2, <1>3

\* Any of the four, once.
LEMMA MovedShows ==
    ASSUME NEW s, Well(s), NEW c \in Repeated
    PROVE  ShiftsBy(c, s, Moved(c, s), 1)
BY LinesShow, CharsShow DEF Moved, Repeated

\* Taken one by one, they move what they move in one piece.
LEMMA TimesShows ==
    ASSUME NEW s, Well(s), NEW c \in Repeated, NEW n \in Nat
    PROVE  ShiftsBy(c, s, Times(n, c, s), n)
<1>g. PICK g : g = CHOOSE h : h = [i \in 0 .. n |-> IF i = 0 THEN s ELSE Moved(c, h[i - 1])]
  OBVIOUS
<1>1. Times(n, c, s) = g[n]
  BY <1>g DEF Times
<1>2. g = [i \in 0 .. n |-> IF i = 0 THEN s ELSE Moved(c, g[i - 1])]
  <2>1. \E h : h = [i \in 0 .. n |-> IF i = 0 THEN s ELSE Moved(c, h[i - 1])]
    <3>1. PICK h : StepsOf(h, n, c, s)
      BY StepsExist
    <3> QED
      BY <3>1, Zenon DEF StepsOf
  <2> QED
    BY <1>g, <2>1, Zenon
<1>v. PICK v, p, k : v = ViewOf(s) /\ p = s.y /\ k = s.x
  OBVIOUS
<1>0. v \in Grids /\ p \in Rows /\ k \in 0 .. COLS
  BY <1>v, ViewOfType, CursorOf
<1> DEFINE Good(i) == Well(g[i]) /\ ShiftsBy(c, s, g[i], i)
           Bad == {i \in 0 .. n : ~Good(i)}
<1>3. Bad = {}
  <2> SUFFICES ASSUME Bad # {} PROVE FALSE
    OBVIOUS
  <2>1. PICK i \in Bad : \A j \in Bad : i <= j
    <3>1. Bad \in SUBSET Nat
      OBVIOUS
    <3> HIDE DEF Bad
    <3> QED
      BY <3>1, LeastNumber
  <2>2. i # 0
    <3>1. SUFFICES ASSUME i = 0 PROVE FALSE
      OBVIOUS
    <3>2. g[i] = s
      BY <1>2, <2>1, <3>1
    <3>3. Shifted(c, v, p, k, i) = v
      BY <1>0, <3>1, ShiftedNone
    <3>4. ShiftsBy(c, s, g[i], i)
      BY <1>v, <3>2, <3>3 DEF ShiftsBy, Placing
    <3> QED
      BY <2>1, <3>2, <3>4
  <2>j. PICK j : j = i - 1
    OBVIOUS
  <2>3. j \in 0 .. n /\ j \notin Bad /\ j \in Nat /\ i = j + 1
    BY <2>1, <2>2, <2>j
  <2>t. PICK t, u : t = g[j] /\ u = g[i]
    OBVIOUS
  <2>4. Well(t) /\ ShiftsBy(c, s, t, j) /\ u = Moved(c, t)
    <3>1. g[i] = Moved(c, g[i - 1])
      BY <1>2, <2>1, <2>2
    <3> QED
      BY <2>3, <2>j, <2>t, <3>1
  <2>5. Well(u)
    BY <2>4, MovedWell
  <2>6. ShiftsBy(c, t, u, 1)
    BY <2>4, MovedShows
  <2>w. PICK w : w = ViewOf(t)
    OBVIOUS
  <2>7. w = Shifted(c, v, p, k, j) /\ t.x = k /\ t.y = p /\ Placing(s, t)
    BY <1>v, <2>4, <2>w DEF ShiftsBy
  <2>8. ViewOf(u) = Shifted(c, w, p, k, 1) /\ u.x = k /\ u.y = p /\ Placing(t, u)
    BY <2>6, <2>7, <2>w DEF ShiftsBy
  <2>9. Shifted(c, w, p, k, 1) = Shifted(c, v, p, k, i)
    BY <1>0, <2>3, <2>7, ShiftedMore
  <2>10. ShiftsBy(c, s, u, i)
    BY <1>v, <2>7, <2>8, <2>9 DEF ShiftsBy, Placing
  <2> QED
    BY <2>1, <2>5, <2>10, <2>t
<1>4. n \in 0 .. n
  OBVIOUS
<1> QED
  BY <1>1, <1>3, <1>4

----------------------------------------------------------------------------
\* Any character.

Regions(s, t) == /\ t.top \in Rows /\ t.bottom \in 1 .. LINES /\ t.top < t.bottom
                 /\ ViewOf(t) = ViewOf(s) /\ t.x = s.x /\ t.y = s.y
Shifts(s, t)  == \/ \E n \in 1 .. LINES : ShiftsBy("L", s, t, n) \/ ShiftsBy("M", s, t, n)
                 \/ \E n \in 1 .. COLS : ShiftsBy("P", s, t, n) \/ ShiftsBy("@", s, t, n)

Turns(s, t) == \/ Moves(s, t) \/ Feeds(s, t) \/ Puts(s, t) \/ Deletes(s, t) \/ Tabs(s, t)
               \/ FeedsBack(s, t) \/ Regions(s, t) \/ Erases(s, t) \/ Shifts(s, t)

\* Records that show the same.
Alike(s, t) == ViewOf(t) = ViewOf(s) /\ t.x = s.x /\ t.y = s.y /\ Placing(s, t)

\* Records that show the same turn into the same.
LEMMA TurnsFrom == ASSUME NEW r, NEW s, NEW t, Alike(r, s), Turns(s, t) PROVE Turns(r, t)
<1>0. /\ ViewOf(s) = ViewOf(r) /\ s.x = r.x /\ s.y = r.y /\ s.top = r.top /\ s.bottom = r.bottom
  BY DEF Alike, Placing
<1>1. FeedOf(s) = FeedOf(r) /\ FedOf(s) = FedOf(r)
  BY <1>0 DEF FeedOf, FedOf
<1>2. CASE Moves(s, t)
  BY <1>0, <1>2 DEF Moves, Placing, Turns
<1>3. CASE Feeds(s, t)
  BY <1>0, <1>1, <1>3 DEF Feeds, Placing, Turns
<1>4. CASE Puts(s, t)
  BY <1>0, <1>1, <1>4 DEF Puts, Placing, Turns
<1>5. CASE Deletes(s, t)
  BY <1>0, <1>5 DEF Deletes, Placing, Turns
<1>6. CASE Tabs(s, t)
  BY <1>0, <1>1, <1>6, Zenon DEF Tabs, Placing, Turns
<1>7. CASE FeedsBack(s, t)
  BY <1>0, <1>7 DEF FeedsBack, Placing, Turns
<1>8. CASE Regions(s, t)
  BY <1>0, <1>8 DEF Regions, Turns
<1>9. CASE Erases(s, t)
  <2>1. ErasedOf(s) = ErasedOf(r) /\ InLineOf(s) = InLineOf(r)
    BY <1>0, Zenon DEF ErasedOf, InLineOf
  <2>2. Erases(r, t)
    BY <1>0, <1>9, <2>1 DEF Erases, Placing
  <2> QED
    BY <2>2 DEF Turns
<1>10. CASE Shifts(s, t)
  <2>1. \A c, n : ShiftsBy(c, s, t, n) => ShiftsBy(c, r, t, n)
    BY <1>0 DEF ShiftsBy, Placing
  <2>2. Shifts(r, t)
    BY <1>10, <2>1 DEF Shifts
  <2> QED
    BY <2>2 DEF Turns
<1> QED
  BY <1>2, <1>3, <1>4, <1>5, <1>6, <1>7, <1>8, <1>9, <1>10 DEF Turns

LEMMA TurnsTo == ASSUME NEW s, NEW t, NEW u, Turns(s, t), Alike(t, u) PROVE Turns(s, u)
<1>0. /\ ViewOf(u) = ViewOf(t) /\ u.x = t.x /\ u.y = t.y /\ u.top = t.top /\ u.bottom = t.bottom
  BY DEF Alike, Placing
<1>2. CASE Moves(s, t)
  BY <1>0, <1>2 DEF Moves, Placing, Turns
<1>3. CASE Feeds(s, t)
  BY <1>0, <1>3 DEF Feeds, Placing, Turns
<1>4. CASE Puts(s, t)
  BY <1>0, <1>4 DEF Puts, Placing, Turns
<1>5. CASE Deletes(s, t)
  BY <1>0, <1>5 DEF Deletes, Placing, Turns
<1>6. CASE Tabs(s, t)
  BY <1>0, <1>6, Zenon DEF Tabs, Placing, Turns
<1>7. CASE FeedsBack(s, t)
  BY <1>0, <1>7 DEF FeedsBack, Placing, Turns
<1>8. CASE Regions(s, t)
  BY <1>0, <1>8 DEF Regions, Turns
<1>9. CASE Erases(s, t)
  BY <1>0, <1>9 DEF Erases, Placing, Turns
<1>10. CASE Shifts(s, t)
  <2>1. \A c, n : ShiftsBy(c, s, t, n) => ShiftsBy(c, s, u, n)
    BY <1>0 DEF ShiftsBy, Placing
  <2>2. Shifts(s, u)
    BY <1>10, <2>1 DEF Shifts
  <2> QED
    BY <2>2 DEF Turns
<1> QED
  BY <1>2, <1>3, <1>4, <1>5, <1>6, <1>7, <1>8, <1>9, <1>10 DEF Turns

\* A record that shows the same is a cursor that stays.
LEMMA AlikeTurns == ASSUME NEW s, Well(s), NEW t, Alike(s, t) PROVE Turns(s, t)
<1>1. Turns(s, s)
  BY StayShows DEF Turns
<1> QED
  BY <1>1, TurnsTo

LEMMA BesideAlike == ASSUME NEW s, NEW t, Beside(s, t) PROVE Alike(s, t)
BY BesideShows DEF Alike

\* The sequences, each one of Screen's operations.
LEMMA SaveTurns == ASSUME NEW s, Well(s) PROVE Turns(s, Save(s))
<1>u. PICK u : u = [s EXCEPT !.saved = [x |-> s.x, y |-> s.y]]
  OBVIOUS
<1>1. Beside(s, u)
  BY <1>u DEF Well, Record, Beside
<1>2. Turns(s, u)
  BY <1>1, BesideAlike, AlikeTurns
<1> QED
  BY <1>u, <1>2 DEF Save

LEMMA RestoreTurns == ASSUME NEW s, Well(s) PROVE Turns(s, Restore(s))
<1>1. s.saved \in [x : 0 .. COLS, y : 0 .. LINES - 1]
  BY DEF Well, Record
<1>2. s.saved.x \in 0 .. COLS /\ s.saved.y \in 0 .. LINES - 1
  BY <1>1
<1>3. s.saved.x \in Int /\ s.saved.y \in Int
  BY <1>2, Sizes
<1> QED
  BY <1>3, GotoxyShows DEF Restore, Turns

\* A region is set.
LEMMA RegionShows ==
    ASSUME NEW s, Well(s), NEW t \in 0 .. LINES - 1, NEW b \in 1 .. LINES, t < b
    PROVE  Regions(s, [s EXCEPT !.top = t, !.bottom = b])
<1>u. PICK u : u = [s EXCEPT !.top = t, !.bottom = b]
  OBVIOUS
<1>1. /\ u.top = t /\ u.bottom = b /\ u.x = s.x /\ u.y = s.y /\ u.origin = s.origin /\ u.mem = s.mem
  BY <1>u DEF Well, Record
<1> QED
  BY <1>1, <1>u DEF Regions, ViewOf, Rows

LEMMA SetRegionTurns ==
    ASSUME NEW s, Well(s), NEW p \in 0 .. Word - 1, NEW q \in 0 .. Word - 1
    PROVE  Turns(s, SetRegion(s, p, q))
<1>t. PICK t, b : t = FromOne(p) /\ b = IF q = 0 THEN LINES ELSE q
  OBVIOUS
<1>1. t \in Nat /\ b \in Nat /\ b >= 1
  BY <1>t, Sizes DEF FromOne
<1>2. CASE t < b /\ b <= LINES
  <2>1. t \in 0 .. LINES - 1 /\ b \in 1 .. LINES
    BY <1>1, <1>2, Sizes
  <2>2. Regions(s, [s EXCEPT !.top = t, !.bottom = b])
    BY <1>2, <2>1, RegionShows
  <2> QED
    BY <1>2, <1>t, <2>2 DEF SetRegion, Turns
<1>3. CASE ~(t < b /\ b <= LINES)
  <2>1. SetRegion(s, p, q) = s
    BY <1>3, <1>t DEF SetRegion
  <2> QED
    BY <2>1, StayShows DEF Turns
<1> QED
  BY <1>2, <1>3

LEMMA GotoxyTurns ==
    ASSUME NEW s, Well(s), NEW nx \in Int, NEW ny \in Int
    PROVE  Turns(s, Gotoxy(s, nx, ny))
BY GotoxyShows DEF Turns

LEMMA CsiTurns ==
    ASSUME NEW s, Well(s), NEW p
    PROVE  Turns(s, CsiJ(s, p)) /\ Turns(s, CsiK(s, p))
<1>1. Turns(s, s)
  BY StayShows DEF Turns
<1>2. Erases(s, CsiJ(s, p)) \/ CsiJ(s, p) = s
  BY CsiJShows
<1>3. Erases(s, CsiK(s, p)) \/ CsiK(s, p) = s
  BY CsiKShows
<1> QED
  BY <1>1, <1>2, <1>3 DEF Turns

\* Lines and characters, as many as the parameter says.
LEMMA TimesTurns ==
    ASSUME NEW s, Well(s), NEW c, NEW n \in Nat,
           \/ c \in {"L", "M"} /\ n \in 1 .. LINES
           \/ c \in {"P", "@"} /\ n \in 1 .. COLS
    PROVE  Turns(s, Times(n, c, s))
<1>1. ShiftsBy(c, s, Times(n, c, s), n)
  BY TimesShows DEF Repeated
<1>2. Shifts(s, Times(n, c, s))
  BY <1>1 DEF Shifts
<1> QED
  BY <1>2 DEF Turns

\* A sequence's end, its parameters, and its beginning.
LEMMA GotParsTurns == ASSUME NEW r, Well(r), NEW c PROVE Turns(r, GotPars(r, c))
<1>p. PICK p, q : p = r.par[0] /\ q = r.par[1]
  OBVIOUS
<1>1. p \in 0 .. Word - 1 /\ q \in 0 .. Word - 1
  <2>1. 0 \in 0 .. NPAR - 1 /\ 1 \in 0 .. NPAR - 1
    BY Sizes
  <2> QED
    BY <1>p, <2>1 DEF Well, Record
<1>s. PICK s : s = [r EXCEPT !.state = "normal", !.npar = 0, !.par = NoPar, !.ques = FALSE]
  OBVIOUS
<1>2. Well(s) /\ Alike(r, s)
  <2>1. 0 \in 0 .. NPAR - 1 /\ "normal" \in Modes
    BY Sizes DEF Modes
  <2>2. s \in Record /\ Beside(r, s)
    BY <1>s, <2>1, NoParType DEF Well, Record, Beside
  <2> QED
    BY <2>2, BesideWell, BesideAlike
<1>3. s.x \in Int /\ s.y \in Int /\ Turns(s, s)
  BY <1>2, CursorOf, StayShows DEF Turns
<1>n. PICK n : n = AtLeastOne(p)
  OBVIOUS
<1>4. n \in Int /\ FromOne(p) \in Int /\ FromOne(q) \in Int /\ OneOffNone(p) \in Int
  BY <1>1, <1>n, Sizes DEF AtLeastOne, FromOne, OneOffNone
<1>5. /\ Turns(s, Gotoxy(s, FromOne(p), s.y)) /\ Turns(s, Gotoxy(s, s.x, OneOffNone(p)))
      /\ Turns(s, Gotoxy(s, FromOne(q), FromOne(p)))
  BY <1>2, <1>3, <1>4, GotoxyTurns
<1>6. /\ Turns(s, Gotoxy(s, s.x, s.y - n)) /\ Turns(s, Gotoxy(s, s.x, s.y + n))
      /\ Turns(s, Gotoxy(s, s.x + n, s.y)) /\ Turns(s, Gotoxy(s, s.x - n, s.y))
  <2>1. s.y - n \in Int /\ s.y + n \in Int /\ s.x + n \in Int /\ s.x - n \in Int
    BY <1>3, <1>4
  <2> QED
    BY <1>2, <1>3, <2>1, GotoxyTurns
<1>7. Turns(s, Gotoxy(s, 0, s.y + n)) /\ Turns(s, Gotoxy(s, 0, s.y - n))
  <2>1. s.y - n \in Int /\ s.y + n \in Int /\ 0 \in Int
    BY <1>3, <1>4
  <2> QED
    BY <1>2, <2>1, GotoxyTurns
<1>8. Turns(s, CsiJ(s, p)) /\ Turns(s, CsiK(s, p)) /\ Turns(s, Save(s)) /\ Turns(s, Restore(s))
  BY <1>2, CsiTurns, SaveTurns, RestoreTurns
<1>9. c \in {"L", "M"} => Turns(s, Times(Clipped(p, LINES), c, s))
  <2>1. Clipped(p, LINES) \in Nat /\ Clipped(p, LINES) \in 1 .. LINES
    BY <1>1, Sizes DEF Clipped
  <2> QED
    BY <1>2, <2>1, TimesTurns
<1>10. c \in {"P", "@"} => Turns(s, Times(Clipped(p, COLS), c, s))
  <2>1. Clipped(p, COLS) \in Nat /\ Clipped(p, COLS) \in 1 .. COLS
    BY <1>1, Sizes DEF Clipped
  <2> QED
    BY <1>2, <2>1, TimesTurns
<1>11. Turns(s, SetRegion(s, p, q))
  BY <1>1, <1>2, SetRegionTurns
<1> DEFINE G == CASE r.ques  -> s
                  [] c = "G" -> Gotoxy(s, FromOne(p), s.y)
                  [] c = "A" -> Gotoxy(s, s.x, s.y - n)
                  [] c = "B" -> Gotoxy(s, s.x, s.y + n)
                  [] c = "C" -> Gotoxy(s, s.x + n, s.y)
                  [] c = "D" -> Gotoxy(s, s.x - n, s.y)
                  [] c = "E" -> Gotoxy(s, 0, s.y + n)
                  [] c = "F" -> Gotoxy(s, 0, s.y - n)
                  [] c = "d" -> Gotoxy(s, s.x, OneOffNone(p))
                  [] c = "H" -> Gotoxy(s, FromOne(q), FromOne(p))
                  [] c = "J" -> CsiJ(s, p)
                  [] c = "K" -> CsiK(s, p)
                  [] c \in {"L", "M"} -> Times(Clipped(p, LINES), c, s)
                  [] c \in {"P", "@"} -> Times(Clipped(p, COLS), c, s)
                  [] c = "r" -> SetRegion(s, p, q)
                  [] c = "s" -> Save(s)
                  [] c = "u" -> Restore(s)
                  [] OTHER   -> s
<1>12. Turns(s, G)
  BY <1>3, <1>5, <1>6, <1>7, <1>8, <1>9, <1>10, <1>11
<1>13. GotPars(r, c) = G
  BY <1>p, <1>s, <1>n, Zenon DEF GotPars
<1>14. Turns(s, GotPars(r, c))
  BY <1>12, <1>13
<1> QED
  BY <1>2, <1>14, TurnsFrom

LEMMA GetParsTurns == ASSUME NEW s, Well(s), NEW c PROVE Turns(s, GetPars(s, c))
<1>1. CASE c = ";" /\ s.npar < NPAR - 1
  <2>u. PICK u : u = [s EXCEPT !.npar = s.npar + 1]
    OBVIOUS
  <2>1. Beside(s, u)
    BY <2>u DEF Well, Record, Beside
  <2>2. GetPars(s, c) = u
    BY <1>1, <2>u DEF GetPars
  <2> QED
    BY <2>1, <2>2, BesideAlike, AlikeTurns
<1>2. CASE ~(c = ";" /\ s.npar < NPAR - 1) /\ c \in DOMAIN Digit
  <2>p. PICK p : p = [s.par EXCEPT ![s.npar] = (10 * s.par[s.npar] + Digit[c]) % Word]
    OBVIOUS
  <2>u. PICK u : u = [s EXCEPT !.par = p]
    OBVIOUS
  <2>1. Beside(s, u)
    BY <2>u DEF Well, Record, Beside
  <2>2. GetPars(s, c) = u
    BY <1>2, <2>p, <2>u DEF GetPars
  <2> QED
    BY <2>1, <2>2, BesideAlike, AlikeTurns
<1>3. CASE ~(c = ";" /\ s.npar < NPAR - 1) /\ c \notin DOMAIN Digit
  BY <1>3, GotParsTurns DEF GetPars
<1> QED
  BY <1>1, <1>2, <1>3

LEMMA StateTurns == ASSUME NEW s, Well(s), NEW st PROVE Turns(s, [s EXCEPT !.state = st])
<1>u. PICK u : u = [s EXCEPT !.state = st]
  OBVIOUS
<1>1. Beside(s, u)
  BY <1>u DEF Well, Record, Beside
<1>2. Turns(s, u)
  BY <1>1, BesideAlike, AlikeTurns
<1> QED
  BY <1>u, <1>2

\* Characters outside of sequences, and behind an ESC.
LEMMA NormalTurns == ASSUME NEW s, Well(s), NEW c PROVE Turns(s, Normal(s, c))
<1>1. Turns(s, [s EXCEPT !.state = "esc"])
  BY StateTurns
<1>2. Turns(s, Lf(s)) /\ Turns(s, Cr(s)) /\ Turns(s, Bs(s)) /\ Turns(s, Tab(s)) /\ Turns(s, Put(s))
  BY LfShows, CrShows, BsShows, TabShows, PutShows DEF Turns
<1>3. Turns(s, Del(s))
  <2>1. CASE s.x = 0
    BY <2>1, StayShows DEF Del, Turns
  <2>2. CASE s.x # 0
    BY <2>2, DelShows DEF Turns
  <2> QED
    BY <2>1, <2>2
<1> QED
  BY <1>1, <1>2, <1>3 DEF Normal

LEMMA EscapeTurns == ASSUME NEW s, Well(s), NEW c PROVE Turns(s, Escape(s, c))
<1>t. PICK t : t = [s EXCEPT !.state = "normal"]
  OBVIOUS
<1>1. Well(t) /\ Alike(s, t)
  <2>1. Beside(s, t)
    BY <1>t DEF Well, Record, Beside
  <2> QED
    BY <1>t, <2>1, StateWell, BesideAlike DEF Modes
<1>2. /\ Turns(t, [t EXCEPT !.state = "square"]) /\ Turns(t, [t EXCEPT !.state = "setterm"])
      /\ Turns(t, [t EXCEPT !.state = "deaf"])
  BY <1>1, StateTurns
<1>3. Turns(t, Gotoxy(t, 0, t.y + 1))
  <2>1. t.y + 1 \in Int /\ 0 \in Int
    BY <1>1, CursorOf
  <2> QED
    BY <1>1, <2>1, GotoxyTurns
<1>4. Turns(t, Ri(t)) /\ Turns(t, Lf(t)) /\ Turns(t, Save(t)) /\ Turns(t, Restore(t)) /\ Turns(t, t)
  BY <1>1, RiShows, LfShows, SaveTurns, RestoreTurns, StayShows DEF Turns
<1>5. Turns(t, [t EXCEPT !.top = 0, !.bottom = LINES])
  <2>1. 0 \in 0 .. LINES - 1 /\ LINES \in 1 .. LINES /\ 0 < LINES
    BY Sizes
  <2> QED
    BY <1>1, <2>1, RegionShows DEF Turns
<1> DEFINE E == CASE c = "[" -> [t EXCEPT !.state = "square"]
                  [] c = "E" -> Gotoxy(t, 0, t.y + 1)
                  [] c = "M" -> Ri(t)
                  [] c = "D" -> Lf(t)
                  [] c = "7" -> Save(t)
                  [] c = "8" -> Restore(t)
                  [] c = "P" -> [t EXCEPT !.state = "setterm"]
                  [] c = "c" -> [t EXCEPT !.top = 0, !.bottom = LINES]
                  [] c \in {"(", "#"} -> [t EXCEPT !.state = "deaf"]
                  [] OTHER -> t
<1>6. Turns(t, E)
  BY <1>2, <1>3, <1>4, <1>5
<1>7. Escape(s, c) = E
  BY <1>t, Zenon DEF Escape
<1>8. Turns(t, Escape(s, c))
  BY <1>6, <1>7
<1> QED
  BY <1>1, <1>8, TurnsFrom

LEMMA SquareTurns == ASSUME NEW s, Well(s), NEW c PROVE Turns(s, Square(s, c))
<1>t. PICK t : t = [s EXCEPT !.npar = 0, !.par = NoPar, !.state = "getpars", !.ques = (c = "?")]
  OBVIOUS
<1>1. Well(t) /\ Alike(s, t)
  <2>1. 0 \in 0 .. NPAR - 1 /\ "getpars" \in Modes /\ (c = "?") \in BOOLEAN
    BY Sizes DEF Modes
  <2>2. t \in Record /\ Beside(s, t)
    BY <1>t, <2>1, NoParType DEF Well, Record, Beside
  <2> QED
    BY <2>2, BesideWell, BesideAlike
<1>u. PICK u : u = [t EXCEPT !.state = "deaf", !.ques = s.ques]
  OBVIOUS
<1>2. Alike(t, u)
  <2>1. Beside(t, u)
    BY <1>1, <1>u DEF Well, Record, Beside
  <2> QED
    BY <2>1, BesideAlike
<1>3. Turns(t, u) /\ Turns(t, t) /\ Turns(t, GetPars(t, c))
  BY <1>1, <1>2, AlikeTurns, StayShows, GetParsTurns DEF Turns
<1>4. Square(s, c) = IF c = "[" THEN u ELSE IF c = "?" THEN t ELSE GetPars(t, c)
  BY <1>t, <1>u, Zenon DEF Square
<1>5. Turns(t, Square(s, c))
  BY <1>3, <1>4
<1> QED
  BY <1>1, <1>5, TurnsFrom

\* Any character, in any state.
LEMMA WrittenTurns == ASSUME NEW s, Well(s), NEW c PROVE Turns(s, Written(s, c))
<1>1. s.state \in Modes
  BY DEF Well, Record
<1>2. Turns(s, [s EXCEPT !.state = "normal"]) /\ Turns(s, s)
  BY StateTurns, StayShows DEF Turns
<1>3. /\ Turns(s, Normal(s, c)) /\ Turns(s, Escape(s, c)) /\ Turns(s, Square(s, c))
      /\ Turns(s, GetPars(s, c))
  BY NormalTurns, EscapeTurns, SquareTurns, GetParsTurns
<1> QED
  BY <1>1, <1>2, <1>3 DEF Written, Modes

----------------------------------------------------------------------------
\* The refinement.

\* The record's view is the grid.
LEMMA GridShown == Grid = ViewOf(Here)
BY DEF Grid, Here, ViewOf, View, Rows, Cols

\* A step that does to the records what one of Screen's operations does is one.
LEMMA TurnShown ==
    ASSUME Inv, NEW s, s = Here, NEW t, Well(t), Turns(s, t), Grid' = ViewOf(t),
           x' = t.x, y' = t.y, top' = t.top, bottom' = t.bottom
    PROVE  Shown!Next
<1>g. PICK g, h : g = ViewOf(s) /\ h = ViewOf(t)
  OBVIOUS
<1>0. /\ Grid = g /\ Grid' = h /\ s.x = x /\ s.y = y /\ s.top = top /\ s.bottom = bottom
      /\ g \in Grids /\ y \in Rows
  <2>1. Well(s)
    BY DEF Inv
  <2>2. s.x = x /\ s.y = y /\ s.top = top /\ s.bottom = bottom
    BY DEF Here
  <2> QED
    BY <1>g, <2>1, <2>2, GridShown, ViewOfType, CursorOf
<1>1. FeedOf(s) = Shown!Feed(g) /\ FedOf(s) = Shown!Fed
  BY <1>0, <1>g DEF FeedOf, FedOf, Shown!Feed, Shown!Fed
<1>2. CASE Moves(s, t)
  <2>1. Shown!Move
    BY <1>0, <1>2, <1>g DEF Moves, Placing, Shown!Move, Shown!Row, Rows
  <2> QED
    BY <2>1 DEF Shown!Next
<1>3. CASE Feeds(s, t)
  <2>1. Shown!LineFeed
    BY <1>0, <1>1, <1>3, <1>g DEF Feeds, Placing, Shown!LineFeed
  <2> QED
    BY <2>1 DEF Shown!Next
<1>4. CASE Puts(s, t)
  <2>1. Shown!Put
    BY <1>0, <1>1, <1>4, <1>g DEF Puts, Placing, Shown!Put
  <2> QED
    BY <2>1 DEF Shown!Next
<1>5. CASE Deletes(s, t)
  <2>1. Shown!Delete
    BY <1>0, <1>5, <1>g DEF Deletes, Placing, Shown!Delete
  <2> QED
    BY <2>1 DEF Shown!Next
<1>6. CASE Tabs(s, t)
  <2>1. Shown!Tab
    BY <1>0, <1>1, <1>6, <1>g DEF Tabs, Placing, Shown!Tab
  <2> QED
    BY <2>1 DEF Shown!Next
<1>7. CASE FeedsBack(s, t)
  <2>1. Shown!ReverseFeed
    BY <1>0, <1>7, <1>g DEF FeedsBack, Placing, Shown!ReverseFeed
  <2> QED
    BY <2>1 DEF Shown!Next
<1>8. CASE Regions(s, t)
  <2>1. Shown!Region
    BY <1>0, <1>8, <1>g DEF Regions, Shown!Region, Shown!Row, Rows
  <2> QED
    BY <2>1 DEF Shown!Next
<1>9. CASE Erases(s, t)
  <2>1. PICK e \in ErasedOf(s) \cup InLineOf(s) : h = Wiped(g, e)
    BY <1>9, <1>g DEF Erases
  <2>2. ErasedOf(s) = Shown!Erased
    BY <1>0, Zenon DEF ErasedOf, Shown!Erased, Cells, Rows, Cols, At, Shown!Cell, Shown!Row, Shown!Col,
                Shown!Place
  <2>3. e \in InLineOf(s) => e \in Shown!ErasedInLine
    <3>1. SUFFICES ASSUME e \in InLineOf(s) PROVE e \in Shown!ErasedInLine
      OBVIOUS
    <3>2. PICK d \in ErasedOf(s) : e = {p \in d : p[1] = s.y}
      BY <3>1 DEF InLineOf
    <3>3. e = {p \in d : p[1] = y}
      BY <1>0, <3>2
    <3>4. d \in Shown!Erased
      BY <2>2, <3>2
    <3> QED
      BY <3>3, <3>4 DEF Shown!ErasedInLine
  <2>4. Wiped(g, e) = [r \in Shown!Row |-> [c \in Shown!Col |->
                          IF <<r, c>> \in e THEN Blank ELSE g[r][c]]]
    BY DEF Wiped, Rows, Cols, Shown!Row, Shown!Col
  <2>5. t.x = s.x /\ t.y = s.y /\ t.top = s.top /\ t.bottom = s.bottom
    BY <1>9 DEF Erases, Placing
  <2>6. Shown!Erase
    BY <1>0, <2>1, <2>2, <2>3, <2>4, <2>5 DEF Shown!Erase
  <2> QED
    BY <2>6 DEF Shown!Next
<1>10. CASE Shifts(s, t)
  <2>1. ASSUME NEW c, NEW n, ShiftsBy(c, s, t, n)
        PROVE  /\ h = Shifted(c, g, y, x, n)
               /\ UNCHANGED <<x, y, top, bottom>>
    BY <1>0, <1>g, <2>1 DEF ShiftsBy, Placing
  <2>2. ASSUME NEW n \in 1 .. LINES, ShiftsBy("L", s, t, n) \/ ShiftsBy("M", s, t, n)
        PROVE  Shown!Lines
    <3>1. \/ h = Shown!Down(g, y, LINES, n)
          \/ h = Shown!Up(g, y, LINES, n)
      BY <2>1, <2>2 DEF Shifted
    <3>2. UNCHANGED <<x, y, top, bottom>>
      BY <2>1, <2>2
    <3> QED
      BY <1>0, <3>1, <3>2 DEF Shown!Lines
  <2>3. ASSUME NEW n \in 1 .. COLS, ShiftsBy("P", s, t, n) \/ ShiftsBy("@", s, t, n)
        PROVE  Shown!Chars
    <3>1. \/ h = LineSet(g, y, LeftIn(g[y], x, n))
          \/ h = LineSet(g, y, RightIn(g[y], x, n))
      BY <2>1, <2>3 DEF Shifted
    <3>2. UNCHANGED <<x, y, top, bottom>>
      BY <2>1, <2>3
    <3>3. /\ LeftIn(g[y], x, n) = Shown!Left(n)
          /\ RightIn(g[y], x, n) = Shown!Right(n)
      BY <1>0 DEF LeftIn, RightIn, Shown!Left, Shown!Right, Shown!Col, Cols
    <3>4. \A l : LineSet(g, y, l) = [g EXCEPT ![y] = l]
      BY <1>0 DEF LineSet, Grids
    <3> QED
      BY <1>0, <3>1, <3>2, <3>3, <3>4 DEF Shown!Chars
  <2>4. Shown!Lines \/ Shown!Chars
    BY <1>10, <2>2, <2>3 DEF Shifts
  <2> QED
    BY <2>4 DEF Shown!Next
<1> QED
  BY <1>2, <1>3, <1>4, <1>5, <1>6, <1>7, <1>8, <1>9, <1>10 DEF Turns

\* A blank screen is shown at first.
LEMMA InitShown == Init => Shown!Init
<1> SUFFICES ASSUME Init PROVE Shown!Init
  OBVIOUS
<1>1. /\ x \in 0 .. COLS - 1 /\ y \in 0 .. LINES - 1 /\ origin = 0
      /\ top = 0 /\ bottom = LINES
      /\ mem = [a \in Address |-> IF a \in Video THEN Blank ELSE Beyond]
  BY DEF Init
<1>2. Fits(0)
  BY Sizes DEF Fits
<1>3. ASSUME NEW r \in Rows, NEW c \in Cols PROVE mem[origin + r * COLS + c] = Blank
  <2>a. PICK a : a = origin + r * COLS + c
    OBVIOUS
  <2>1. a \in Address /\ a \in Video
    BY <1>1, <1>2, <2>a, PlaceInVideo
  <2> QED
    BY <1>1, <2>a, <2>1
<1>4. Grid = [r \in Rows |-> [c \in Cols |-> Blank]]
  BY <1>3 DEF Grid, Rows, Cols
<1>5. Grid \in [Shown!Row -> [Shown!Col -> {Blank}]]
  BY <1>4 DEF Shown!Row, Shown!Col, Rows, Cols
<1>6. x \in 0 .. COLS /\ y \in Shown!Row
  BY <1>1, Sizes DEF Shown!Row
<1> QED
  BY <1>1, <1>5, <1>6 DEF Shown!Init

LEMMA StepShown == Inv /\ [Next]_vars => [Shown!Next]_<<Grid, x, y, top, bottom>>
<1> SUFFICES ASSUME Inv, [Next]_vars PROVE [Shown!Next]_<<Grid, x, y, top, bottom>>
  OBVIOUS
<1>1. ASSUME NEW c \in Char, NEW last \in BOOLEAN, ConWrite(c, last) PROVE Shown!Next
  <2>s. PICK r, s : r = Here /\ s = Written(r, c)
    OBVIOUS
  <2>1. Well(r) /\ Well(s) /\ Turns(r, s)
    BY <2>s, WrittenWell, WrittenTurns DEF Inv
  <2>t. PICK t : t = IF last THEN Gotoxy(s, s.x, s.y) ELSE s
    OBVIOUS
  <2>2. Well(t) /\ Turns(r, t)
    <3>1. s.x \in Int /\ s.y \in Int
      BY <2>1, CursorOf
    <3>g. PICK u : u = Gotoxy(s, s.x, s.y)
      OBVIOUS
    <3>2. Well(u) /\ Alike(s, u)
      BY <2>1, <3>1, <3>g, GotoxyWell, SetAnew DEF Alike
    <3>3. Turns(r, u)
      BY <2>1, <3>2, TurnsTo
    <3> QED
      BY <2>1, <2>t, <3>2, <3>3, <3>g
  <2>3. Becomes(t)
    BY <1>1, <2>s, <2>t DEF ConWrite
  <2>4. x' = t.x /\ y' = t.y /\ top' = t.top /\ bottom' = t.bottom /\ mem' = t.mem /\ origin' = t.origin
    BY <2>3 DEF Becomes
  <2>5. Grid' = ViewOf(t)
    BY <2>4 DEF Grid, ViewOf, View, Rows, Cols
  <2> QED
    BY <2>2, <2>4, <2>5, <2>s, TurnShown
<1>2. ASSUME UNCHANGED vars PROVE UNCHANGED <<Grid, x, y, top, bottom>>
  BY <1>2 DEF vars, Grid
<1> QED
  BY <1>1, <1>2 DEF Next

\* Whatever the size of the screen and of the memory behind it, the user sees a
\* screen: every character has one of Screen's effects on what the window shows,
\* wherever the window is, and lines and characters inserted or deleted one by one
\* (csi_L, csi_M, csi_P, csi_at, console.c:350-404) are moved by their number.
THEOREM ShowsScreenTheorem == Spec => ShowsScreen
<1>1. Spec => []Inv
  BY ConsoleInvariant
<1> QED
  BY <1>1, InitShown, StepShown, PTL DEF Spec, ShowsScreen, Shown!Spec
=============================================================================
