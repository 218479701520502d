------------------------------- MODULE Screen -------------------------------
(***************************************************************************)
(* What the user sees of the console: a grid of cells, a cursor that may   *)
(* stand one place behind a line's end, and the region of lines that line  *)
(* feeds scroll.  Each operation is given by its effect on the grid alone, *)
(* lines and characters that are moved by n places in one piece.  Console  *)
(* is shown to implement it on a video memory it scrolls through.          *)
(***************************************************************************)
EXTENDS Naturals

CONSTANTS COLS, LINES, TabStop, Blank, Ink

VARIABLES grid, x, y, top, bottom

Row  == 0 .. LINES - 1
Col  == 0 .. COLS - 1
Cell == Row \X Col
BlankRow == [c \in Col |-> Blank]

Init == /\ grid \in [Row -> [Col -> {Blank}]]
        /\ x \in 0 .. COLS /\ y \in Row
        /\ top = 0 /\ bottom = LINES

\* The lines t .. b-1 move up, or down, by n.
Up(g, t, b, n) == [r \in Row |-> IF r < t \/ r >= b THEN g[r]
                                 ELSE IF r + n < b THEN g[r + n] ELSE BlankRow]
Down(g, t, b, n) == [r \in Row |-> IF r < t \/ r >= b THEN g[r]
                                   ELSE IF r >= t + n THEN g[r - n] ELSE BlankRow]

\* A line feed to the next line, or a scroll at the region's end and below it.
Feed(g) == IF y + 1 < bottom THEN g ELSE Up(g, top, bottom, 1)
Fed     == IF y + 1 < bottom THEN y + 1 ELSE y

LineFeed == grid' = Feed(grid) /\ y' = Fed /\ UNCHANGED <<x, top, bottom>>

ReverseFeed == /\ IF y > top THEN y' = y - 1 /\ UNCHANGED grid
                  ELSE grid' = Down(grid, top, bottom, 1) /\ UNCHANGED y
               /\ UNCHANGED <<x, top, bottom>>

\* A character, on the next line if this one is full.
Put == /\ IF x < COLS
          THEN grid' = [grid EXCEPT ![y][x] = Ink] /\ x' = x + 1 /\ UNCHANGED y
          ELSE grid' = [Feed(grid) EXCEPT ![Fed][0] = Ink] /\ x' = 1 /\ y' = Fed
       /\ UNCHANGED <<top, bottom>>

\* A tab: on to the next tab stop, or as far on the next line.
Tab == LET to == x + TabStop - (x % TabStop)
       IN  /\ IF to <= COLS THEN x' = to /\ UNCHANGED <<grid, y>>
              ELSE grid' = Feed(grid) /\ y' = Fed /\ x' = to - COLS
           /\ UNCHANGED <<top, bottom>>

Delete == /\ x > 0 /\ x' = x - 1
          /\ grid' = [grid EXCEPT ![y][x - 1] = Blank]
          /\ UNCHANGED <<y, top, bottom>>

Move == x' \in 0 .. COLS /\ y' \in Row /\ UNCHANGED <<grid, top, bottom>>

Region == /\ top' \in Row /\ bottom' \in 1 .. LINES /\ top' < bottom'
          /\ UNCHANGED <<grid, x, y>>

\* The cells before the cursor, from it on, or all: on the screen or in its line.
Place(r, c) == r * COLS + c
Erased == {{p \in Cell : Place(p[1], p[2]) >= Place(y, x)},
           {p \in Cell : Place(p[1], p[2]) < Place(y, x)}, Cell}
ErasedInLine == {{p \in e : p[1] = y} : e \in Erased}

Erase == /\ \E e \in Erased \cup ErasedInLine :
                grid' = [r \in Row |-> [c \in Col |-> IF <<r, c>> \in e THEN Blank ELSE grid[r][c]]]
         /\ UNCHANGED <<x, y, top, bottom>>

\* n lines inserted or deleted at the cursor's line, whatever the region.
Lines == /\ \E n \in 1 .. LINES : \/ grid' = Up(grid, y, LINES, n)
                                  \/ grid' = Down(grid, y, LINES, n)
         /\ UNCHANGED <<x, y, top, bottom>>

\* n characters inserted or deleted at the cursor.
Right(n) == [c \in Col |-> IF c < x THEN grid[y][c] ELSE IF c - n >= x THEN grid[y][c - n] ELSE Blank]
Left(n)  == [c \in Col |-> IF c < x THEN grid[y][c] ELSE IF c + n < COLS THEN grid[y][c + n] ELSE Blank]

Chars == /\ \E n \in 1 .. COLS : \/ grid' = [grid EXCEPT ![y] = Right(n)]
                                 \/ grid' = [grid EXCEPT ![y] = Left(n)]
         /\ UNCHANGED <<x, y, top, bottom>>

Next == Move \/ LineFeed \/ Put \/ Delete \/ Tab \/ ReverseFeed \/ Region \/ Erase \/ Lines \/ Chars

Spec == Init /\ [][Next]_<<grid, x, y, top, bottom>>
============================================================================
