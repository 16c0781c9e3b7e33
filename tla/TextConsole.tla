----------------------------- MODULE TextConsole -----------------------------
(***************************************************************************)
(* One text panel of the Linux launcher (hw_bringup/ps_linux_boot.c): the  *)
(* HDMI console hdmi_console_*, and the LCD console lcd_console_*, which   *)
(* is the same code over a smaller screen.                                 *)
(*                                                                         *)
(* The launcher keeps the screen in shadow arrays (text, attr) and copies  *)
(* the words it changed into the panel's memory (shownText, shownAttr): a  *)
(* text word holds 4 cells, an attribute word 8.  Bytes are ASCII codes.   *)
(* A CSI number is a u32: it wraps modulo Word (2^32 in the code).  A tab  *)
(* is a loop that prints spaces, so it is several steps here.              *)
(***************************************************************************)
EXTENDS Naturals

CONSTANTS
    Cols, Rows,   \* the size of the screen: 240 x 67 (HDMI), 60 x 17 (LCD)
    Word,         \* 2^32
    Bytes         \* the bytes the stream may hold

Cells == Cols * Rows
Cell == 0 .. Cells - 1

\* What a panel has to be like: whole text words, and CSI numbers that reach
\* past the screen.
Geometry ==
    /\ Cols \in Nat \ {0}
    /\ Rows \in Nat \ {0}
    /\ Cells \in Nat /\ Cells % 4 = 0
    /\ Word \in Nat /\ Word > Cols /\ Word > Rows
    /\ Bytes \subseteq 0 .. 255 /\ 32 \in Bytes

VARIABLES
    con,   \* the statics of the console and the panel's memory
    tab    \* putc1 is inside the loop that expands a tab

vars == <<con, tab>>

Space == 32
Escape == 27
Tab == 9
Dot == 46
MaxParams == 4
Plain == 7        \* the attribute 0x07

Glyph == 32 .. 126
Attr == 0 .. 15

Console ==
    [text : [Cell -> Glyph], attr : [Cell -> Attr],
     shownText : [Cell -> Glyph], shownAttr : [Cell -> Attr],
     row : 0 .. Rows - 1, col : 0 .. Cols - 1, pen : Attr,
     esc : {"none", "esc", "csi"},
     params : [0 .. MaxParams - 1 -> 0 .. Word - 1], count : 0 .. MaxParams,
     value : 0 .. Word - 1, have : BOOLEAN]

(***************************************************************************)
(* Painting.  The last attribute word of a panel whose cells are not a     *)
(* multiple of 8 also takes nibbles from past the end of the shadow array; *)
(* they land past the last cell, which no panel shows, and are left out.   *)
(***************************************************************************)
WriteWords(c, words) ==
    [c EXCEPT
        !.shownText = [i \in Cell |->
            IF i \div 4 \in words THEN c.text[i] ELSE c.shownText[i]],
        !.shownAttr = [i \in Cell |->
            IF \E w \in words : i \div 8 = (w * 4) \div 8
            THEN c.attr[i] ELSE c.shownAttr[i]]]

Repaint(c) == WriteWords(c, 0 .. (Cells \div 4) - 1)

ClearShadow(c) ==
    [c EXCEPT !.text = [i \in Cell |-> Space], !.attr = [i \in Cell |-> Plain],
              !.row = 0, !.col = 0, !.pen = Plain, !.esc = "none"]

CellOf(row, col) == row * Cols + col

Scroll(c) ==
    Repaint([c EXCEPT
        !.text = [i \in Cell |-> IF i + Cols < Cells THEN c.text[i + Cols] ELSE Space],
        !.attr = [i \in Cell |-> IF i + Cols < Cells THEN c.attr[i + Cols] ELSE c.pen],
        !.row = Rows - 1,
        !.col = 0])

Newline(c) ==
    IF c.row + 1 >= Rows THEN Scroll(c)
    ELSE [c EXCEPT !.col = 0, !.row = @ + 1]

PutCell(c, row, col, ch) ==
    WriteWords([c EXCEPT !.text[CellOf(row, col)] = ch,
                         !.attr[CellOf(row, col)] = c.pen],
               {CellOf(row, col) \div 4})

ClearCellRange(c, start, endCell) ==
    LET last == IF endCell > Cells THEN Cells ELSE endCell IN
    IF start >= Cells \/ start >= last THEN c
    ELSE WriteWords([c EXCEPT
             !.text = [i \in Cell |-> IF i \in start .. last - 1 THEN Space ELSE c.text[i]],
             !.attr = [i \in Cell |-> IF i \in start .. last - 1 THEN c.pen ELSE c.attr[i]]],
             (start \div 4) .. ((last - 1) \div 4))

(***************************************************************************)
(* Editing the cursor's row: @, P and X.                                   *)
(***************************************************************************)
(* Mutant: the loop over the words stops one early.                        *)
RewriteRowWords_short(c, row, startCol) ==
    WriteWords(c, (CellOf(row, startCol) \div 4) .. (CellOf(row, Cols - 1) \div 4) - 1)

RewriteRowWords(c, row, startCol) ==
    WriteWords(c, (CellOf(row, startCol) \div 4) .. (CellOf(row, Cols - 1) \div 4))

CursorOutside(c) == c.row >= Rows \/ c.col >= Cols

RowCount(c, count) ==
    LET n == IF count = 0 THEN 1 ELSE count
    IN  IF n > Cols - c.col THEN Cols - c.col ELSE n

InsertCells(c, count) ==
    LET n == RowCount(c, count)
        first == CellOf(c.row, c.col)
        past == CellOf(c.row, Cols)
        Moved(old, blank) == [i \in Cell |->
            IF i < first \/ i >= past THEN old[i]
            ELSE IF i >= first + n THEN old[i - n] ELSE blank]
    IN  IF CursorOutside(c) THEN c
        ELSE RewriteRowWords([c EXCEPT !.text = Moved(c.text, Space),
                                       !.attr = Moved(c.attr, c.pen)], c.row, c.col)

(* Mutant: the row is closed up by one cell less than it was opened.       *)
DeleteCells_short(c, count) ==
    LET n == RowCount(c, count)
        first == CellOf(c.row, c.col)
        past == CellOf(c.row, Cols)
        Moved(old, blank) == [i \in Cell |->
            IF i < first \/ i >= past THEN old[i]
            ELSE IF i + n + 1 < past THEN old[i + n] ELSE blank]
    IN  RewriteRowWords([c EXCEPT !.text = Moved(c.text, Space),
                                  !.attr = Moved(c.attr, c.pen)], c.row, c.col)

DeleteCells(c, count) ==
    LET n == RowCount(c, count)
        first == CellOf(c.row, c.col)
        past == CellOf(c.row, Cols)
        Moved(old, blank) == [i \in Cell |->
            IF i < first \/ i >= past THEN old[i]
            ELSE IF i + n < past THEN old[i + n] ELSE blank]
    IN  IF CursorOutside(c) THEN c
        ELSE RewriteRowWords([c EXCEPT !.text = Moved(c.text, Space),
                                       !.attr = Moved(c.attr, c.pen)], c.row, c.col)

(* Mutant: the end of the erased cells is not clamped to the row.          *)
EraseCells_unclamped(c, count) ==
    LET n == IF count = 0 THEN 1 ELSE count
    IN  ClearCellRange(c, CellOf(c.row, c.col), CellOf(c.row, (c.col + n) % Word))

\* col + count is a u32 sum: a huge count wraps and erases nothing.
EraseCells(c, count) ==
    LET n == IF count = 0 THEN 1 ELSE count
        sum == (c.col + n) % Word
        endCol == IF sum > Cols THEN Cols ELSE sum
    IN  IF CursorOutside(c) THEN c
        ELSE ClearCellRange(c, CellOf(c.row, c.col), CellOf(c.row, endCol))

(* Mutant: the clamp lets the cursor rest just below the last row.         *)
SetCursor_inclusive(c, row, col) ==
    [c EXCEPT !.row = IF row > Rows THEN Rows - 1 ELSE row,
              !.col = IF col >= Cols THEN Cols - 1 ELSE col]

SetCursor(c, row, col) ==
    [c EXCEPT !.row = IF row >= Rows THEN Rows - 1 ELSE row,
              !.col = IF col >= Cols THEN Cols - 1 ELSE col]

(***************************************************************************)
(* The CSI parser.                                                         *)
(***************************************************************************)
CsiParamOr(c, index, default) ==
    IF index >= c.count \/ c.params[index] = 0 THEN default ELSE c.params[index]

CsiPushParam(c) ==
    IF c.count < MaxParams
    THEN [c EXCEPT !.params[c.count] = IF c.have THEN c.value ELSE 0,
                   !.count = @ + 1, !.value = 0, !.have = FALSE]
    ELSE [c EXCEPT !.value = 0, !.have = FALSE]

CsiReset(c) ==
    [c EXCEPT !.params = [i \in 0 .. MaxParams - 1 |-> 0],
              !.count = 0, !.value = 0, !.have = FALSE]

\* The colour an SGR code names, and the attribute after it.
SgrColor(sgr) == IF sgr \in 30 .. 37 THEN sgr - 30 ELSE sgr - 82

SgrStep(pen, bright, p) ==
    CASE p \in {0, 39} -> Plain
      [] p = 1 -> (pen % 8) + 8
      [] p = 22 -> pen % 8
      [] p \in (30 .. 37) \cup (90 .. 97) ->
            IF bright /\ SgrColor(p) < 8 THEN SgrColor(p) + 8 ELSE SgrColor(p)
      [] OTHER -> pen

\* "bold" is remembered only within one sequence: the last of 0, 1 and 22
\* among the parameters before parameter i.
Bright(c, i) ==
    \E j \in 0 .. i - 1 :
        c.params[j] = 1 /\ \A k \in j + 1 .. i - 1 : c.params[k] \notin {0, 22}

SgrAfter(c, pen, i) ==
    IF i < c.count THEN SgrStep(pen, Bright(c, i), c.params[i]) ELSE pen

ApplySgr(c) ==
    [c EXCEPT !.pen =
        IF c.count = 0 THEN Plain
        ELSE SgrAfter(c, SgrAfter(c, SgrAfter(c, SgrAfter(c, c.pen, 0), 1), 2), 3)]

(***************************************************************************)
(* hdmi_console_apply_csi: J K @ P X edit the screen, the other letters    *)
(* move the cursor, m sets the colour.                                     *)
(***************************************************************************)
EraseDisplay(c, p0) ==
    CASE p0 \in {2, 3} -> Repaint(ClearShadow(c))
      [] p0 = 1 -> ClearCellRange(c, 0, CellOf(c.row, c.col) + 1)
      [] OTHER -> ClearCellRange(c, CellOf(c.row, c.col), Cells)

EraseLine(c, p0) ==
    CASE p0 = 2 -> ClearCellRange(c, CellOf(c.row, 0), CellOf(c.row, 0) + Cols)
      [] p0 = 1 -> ClearCellRange(c, CellOf(c.row, 0), CellOf(c.row, c.col) + 1)
      [] OTHER -> ClearCellRange(c, CellOf(c.row, c.col), CellOf(c.row, Cols - 1) + 1)

Back(at, n) == IF n > at THEN 0 ELSE at - n

EditFinals == {64, 74, 75, 80, 88}                          \* @ J K P X
MoveFinals == {65, 66, 67, 68, 69, 70, 71, 72, 100, 102}    \* A..H d f
ColourFinal == 109                                          \* m

ApplyEdit(c, ch) ==
    LET p0 == IF c.count > 0 THEN c.params[0] ELSE 0
        n == CsiParamOr(c, 0, 1)
    IN  CASE ch = 64 -> InsertCells(c, n)
          [] ch = 74 -> EraseDisplay(c, p0)
          [] ch = 75 -> EraseLine(c, p0)
          [] ch = 80 -> DeleteCells(c, n)
          [] ch = 88 -> EraseCells(c, n)

ApplyMove(c, ch) ==
    LET n == CsiParamOr(c, 0, 1)
    IN  CASE ch = 65 -> [c EXCEPT !.row = Back(@, n)]
          [] ch = 66 -> SetCursor(c, (c.row + n) % Word, c.col)
          [] ch = 67 -> SetCursor(c, c.row, (c.col + n) % Word)
          [] ch = 68 -> [c EXCEPT !.col = Back(@, n)]
          [] ch = 69 -> SetCursor(c, (c.row + n) % Word, 0)
          [] ch = 70 -> SetCursor(c, Back(c.row, n), 0)
          [] ch = 71 -> SetCursor(c, c.row, n - 1)
          [] ch \in {72, 102} -> SetCursor(c, n - 1, CsiParamOr(c, 1, 1) - 1)
          [] ch = 100 -> SetCursor(c, n - 1, c.col)

ApplyCsi(c, ch) ==
    CASE ch \in EditFinals -> ApplyEdit(c, ch)
      [] ch \in MoveFinals -> ApplyMove(c, ch)
      [] ch = ColourFinal -> ApplySgr(c)
      [] OTHER -> c

(***************************************************************************)
(* hdmi_console_consume_ansi.                                              *)
(***************************************************************************)
Digit(ch) == ch \in 48 .. 57
Final(ch) == ch \in 64 .. 126

\* An escape sequence takes this byte.
Consumes(c, ch) == c.esc # "none" \/ ch = Escape

\* This byte ends a CSI sequence.
Completes(c, ch) == c.esc = "csi" /\ Final(ch)

BeforeFinal(c) == IF c.have \/ c.count = 0 THEN CsiPushParam(c) ELSE c

Complete(c, ch) == [ApplyCsi(BeforeFinal(c), ch) EXCEPT !.esc = "none"]

ParseStep(c, ch) ==
    CASE c.esc = "none" -> [c EXCEPT !.esc = "esc"]
      [] c.esc = "esc" /\ ch = 91 -> [CsiReset(c) EXCEPT !.esc = "csi"]
      [] c.esc = "esc" /\ ch = Escape -> c
      [] c.esc = "esc" /\ ch \notin {91, Escape} -> [c EXCEPT !.esc = "none"]
      [] c.esc = "csi" /\ Digit(ch) ->
            [c EXCEPT !.value = (@ * 10 + (ch - 48)) % Word, !.have = TRUE]
      [] c.esc = "csi" /\ ch = 59 -> CsiPushParam(c)
      [] c.esc = "csi" /\ ch \in {63, 32, 61} -> c
      [] OTHER -> [c EXCEPT !.esc = "none"]

(***************************************************************************)
(* hdmi_console_putc1 for a byte that no escape sequence takes.            *)
(***************************************************************************)
PrintByte(c, ch) ==
    LET put == PutCell(c, c.row, c.col, IF ch \in Glyph THEN ch ELSE Dot)
    IN  IF c.col + 1 >= Cols THEN Newline(put) ELSE [put EXCEPT !.col = @ + 1]

Backspace(c) ==
    IF c.col > 0
    THEN PutCell([c EXCEPT !.col = @ - 1], c.row, c.col - 1, Space)
    ELSE c

ControlBytes == {8, 10, 13, 127}

Control(c, ch) ==
    CASE ch = 13 -> [c EXCEPT !.col = 0]
      [] ch = 10 -> Newline(c)
      [] ch \in {8, 127} -> Backspace(c)

(* Mutant: the loop looks for the first tab stop, not for any.             *)
TabEnded_first(c) == c.col = 8

TabEnded(c) == c.col % 8 = 0

\* Any byte but a tab that reaches the screen.
Putc1(c, ch) ==
    CASE Completes(c, ch) -> Complete(c, ch)
      [] Consumes(c, ch) /\ ~ Completes(c, ch) -> ParseStep(c, ch)
      [] ~ Consumes(c, ch) /\ ch \in ControlBytes -> Control(c, ch)
      [] OTHER -> PrintByte(c, ch)

StartsTab(c, ch) == ~ Consumes(c, ch) /\ ch = Tab

(***************************************************************************)
(* One panel on its own, fed any stream of bytes.                          *)
(***************************************************************************)
InitialScreen ==
    [text |-> [i \in Cell |-> Space], attr |-> [i \in Cell |-> Plain],
     shownText |-> [i \in Cell |-> Space], shownAttr |-> [i \in Cell |-> Plain],
     row |-> 0, col |-> 0, pen |-> Plain, esc |-> "none",
     params |-> [i \in 0 .. MaxParams - 1 |-> 0],
     count |-> 0, value |-> 0, have |-> FALSE]

Init == con = InitialScreen /\ tab = FALSE

Putc(ch) ==
    /\ ~ tab
    /\ ~ StartsTab(con, ch)
    /\ con' = Putc1(con, ch)
    /\ UNCHANGED tab

PutSpace ==
    /\ con' = PrintByte(con, Space)
    /\ tab' = ~ TabEnded(con')

StartTab == ~ tab /\ StartsTab(con, Tab) /\ PutSpace
NextTab == tab /\ PutSpace

\* The launcher initialises its consoles again on every restart.
Restart == ~ tab /\ con' = Repaint(ClearShadow(con)) /\ UNCHANGED tab

Next == (\E ch \in Bytes : Putc(ch)) \/ StartTab \/ NextTab \/ Restart

Spec == Init /\ [][Next]_vars

TypeOK == con \in Console /\ tab \in BOOLEAN

\* A panel shows what the shadow arrays hold, in every cell and every colour:
\* each function that changes the shadow writes all the words it touched.
Painted ==
    /\ con.shownText = con.text
    /\ con.shownAttr = con.attr
=============================================================================
