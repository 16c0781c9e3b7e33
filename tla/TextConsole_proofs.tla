-------------------------- MODULE TextConsole_proofs --------------------------
(***************************************************************************)
(* The console of TextConsole for a screen of any size, fed any stream of  *)
(* bytes: the cursor and every cell number stay on the screen, and the     *)
(* panel always shows what the shadow arrays hold.                         *)
(***************************************************************************)
EXTENDS TextConsole, TLAPS

\* A console in its type whose panel shows its shadow arrays.
Good(c) ==
    /\ c \in Console
    /\ c.shownText = c.text
    /\ c.shownAttr = c.attr

\* The parts of a console that its parser reads.
SameParser(c, d) ==
    /\ d.esc = c.esc /\ d.pen = c.pen
    /\ d.params = c.params /\ d.count = c.count
    /\ d.value = c.value /\ d.have = c.have

\* What an operation on the screen does: d is good, and its parser is that of c.
Redraws(c, d) == Good(d) /\ SameParser(c, d)

\* What a CSI sequence does: d is good, its parser has the numbers of c, and its
\* colour is pen.
Recolours(c, d, pen) ==
    /\ Good(d)
    /\ d.pen = pen
    /\ d.params = c.params /\ d.count = c.count
    /\ d.value = c.value /\ d.have = c.have

\* The colour after CSI ... ch.
PenAfter(c, ch) ==
    IF ch = 74 /\ c.count > 0 /\ c.params[0] \in {2, 3} THEN Plain
    ELSE IF ch = ColourFinal THEN ApplySgr(c).pen
    ELSE c.pen

(***************************************************************************)
(* Cell numbers and words.                                                 *)
(***************************************************************************)
\* Words are numbered in the order of their cells.
LEMMA DivMonotone ==
    ASSUME NEW a \in Nat, NEW b \in Nat, a <= b
    PROVE  a \div 4 \in Nat /\ a \div 4 <= b \div 4
  OBVIOUS

\* The attribute word of a cell is the one its text word is written with.
LEMMA AttrWord ==
    ASSUME NEW i \in Nat
    PROVE  i \div 8 = ((i \div 4) * 4) \div 8
  OBVIOUS

\* A row and a column on the screen make a cell of the screen.
LEMMA CellInside ==
    ASSUME Geometry, NEW r \in 0 .. Rows - 1, NEW k \in 0 .. Cols
    PROVE  /\ CellOf(r, k) \in Nat
           /\ CellOf(r, k) <= Cells
           /\ k < Cols => CellOf(r, k) \in Cell
  <1>1. r \in Nat /\ k \in Nat /\ Cols \in Nat /\ Rows \in Nat /\ r + 1 <= Rows /\ k <= Cols
    BY DEF Geometry
  <1>2. (r + 1) * Cols <= Rows * Cols
    BY <1>1
  <1>3. (r + 1) * Cols = r * Cols + Cols /\ r * Cols \in Nat
    BY <1>1
  <1> QED
    BY <1>1, <1>2, <1>3 DEF CellOf, Cells, Cell, Geometry

(***************************************************************************)
(* Painting.                                                               *)
(***************************************************************************)
\* Writing words changes nothing but what the panel shows, and if all the cells
\* that differ are in the words written, the panel shows the shadow again.
LEMMA WritePaints ==
    ASSUME Geometry, NEW c \in Console, NEW words,
           \A i \in Cell : c.shownText[i] # c.text[i] \/ c.shownAttr[i] # c.attr[i]
                              => i \div 4 \in words
    PROVE  /\ Redraws(c, WriteWords(c, words))
           /\ WriteWords(c, words).row = c.row
           /\ WriteWords(c, words).col = c.col
  <1> DEFINE t == [i \in Cell |-> IF i \div 4 \in words THEN c.text[i] ELSE c.shownText[i]]
             a == [i \in Cell |-> IF \E w \in words : i \div 8 = (w * 4) \div 8
                                  THEN c.attr[i] ELSE c.shownAttr[i]]
  <1>1. c.text \in [Cell -> Glyph] /\ c.shownText \in [Cell -> Glyph]
        /\ c.attr \in [Cell -> Attr] /\ c.shownAttr \in [Cell -> Attr]
    BY DEF Console
  <1>2. t = c.text
    <2>1. \A i \in Cell : t[i] = c.text[i]
      OBVIOUS
    <2> QED
      BY <1>1, <2>1
  <1>3. a = c.attr
    <2>1. \A i \in Cell : a[i] = c.attr[i]
      <3> SUFFICES ASSUME NEW i \in Cell PROVE a[i] = c.attr[i]
        OBVIOUS
      <3>1. CASE i \div 4 \in words
        <4>1. i \in Nat
          BY DEF Cell
        <4>2. i \div 8 = ((i \div 4) * 4) \div 8
          BY <4>1, AttrWord
        <4> HIDE DEF Cell
        <4>3. \E w \in words : i \div 8 = (w * 4) \div 8
          BY <3>1, <4>2
        <4> QED
          BY <4>3
      <3>2. CASE i \div 4 \notin words
        <4>1. c.shownAttr[i] = c.attr[i]
          BY <3>2
        <4> QED
          BY <4>1
      <3> QED
        BY <3>1, <3>2
    <2> QED
      BY <1>1, <2>1
  <1>4. WriteWords(c, words) = [c EXCEPT !.shownText = t, !.shownAttr = a]
    BY DEF WriteWords
  <1> HIDE DEF t, a
  <1> QED
    BY <1>1, <1>2, <1>3, <1>4 DEF Redraws, SameParser, Good, Console

LEMMA RepaintGood ==
    ASSUME Geometry, NEW c \in Console
    PROVE  Redraws(c, Repaint(c))
  <1>1. ASSUME NEW i \in Cell PROVE i \div 4 \in 0 .. (Cells \div 4) - 1
    <2>1. i \in Nat /\ Cells \in Nat /\ i < Cells /\ Cells % 4 = 0
      BY DEF Cell, Geometry
    <2> QED
      BY <2>1
  <1> QED
    BY <1>1, WritePaints DEF Repaint

\* What most operations do: new shadow cells in a range of the screen, and then
\* the words from the first of them to the last.
LEMMA RangePaints ==
    ASSUME Geometry, NEW c, Good(c), NEW text \in [Cell -> Glyph], NEW attr \in [Cell -> Attr],
           NEW first \in Nat, NEW last \in Nat,
           \A i \in Cell : i < first \/ i > last => text[i] = c.text[i] /\ attr[i] = c.attr[i]
    PROVE  LET d == WriteWords([c EXCEPT !.text = text, !.attr = attr],
                               (first \div 4) .. (last \div 4))
           IN  Redraws(c, d) /\ d.row = c.row /\ d.col = c.col
  <1> DEFINE e == [c EXCEPT !.text = text, !.attr = attr]
  <1>1. e \in Console /\ e.text = text /\ e.attr = attr /\ e.shownText = c.text
        /\ e.shownAttr = c.attr /\ e.row = c.row /\ e.col = c.col /\ SameParser(c, e)
    BY DEF Good, Console, SameParser
  <1>2. ASSUME NEW i \in Cell, i >= first, i <= last
        PROVE  i \div 4 \in (first \div 4) .. (last \div 4)
    <2>1. i \in Nat
      BY DEF Cell
    <2>2. first \div 4 \in Nat /\ i \div 4 \in Nat /\ last \div 4 \in Nat
          /\ first \div 4 <= i \div 4 /\ i \div 4 <= last \div 4
      BY <1>2, <2>1, DivMonotone
    <2> QED
      BY <2>2
  <1>3. ASSUME NEW i \in Cell, ~ (i < first \/ i > last) PROVE i >= first /\ i <= last
    BY <1>3 DEF Cell
  <1> HIDE DEF e
  <1>4. \A i \in Cell : e.shownText[i] # e.text[i] \/ e.shownAttr[i] # e.attr[i]
                           => i \div 4 \in (first \div 4) .. (last \div 4)
    BY <1>1, <1>2, <1>3
  <1>5. Redraws(e, WriteWords(e, (first \div 4) .. (last \div 4)))
        /\ WriteWords(e, (first \div 4) .. (last \div 4)).row = e.row
        /\ WriteWords(e, (first \div 4) .. (last \div 4)).col = e.col
    BY <1>1, <1>4, WritePaints
  <1> QED
    BY <1>1, <1>5 DEF e, Redraws, SameParser

\* Moving the cursor inside the screen keeps the panel as it is.
LEMMA CursorGood ==
    ASSUME NEW c, Good(c), NEW r \in 0 .. Rows - 1, NEW k \in 0 .. Cols - 1
    PROVE  Redraws(c, [c EXCEPT !.row = r, !.col = k])
  BY DEF Redraws, SameParser, Good, Console

LEMMA CursorInside ==
    ASSUME Geometry, NEW c, Good(c)
    PROVE  /\ c.row \in 0 .. Rows - 1 /\ c.row \in Nat /\ c.row < Rows
           /\ c.col \in 0 .. Cols - 1 /\ c.col \in 0 .. Cols /\ c.col \in Nat /\ c.col < Cols
           /\ Cols \in Nat /\ Rows \in Nat /\ Cols > 0 /\ Rows > 0
           /\ 0 \in 0 .. Cols - 1 /\ 0 \in 0 .. Rows - 1
           /\ Cols - 1 \in 0 .. Cols - 1 /\ Rows - 1 \in 0 .. Rows - 1
  <1>1. c.row \in 0 .. Rows - 1 /\ c.col \in 0 .. Cols - 1
    BY DEF Good, Console
  <1> QED
    BY <1>1 DEF Geometry

LEMMA RowGood ==
    ASSUME Geometry, NEW c, Good(c), NEW r \in 0 .. Rows - 1
    PROVE  Redraws(c, [c EXCEPT !.row = r])
  BY DEF Redraws, SameParser, Good, Console

LEMMA ColGood ==
    ASSUME Geometry, NEW c, Good(c), NEW k \in 0 .. Cols - 1
    PROVE  Redraws(c, [c EXCEPT !.col = k])
  BY DEF Redraws, SameParser, Good, Console

\* hdmi_console_scroll: the rows go up by one, and the whole panel is written.
LEMMA ScrollGood ==
    ASSUME Geometry, NEW c, Good(c)
    PROVE  Redraws(c, Scroll(c))
  <1> DEFINE text == [i \in Cell |-> IF i + Cols < Cells THEN c.text[i + Cols] ELSE Space]
             attr == [i \in Cell |-> IF i + Cols < Cells THEN c.attr[i + Cols] ELSE c.pen]
             d == [c EXCEPT !.text = text, !.attr = attr, !.row = Rows - 1, !.col = 0]
  <1>1. c \in Console /\ c.text \in [Cell -> Glyph] /\ c.attr \in [Cell -> Attr] /\ c.pen \in Attr
    BY DEF Good, Console
  <1>2. ASSUME NEW i \in Cell, i + Cols < Cells PROVE i + Cols \in Cell
    BY <1>2 DEF Cell, Geometry
  <1>3. Space \in Glyph
    BY DEF Space, Glyph
  <1>4. text \in [Cell -> Glyph] /\ attr \in [Cell -> Attr]
    <2> HIDE DEF Cell
    <2> QED
      BY <1>1, <1>2, <1>3
  <1>5. Rows - 1 \in 0 .. Rows - 1 /\ 0 \in 0 .. Cols - 1
    BY CursorInside
  <1> HIDE DEF text, attr
  <1>6. d \in Console /\ SameParser(c, d)
    BY <1>1, <1>4, <1>5 DEF Console, SameParser
  <1>7. Scroll(c) = Repaint(d)
    BY DEF Scroll, text, attr
  <1> QED
    BY <1>6, <1>7, RepaintGood DEF Redraws, SameParser

LEMMA NewlineGood ==
    ASSUME Geometry, NEW c, Good(c)
    PROVE  Redraws(c, Newline(c))
  <1>1. CASE c.row + 1 >= Rows
    BY <1>1, ScrollGood DEF Newline
  <1>2. CASE ~ (c.row + 1 >= Rows)
    <2>1. c.row + 1 \in 0 .. Rows - 1 /\ 0 \in 0 .. Cols - 1
      BY <1>2, CursorInside
    <2>2. Newline(c) = [c EXCEPT !.row = c.row + 1, !.col = 0]
      BY <1>2 DEF Newline, Good, Console
    <2>3. Redraws(c, [c EXCEPT !.row = c.row + 1, !.col = 0])
      BY <2>1, CursorGood
    <2> QED
      BY <2>2, <2>3
  <1> QED
    BY <1>1, <1>2

LEMMA PutCellGood ==
    ASSUME Geometry, NEW c, Good(c), NEW r \in 0 .. Rows - 1, NEW k \in 0 .. Cols - 1, NEW ch \in Glyph
    PROVE  /\ Redraws(c, PutCell(c, r, k, ch))
           /\ PutCell(c, r, k, ch).row = c.row
           /\ PutCell(c, r, k, ch).col = c.col
  <1> DEFINE n == CellOf(r, k)
             text == [c.text EXCEPT ![n] = ch]
             attr == [c.attr EXCEPT ![n] = c.pen]
             d == [c EXCEPT !.text = text, !.attr = attr]
  <1>1. c \in Console /\ c.text \in [Cell -> Glyph] /\ c.attr \in [Cell -> Attr] /\ c.pen \in Attr
    BY DEF Good, Console
  <1>2. k \in 0 .. Cols /\ k < Cols
    BY DEF Geometry
  <1>3. n \in Cell /\ n \in Nat
    BY <1>2, CellInside
  <1> HIDE DEF n
  <1>4. text \in [Cell -> Glyph] /\ attr \in [Cell -> Attr]
    BY <1>1, <1>3
  <1>5. \A i \in Cell : i < n \/ i > n => text[i] = c.text[i] /\ attr[i] = c.attr[i]
    BY <1>1, <1>3 DEF Cell
  <1> HIDE DEF text, attr
  <1>6. LET e == WriteWords(d, (n \div 4) .. (n \div 4))
        IN  Redraws(c, e) /\ e.row = c.row /\ e.col = c.col
    BY <1>3, <1>4, <1>5, RangePaints
  <1>7. (n \div 4) .. (n \div 4) = {n \div 4}
    BY <1>3
  <1>8. PutCell(c, r, k, ch) = WriteWords(d, {n \div 4})
    BY <1>1 DEF PutCell, text, attr, n, Console
  <1> QED
    BY <1>6, <1>7, <1>8

LEMMA ClearRangeGood ==
    ASSUME Geometry, NEW c, Good(c), NEW start \in Nat, NEW endCell \in Nat
    PROVE  Redraws(c, ClearCellRange(c, start, endCell))
  <1> DEFINE last == IF endCell > Cells THEN Cells ELSE endCell
             text == [i \in Cell |-> IF i \in start .. last - 1 THEN Space ELSE c.text[i]]
             attr == [i \in Cell |-> IF i \in start .. last - 1 THEN c.pen ELSE c.attr[i]]
  <1>1. c \in Console /\ c.text \in [Cell -> Glyph] /\ c.attr \in [Cell -> Attr] /\ c.pen \in Attr
    BY DEF Good, Console
  <1>2. last \in Nat
    BY DEF Geometry
  <1> HIDE DEF last
  <1>3. CASE start >= Cells \/ start >= last
    BY <1>3 DEF ClearCellRange, last, Redraws, SameParser
  <1>4. CASE ~ (start >= Cells \/ start >= last)
    <2>1. last - 1 \in Nat
      BY <1>2, <1>4
    <2>2. Space \in Glyph
      BY DEF Space, Glyph
    <2>3. text \in [Cell -> Glyph] /\ attr \in [Cell -> Attr]
      BY <1>1, <2>2
    <2>4. \A i \in Cell : i < start \/ i > last - 1 => text[i] = c.text[i] /\ attr[i] = c.attr[i]
      BY <1>2 DEF Cell
    <2>5. ClearCellRange(c, start, endCell)
            = WriteWords([c EXCEPT !.text = text, !.attr = attr],
                         (start \div 4) .. ((last - 1) \div 4))
      BY <1>4 DEF ClearCellRange, last
    <2> HIDE DEF text, attr
    <2>6. Redraws(c, WriteWords([c EXCEPT !.text = text, !.attr = attr],
                                (start \div 4) .. ((last - 1) \div 4)))
      BY <2>1, <2>3, <2>4, RangePaints
    <2> QED
      BY <2>5, <2>6
  <1> QED
    BY <1>3, <1>4

(***************************************************************************)
(* Editing the cursor's row.                                               *)
(***************************************************************************)
\* The words from the cursor to the end of its row cover whatever changed there.
LEMMA RowPaints ==
    ASSUME Geometry, NEW c, Good(c), NEW text \in [Cell -> Glyph], NEW attr \in [Cell -> Attr],
           \A i \in Cell : i < CellOf(c.row, c.col) \/ i >= CellOf(c.row, Cols)
                              => text[i] = c.text[i] /\ attr[i] = c.attr[i]
    PROVE  Redraws(c, RewriteRowWords([c EXCEPT !.text = text, !.attr = attr], c.row, c.col))
  <1>1. c.row \in 0 .. Rows - 1 /\ c.col \in 0 .. Cols /\ Cols \in Nat /\ Cols > 0
        /\ Cols - 1 \in 0 .. Cols /\ c.row \in Nat
    BY CursorInside
  <1>2. CellOf(c.row, c.col) \in Nat /\ CellOf(c.row, Cols - 1) \in Nat
    BY <1>1, CellInside
  <1>3. CellOf(c.row, Cols) = CellOf(c.row, Cols - 1) + 1
    BY <1>1 DEF CellOf
  <1>4. \A i \in Cell : i < CellOf(c.row, c.col) \/ i > CellOf(c.row, Cols - 1)
                           => text[i] = c.text[i] /\ attr[i] = c.attr[i]
    BY <1>2, <1>3 DEF Cell
  <1>5. Redraws(c, WriteWords([c EXCEPT !.text = text, !.attr = attr],
                              (CellOf(c.row, c.col) \div 4) .. (CellOf(c.row, Cols - 1) \div 4)))
    BY <1>2, <1>4, RangePaints
  <1> QED
    BY <1>5 DEF RewriteRowWords

LEMMA RowCountInside ==
    ASSUME Geometry, NEW c, Good(c), NEW count \in Nat
    PROVE  RowCount(c, count) \in 1 .. Cols - c.col
  <1>1. c.col \in Nat /\ Cols \in Nat /\ c.col < Cols
    BY CursorInside
  <1> QED
    BY <1>1 DEF RowCount

\* The cells of the row from the cursor on, and what is moved within them.
LEMMA InsertGood ==
    ASSUME Geometry, NEW c, Good(c), NEW count \in Nat
    PROVE  Redraws(c, InsertCells(c, count))
  <1> DEFINE n == RowCount(c, count)
             first == CellOf(c.row, c.col)
             past == CellOf(c.row, Cols)
             text == [i \in Cell |-> IF i < first \/ i >= past THEN c.text[i]
                                     ELSE IF i >= first + n THEN c.text[i - n] ELSE Space]
             attr == [i \in Cell |-> IF i < first \/ i >= past THEN c.attr[i]
                                     ELSE IF i >= first + n THEN c.attr[i - n] ELSE c.pen]
  <1>1. c.text \in [Cell -> Glyph] /\ c.attr \in [Cell -> Attr] /\ c.pen \in Attr /\ Space \in Glyph
    BY DEF Good, Console, Space, Glyph
  <1>2. c.row \in 0 .. Rows - 1 /\ c.col \in 0 .. Cols /\ Cols \in 0 .. Cols /\ ~ CursorOutside(c)
    BY CursorInside DEF CursorOutside
  <1>3. first \in Nat /\ past \in Nat
    BY <1>2, CellInside
  <1>4. n \in Nat
    BY RowCountInside, CursorInside
  <1> HIDE DEF first, past, n
  <1>5. ASSUME NEW i \in Cell, ~ (i < first \/ i >= past), i >= first + n PROVE i - n \in Cell
    BY <1>3, <1>4, <1>5 DEF Cell, Geometry
  <1>6. text \in [Cell -> Glyph] /\ attr \in [Cell -> Attr]
    <2> HIDE DEF Cell
    <2> QED
      BY <1>1, <1>5
  <1>7. \A i \in Cell : i < first \/ i >= past => text[i] = c.text[i] /\ attr[i] = c.attr[i]
    OBVIOUS
  <1>8. InsertCells(c, count) = RewriteRowWords([c EXCEPT !.text = text, !.attr = attr], c.row, c.col)
    BY <1>2 DEF InsertCells, first, past, n
  <1> HIDE DEF text, attr
  <1>9. Redraws(c, RewriteRowWords([c EXCEPT !.text = text, !.attr = attr], c.row, c.col))
    BY <1>6, <1>7, RowPaints DEF first, past
  <1> QED
    BY <1>8, <1>9

LEMMA DeleteGood ==
    ASSUME Geometry, NEW c, Good(c), NEW count \in Nat
    PROVE  Redraws(c, DeleteCells(c, count))
  <1> DEFINE n == RowCount(c, count)
             first == CellOf(c.row, c.col)
             past == CellOf(c.row, Cols)
             text == [i \in Cell |-> IF i < first \/ i >= past THEN c.text[i]
                                     ELSE IF i + n < past THEN c.text[i + n] ELSE Space]
             attr == [i \in Cell |-> IF i < first \/ i >= past THEN c.attr[i]
                                     ELSE IF i + n < past THEN c.attr[i + n] ELSE c.pen]
  <1>1. c.text \in [Cell -> Glyph] /\ c.attr \in [Cell -> Attr] /\ c.pen \in Attr /\ Space \in Glyph
    BY DEF Good, Console, Space, Glyph
  <1>2. c.row \in 0 .. Rows - 1 /\ c.col \in 0 .. Cols /\ Cols \in 0 .. Cols /\ ~ CursorOutside(c)
    BY CursorInside DEF CursorOutside
  <1>3. first \in Nat /\ past \in Nat /\ past <= Cells
    BY <1>2, CellInside
  <1>4. n \in Nat
    BY RowCountInside, CursorInside
  <1> HIDE DEF first, past, n
  <1>5. ASSUME NEW i \in Cell, i + n < past PROVE i + n \in Cell
    BY <1>3, <1>4, <1>5 DEF Cell, Geometry
  <1>6. text \in [Cell -> Glyph] /\ attr \in [Cell -> Attr]
    <2> HIDE DEF Cell
    <2> QED
      BY <1>1, <1>5
  <1>7. \A i \in Cell : i < first \/ i >= past => text[i] = c.text[i] /\ attr[i] = c.attr[i]
    OBVIOUS
  <1>8. DeleteCells(c, count) = RewriteRowWords([c EXCEPT !.text = text, !.attr = attr], c.row, c.col)
    BY <1>2 DEF DeleteCells, first, past, n
  <1> HIDE DEF text, attr
  <1>9. Redraws(c, RewriteRowWords([c EXCEPT !.text = text, !.attr = attr], c.row, c.col))
    BY <1>6, <1>7, RowPaints DEF first, past
  <1> QED
    BY <1>8, <1>9

\* Whatever the sum wraps to, the erased cells end inside the row.
LEMMA EraseCellsGood ==
    ASSUME Geometry, NEW c, Good(c), NEW count \in Nat
    PROVE  Redraws(c, EraseCells(c, count))
  <1> DEFINE n == IF count = 0 THEN 1 ELSE count
             sum == (c.col + n) % Word
             endCol == IF sum > Cols THEN Cols ELSE sum
  <1>1. c.row \in 0 .. Rows - 1 /\ c.col \in 0 .. Cols /\ c.col \in Nat /\ Cols \in Nat
        /\ ~ CursorOutside(c)
    BY CursorInside DEF CursorOutside
  <1>2. Word \in Nat /\ Word > 0
    BY <1>1 DEF Geometry
  <1>3. c.col + n \in Nat
    BY <1>1
  <1> HIDE DEF n
  <1>4. sum \in Nat
    BY <1>2, <1>3
  <1> HIDE DEF sum
  <1>5. endCol \in 0 .. Cols
    BY <1>1, <1>4
  <1>6. CellOf(c.row, c.col) \in Nat /\ CellOf(c.row, endCol) \in Nat
    BY <1>1, <1>5, CellInside
  <1>7. EraseCells(c, count) = ClearCellRange(c, CellOf(c.row, c.col), CellOf(c.row, endCol))
    BY <1>1 DEF EraseCells, sum, n
  <1> HIDE DEF endCol
  <1>8. Redraws(c, ClearCellRange(c, CellOf(c.row, c.col), CellOf(c.row, endCol)))
    BY <1>6, ClearRangeGood
  <1> QED
    BY <1>7, <1>8

(***************************************************************************)
(* The CSI parser.                                                         *)
(***************************************************************************)
\* hdmi_console_set_cursor clamps any number to the screen.
LEMMA SetCursorGood ==
    ASSUME Geometry, NEW c, Good(c), NEW r \in Nat, NEW k \in Nat
    PROVE  Redraws(c, SetCursor(c, r, k))
  <1> DEFINE row == IF r >= Rows THEN Rows - 1 ELSE r
             col == IF k >= Cols THEN Cols - 1 ELSE k
  <1>1. row \in 0 .. Rows - 1 /\ col \in 0 .. Cols - 1
    BY DEF Geometry
  <1>2. SetCursor(c, r, k) = [c EXCEPT !.row = row, !.col = col]
    BY DEF SetCursor
  <1> HIDE DEF row, col
  <1>3. Redraws(c, [c EXCEPT !.row = row, !.col = col])
    BY <1>1, CursorGood
  <1> QED
    BY <1>2, <1>3

\* A parameter of the sequence is a u32.
LEMMA ParamType ==
    ASSUME Geometry, NEW c, Good(c), NEW i \in 0 .. MaxParams - 1, NEW default \in Nat \ {0}
    PROVE  CsiParamOr(c, i, default) \in Nat \ {0}
  <1>1. c.params \in [0 .. MaxParams - 1 -> 0 .. Word - 1] /\ Word \in Nat
    BY DEF Good, Console, Geometry
  <1>2. c.params[i] \in 0 .. Word - 1
    BY <1>1
  <1>3. c.params[i] \in Nat
    BY <1>1, <1>2
  <1> QED
    BY <1>3 DEF CsiParamOr

LEMMA PushGood ==
    ASSUME Geometry, NEW c, Good(c)
    PROVE  Good(CsiPushParam(c))
  <1> DEFINE v == IF c.have THEN c.value ELSE 0
  <1>1. c \in Console /\ c.count \in 0 .. MaxParams /\ c.value \in 0 .. Word - 1
        /\ c.params \in [0 .. MaxParams - 1 -> 0 .. Word - 1]
    BY DEF Good, Console
  <1>2. 0 \in 0 .. Word - 1 /\ MaxParams = 4
    BY DEF Geometry, MaxParams
  <1>3. CASE c.count < MaxParams
    <2>1. c.count \in 0 .. MaxParams - 1 /\ c.count + 1 \in 0 .. MaxParams
      BY <1>1, <1>2, <1>3
    <2>2. [c.params EXCEPT ![c.count] = v] \in [0 .. MaxParams - 1 -> 0 .. Word - 1]
      BY <1>1, <1>2, <2>1
    <2>3. CsiPushParam(c) = [c EXCEPT !.params = [c.params EXCEPT ![c.count] = v],
                                      !.count = c.count + 1, !.value = 0, !.have = FALSE]
      BY <1>1, <1>3 DEF CsiPushParam, Console
    <2> HIDE DEF v
    <2> QED
      BY <1>1, <1>2, <2>1, <2>2, <2>3 DEF Good, Console
  <1>4. CASE ~ (c.count < MaxParams)
    <2>1. CsiPushParam(c) = [c EXCEPT !.value = 0, !.have = FALSE]
      BY <1>4 DEF CsiPushParam
    <2> QED
      BY <1>1, <1>2, <2>1 DEF Good, Console
  <1> QED
    BY <1>3, <1>4

LEMMA ResetGood ==
    ASSUME Geometry, NEW c, Good(c)
    PROVE  Good(CsiReset(c))
  <1>1. 0 \in 0 .. Word - 1 /\ 0 \in 0 .. MaxParams
    BY DEF Geometry, MaxParams
  <1>2. [i \in 0 .. MaxParams - 1 |-> 0] \in [0 .. MaxParams - 1 -> 0 .. Word - 1]
    BY <1>1
  <1> QED
    BY <1>1, <1>2 DEF CsiReset, Good, Console

LEMMA EscGood ==
    ASSUME NEW c, Good(c), NEW e \in {"none", "esc", "csi"}
    PROVE  Good([c EXCEPT !.esc = e])
  BY DEF Good, Console

LEMMA SgrType ==
    ASSUME NEW pen \in Attr, NEW bright \in BOOLEAN, NEW p \in Nat
    PROVE  SgrStep(pen, bright, p) \in Attr
  BY DEF SgrStep, SgrColor, Attr, Plain

LEMMA SgrAfterType ==
    ASSUME Geometry, NEW c, Good(c), NEW pen \in Attr, NEW i \in 0 .. MaxParams - 1
    PROVE  SgrAfter(c, pen, i) \in Attr
  <1>1. c.params \in [0 .. MaxParams - 1 -> 0 .. Word - 1] /\ Word \in Nat
    BY DEF Good, Console, Geometry
  <1>2. c.params[i] \in 0 .. Word - 1
    BY <1>1
  <1>3. c.params[i] \in Nat
    BY <1>1, <1>2
  <1>4. Bright(c, i) \in BOOLEAN
    BY DEF Bright
  <1>5. SgrStep(pen, Bright(c, i), c.params[i]) \in Attr
    BY <1>3, <1>4, SgrType
  <1> QED
    BY <1>5 DEF SgrAfter

LEMMA SgrGood ==
    ASSUME Geometry, NEW c, Good(c)
    PROVE  Recolours(c, ApplySgr(c), ApplySgr(c).pen)
  <1> DEFINE p0 == SgrAfter(c, c.pen, 0)
             p1 == SgrAfter(c, p0, 1)
             p2 == SgrAfter(c, p1, 2)
             p3 == SgrAfter(c, p2, 3)
  <1>1. c.pen \in Attr /\ Plain \in Attr
    BY DEF Good, Console, Plain, Attr
  <1>2. 0 \in 0 .. MaxParams - 1 /\ 1 \in 0 .. MaxParams - 1 /\ 2 \in 0 .. MaxParams - 1
        /\ 3 \in 0 .. MaxParams - 1
    BY DEF MaxParams
  <1>3. p0 \in Attr
    BY <1>1, <1>2, SgrAfterType
  <1> HIDE DEF p0
  <1>4. p1 \in Attr
    BY <1>2, <1>3, SgrAfterType
  <1> HIDE DEF p1
  <1>5. p2 \in Attr
    BY <1>2, <1>4, SgrAfterType
  <1> HIDE DEF p2
  <1>6. p3 \in Attr
    BY <1>2, <1>5, SgrAfterType
  <1>7. ApplySgr(c) = [c EXCEPT !.pen = IF c.count = 0 THEN Plain ELSE p3]
    BY DEF ApplySgr, p0, p1, p2
  <1> HIDE DEF p3
  <1> QED
    BY <1>1, <1>6, <1>7 DEF Recolours, Good, Console

LEMMA ClearScreenGood ==
    ASSUME Geometry, NEW c, Good(c)
    PROVE  Recolours(c, Repaint(ClearShadow(c)), Plain)
  <1>1. 0 \in 0 .. Rows - 1 /\ 0 \in 0 .. Cols - 1
    BY CursorInside
  <1>2. Space \in Glyph /\ Plain \in Attr
    BY DEF Space, Glyph, Plain, Attr
  <1>3. [i \in Cell |-> Space] \in [Cell -> Glyph] /\ [i \in Cell |-> Plain] \in [Cell -> Attr]
    BY <1>2
  <1>4. ClearShadow(c) \in Console /\ ClearShadow(c).pen = Plain
        /\ ClearShadow(c).params = c.params /\ ClearShadow(c).count = c.count
        /\ ClearShadow(c).value = c.value /\ ClearShadow(c).have = c.have
    BY <1>1, <1>2, <1>3 DEF ClearShadow, Good, Console
  <1>5. Redraws(ClearShadow(c), Repaint(ClearShadow(c)))
    BY <1>4, RepaintGood
  <1> QED
    BY <1>4, <1>5 DEF Redraws, SameParser, Recolours

LEMMA EraseGood ==
    ASSUME Geometry, NEW c, Good(c), NEW p \in Nat
    PROVE  /\ Recolours(c, EraseDisplay(c, p), IF p \in {2, 3} THEN Plain ELSE c.pen)
           /\ Redraws(c, EraseLine(c, p))
  <1> DEFINE here == CellOf(c.row, c.col)
  <1>1. c.row \in 0 .. Rows - 1 /\ c.col \in 0 .. Cols /\ 0 \in 0 .. Cols /\ Cols - 1 \in 0 .. Cols
    BY CursorInside
  <1>2. here \in Nat /\ CellOf(c.row, 0) \in Nat /\ CellOf(c.row, Cols - 1) \in Nat
    BY <1>1, CellInside
  <1>3. here + 1 \in Nat /\ CellOf(c.row, 0) + Cols \in Nat /\ CellOf(c.row, Cols - 1) + 1 \in Nat
        /\ 0 \in Nat /\ Cells \in Nat
    BY <1>2 DEF Geometry
  <1> HIDE DEF here
  <1>4. /\ Recolours(c, Repaint(ClearShadow(c)), Plain)
        /\ Redraws(c, ClearCellRange(c, 0, here + 1))
        /\ Redraws(c, ClearCellRange(c, here, Cells))
        /\ Redraws(c, ClearCellRange(c, CellOf(c.row, 0), CellOf(c.row, 0) + Cols))
        /\ Redraws(c, ClearCellRange(c, CellOf(c.row, 0), here + 1))
        /\ Redraws(c, ClearCellRange(c, here, CellOf(c.row, Cols - 1) + 1))
    BY <1>2, <1>3, ClearRangeGood, ClearScreenGood
  <1>5. \/ p \in {2, 3} /\ EraseDisplay(c, p) = Repaint(ClearShadow(c))
        \/ p \notin {2, 3} /\ EraseDisplay(c, p) \in {ClearCellRange(c, 0, here + 1),
                                                      ClearCellRange(c, here, Cells)}
    BY DEF EraseDisplay, here
  <1>6. EraseLine(c, p) \in {ClearCellRange(c, CellOf(c.row, 0), CellOf(c.row, 0) + Cols),
                             ClearCellRange(c, CellOf(c.row, 0), here + 1),
                             ClearCellRange(c, here, CellOf(c.row, Cols - 1) + 1)}
    BY DEF EraseLine, here
  <1>7. Recolours(c, EraseDisplay(c, p), IF p \in {2, 3} THEN Plain ELSE c.pen)
    BY <1>4, <1>5 DEF Redraws, SameParser, Recolours
  <1>8. Redraws(c, EraseLine(c, p))
    BY <1>4, <1>6
  <1> QED
    BY <1>7, <1>8

LEMMA EditGood ==
    ASSUME Geometry, NEW c, Good(c), NEW ch \in EditFinals
    PROVE  Recolours(c, ApplyEdit(c, ch), PenAfter(c, ch))
  <1> DEFINE p0 == IF c.count > 0 THEN c.params[0] ELSE 0
             n == CsiParamOr(c, 0, 1)
  <1>1. c.params \in [0 .. MaxParams - 1 -> 0 .. Word - 1] /\ Word \in Nat /\ 0 \in 0 .. MaxParams - 1
    BY DEF Good, Console, Geometry, MaxParams
  <1>2. c.params[0] \in 0 .. Word - 1
    BY <1>1
  <1>3. p0 \in Nat
    BY <1>1, <1>2
  <1>4. n \in Nat
    BY <1>1, ParamType
  <1> HIDE DEF p0, n
  <1>5. /\ Redraws(c, InsertCells(c, n)) /\ Redraws(c, EraseLine(c, p0))
        /\ Redraws(c, DeleteCells(c, n)) /\ Redraws(c, EraseCells(c, n))
        /\ Recolours(c, EraseDisplay(c, p0), IF p0 \in {2, 3} THEN Plain ELSE c.pen)
    BY <1>3, <1>4, InsertGood, DeleteGood, EraseCellsGood, EraseGood
  <1>6. \/ ch # 74 /\ ApplyEdit(c, ch) \in {InsertCells(c, n), EraseLine(c, p0),
                                            DeleteCells(c, n), EraseCells(c, n)}
        \/ ch = 74 /\ ApplyEdit(c, ch) = EraseDisplay(c, p0)
    BY DEF ApplyEdit, EditFinals, p0, n
  <1>7. CASE ch = 74
    <2>1. PenAfter(c, ch) = IF p0 \in {2, 3} THEN Plain ELSE c.pen
      BY <1>7 DEF PenAfter, p0, ColourFinal
    <2> QED
      BY <1>5, <1>6, <1>7, <2>1
  <1>8. CASE ch # 74
    <2>1. PenAfter(c, ch) = c.pen
      BY <1>8 DEF PenAfter, EditFinals, ColourFinal
    <2> QED
      BY <1>5, <1>6, <1>8, <2>1 DEF Redraws, SameParser, Recolours
  <1> QED
    BY <1>7, <1>8

\* Whatever the numbers are, and however their sums wrap, a move stays inside.
LEMMA MoveGood ==
    ASSUME Geometry, NEW c, Good(c), NEW ch \in MoveFinals
    PROVE  Redraws(c, ApplyMove(c, ch))
  <1> DEFINE n == CsiParamOr(c, 0, 1)
             m == CsiParamOr(c, 1, 1)
  <1>1. n \in Nat \ {0} /\ m \in Nat \ {0}
    BY ParamType DEF MaxParams
  <1>2. c.row \in Nat /\ c.col \in Nat /\ c.row \in 0 .. Rows - 1 /\ c.col \in 0 .. Cols - 1
        /\ Rows \in Nat /\ Cols \in Nat
    BY CursorInside
  <1>3. Word \in Nat /\ Word > 0
    BY <1>2 DEF Geometry
  <1> HIDE DEF n, m
  <1>4. c.row + n \in Nat /\ c.col + n \in Nat /\ n - 1 \in Nat /\ m - 1 \in Nat /\ 0 \in Nat
    BY <1>1, <1>2
  <1>5. (c.row + n) % Word \in Nat /\ (c.col + n) % Word \in Nat
    BY <1>3, <1>4
  <1>6. Back(c.row, n) \in 0 .. Rows - 1 /\ Back(c.col, n) \in 0 .. Cols - 1
    BY <1>1, <1>2 DEF Back
  <1>7. Back(c.row, n) \in Nat
    BY <1>2, <1>6
  <1>8. /\ Redraws(c, [c EXCEPT !.row = Back(c.row, n)])
        /\ Redraws(c, [c EXCEPT !.col = Back(c.col, n)])
    BY <1>6, RowGood, ColGood
  <1>9. /\ Redraws(c, SetCursor(c, (c.row + n) % Word, c.col))
        /\ Redraws(c, SetCursor(c, c.row, (c.col + n) % Word))
        /\ Redraws(c, SetCursor(c, (c.row + n) % Word, 0))
        /\ Redraws(c, SetCursor(c, Back(c.row, n), 0))
        /\ Redraws(c, SetCursor(c, c.row, n - 1))
        /\ Redraws(c, SetCursor(c, n - 1, m - 1))
        /\ Redraws(c, SetCursor(c, n - 1, c.col))
    BY <1>2, <1>4, <1>5, <1>7, SetCursorGood
  <1>10. ApplyMove(c, ch) \in
           {[c EXCEPT !.row = Back(c.row, n)], [c EXCEPT !.col = Back(c.col, n)],
            SetCursor(c, (c.row + n) % Word, c.col), SetCursor(c, c.row, (c.col + n) % Word),
            SetCursor(c, (c.row + n) % Word, 0), SetCursor(c, Back(c.row, n), 0),
            SetCursor(c, c.row, n - 1), SetCursor(c, n - 1, m - 1), SetCursor(c, n - 1, c.col)}
    BY DEF ApplyMove, MoveFinals, n, m, Good, Console
  <1> QED
    BY <1>8, <1>9, <1>10

LEMMA CsiGood ==
    ASSUME Geometry, NEW c, Good(c), NEW ch
    PROVE  Recolours(c, ApplyCsi(c, ch), PenAfter(c, ch))
  <1>1. CASE ch \in EditFinals
    <2>1. ch \notin MoveFinals /\ ch # ColourFinal
      BY <1>1 DEF EditFinals, MoveFinals, ColourFinal
    <2>2. ApplyCsi(c, ch) = ApplyEdit(c, ch)
      BY <1>1, <2>1 DEF ApplyCsi
    <2> QED
      BY <1>1, <2>2, EditGood
  <1>2. CASE ch \in MoveFinals
    <2>1. ch \notin EditFinals /\ ch # ColourFinal /\ ch # 74
      BY <1>2 DEF EditFinals, MoveFinals, ColourFinal
    <2>2. ApplyCsi(c, ch) = ApplyMove(c, ch)
      BY <1>2, <2>1 DEF ApplyCsi
    <2>3. PenAfter(c, ch) = c.pen
      BY <2>1 DEF PenAfter
    <2> QED
      BY <1>2, <2>2, <2>3, MoveGood DEF Redraws, SameParser, Recolours
  <1>3. CASE ch \notin EditFinals \cup MoveFinals
    <2>1. ch # 74
      BY <1>3 DEF EditFinals
    <2>2. CASE ch = ColourFinal
      <3>1. ApplyCsi(c, ch) = ApplySgr(c) /\ PenAfter(c, ch) = ApplySgr(c).pen
        BY <1>3, <2>1, <2>2 DEF ApplyCsi, PenAfter
      <3> QED
        BY <3>1, SgrGood
    <2>3. CASE ch # ColourFinal
      <3>1. ApplyCsi(c, ch) = c /\ PenAfter(c, ch) = c.pen
        BY <1>3, <2>1, <2>3 DEF ApplyCsi, PenAfter
      <3> QED
        BY <3>1 DEF Recolours
    <2> QED
      BY <2>2, <2>3
  <1> QED
    BY <1>1, <1>2, <1>3

\* The last byte of a sequence: the numbers are pushed, and the colour they name
\* is the only thing of the parser that the sequence changes.
LEMMA CompleteGood ==
    ASSUME Geometry, NEW c, Good(c), NEW ch
    PROVE  /\ Recolours(BeforeFinal(c), Complete(c, ch), PenAfter(BeforeFinal(c), ch))
           /\ Complete(c, ch).esc = "none"
  <1> DEFINE b == BeforeFinal(c)
             d == ApplyCsi(b, ch)
  <1>1. Good(b)
    BY PushGood DEF BeforeFinal
  <1> HIDE DEF b
  <1>2. Recolours(b, d, PenAfter(b, ch))
    BY <1>1, CsiGood
  <1> HIDE DEF d
  <1>3. Recolours(b, [d EXCEPT !.esc = "none"], PenAfter(b, ch)) /\ [d EXCEPT !.esc = "none"].esc = "none"
    BY <1>2 DEF Recolours, Good, Console
  <1> QED
    BY <1>3 DEF Complete, b, d

LEMMA DigitGood ==
    ASSUME Geometry, NEW c, Good(c), NEW ch \in Nat, Digit(ch)
    PROVE  Good([c EXCEPT !.value = (c.value * 10 + (ch - 48)) % Word, !.have = TRUE])
  <1>1. c.value \in 0 .. Word - 1 /\ Word \in Nat /\ Word > 0
    BY DEF Good, Console, Geometry
  <1>2. ch - 48 \in Nat
    BY DEF Digit
  <1>3. c.value * 10 + (ch - 48) \in Nat
    BY <1>1, <1>2
  <1>4. (c.value * 10 + (ch - 48)) % Word \in 0 .. Word - 1
    BY <1>1, <1>3
  <1> QED
    BY <1>4 DEF Good, Console

LEMMA ParseGood ==
    ASSUME Geometry, NEW c, Good(c), NEW ch \in Nat
    PROVE  Good(ParseStep(c, ch))
  <1> DEFINE digit == [c EXCEPT !.value = (c.value * 10 + (ch - 48)) % Word, !.have = TRUE]
  <1>1. Good([c EXCEPT !.esc = "esc"]) /\ Good([c EXCEPT !.esc = "none"])
        /\ Good([CsiReset(c) EXCEPT !.esc = "csi"]) /\ Good(CsiPushParam(c))
    BY EscGood, ResetGood, PushGood
  <1>2. Digit(ch) => Good(digit)
    BY DigitGood
  <1>3. \/ ParseStep(c, ch) \in {[c EXCEPT !.esc = "esc"], [c EXCEPT !.esc = "none"],
                                 [CsiReset(c) EXCEPT !.esc = "csi"], CsiPushParam(c), c}
        \/ Digit(ch) /\ ParseStep(c, ch) = digit
    BY DEF ParseStep, Escape, Digit, Good, Console
  <1> HIDE DEF digit
  <1> QED
    BY <1>1, <1>2, <1>3

(***************************************************************************)
(* putc1 and the specification.                                            *)
(***************************************************************************)
LEMMA PrintGood ==
    ASSUME Geometry, NEW c, Good(c), NEW ch
    PROVE  Redraws(c, PrintByte(c, ch))
  <1> DEFINE glyph == IF ch \in Glyph THEN ch ELSE Dot
             put == PutCell(c, c.row, c.col, glyph)
  <1>1. glyph \in Glyph
    BY DEF Dot, Glyph
  <1>2. c.row \in 0 .. Rows - 1 /\ c.col \in 0 .. Cols - 1 /\ c.col \in Nat /\ Cols \in Nat
    BY CursorInside
  <1> HIDE DEF glyph
  <1>3. Redraws(c, put) /\ Good(put) /\ put.row = c.row /\ put.col = c.col
    BY <1>1, <1>2, PutCellGood DEF Redraws
  <1>4. PrintByte(c, ch) = IF c.col + 1 >= Cols THEN Newline(put) ELSE [put EXCEPT !.col = put.col + 1]
    <2> USE DEF PrintByte, glyph
    <2> QED
      BY <1>3 DEF Good, Console
  <1> HIDE DEF put
  <1>5. CASE c.col + 1 >= Cols
    BY <1>3, <1>4, <1>5, NewlineGood DEF Redraws, SameParser
  <1>6. CASE ~ (c.col + 1 >= Cols)
    <2>1. put.col + 1 \in 0 .. Cols - 1
      BY <1>2, <1>3, <1>6
    <2>2. Redraws(put, [put EXCEPT !.col = put.col + 1])
      BY <1>3, <2>1, ColGood
    <2> QED
      BY <1>3, <1>4, <1>6, <2>2 DEF Redraws, SameParser
  <1> QED
    BY <1>5, <1>6

\* A printed byte moves the cursor one column on, or to column 0 at the end of the
\* row, also when that scrolls the screen.
LEMMA PrintMoves ==
    ASSUME Geometry, NEW c, Good(c), NEW ch
    PROVE  PrintByte(c, ch).col = IF c.col + 1 >= Cols THEN 0 ELSE c.col + 1
  <1> DEFINE glyph == IF ch \in Glyph THEN ch ELSE Dot
             put == PutCell(c, c.row, c.col, glyph)
  <1>1. glyph \in Glyph
    BY DEF Dot, Glyph
  <1>2. c.row \in 0 .. Rows - 1 /\ c.col \in 0 .. Cols - 1
    BY CursorInside
  <1> HIDE DEF glyph
  <1>3. put \in Console /\ put.col = c.col
    BY <1>1, <1>2, PutCellGood DEF Redraws, Good
  <1>4. PrintByte(c, ch) = IF c.col + 1 >= Cols THEN Newline(put) ELSE [put EXCEPT !.col = put.col + 1]
    BY <1>3 DEF PrintByte, glyph, Console
  <1> HIDE DEF put
  <1>5. Newline(put).col = 0
    BY <1>3 DEF Newline, Scroll, Repaint, WriteWords, Console
  <1> QED
    BY <1>3, <1>4, <1>5 DEF Console

\* A turn of the tab loop ends the tab or comes one column nearer to its stop.
LEMMA TabTurn ==
    ASSUME Geometry, NEW c, Good(c), NEW ch, ~ TabEnded(PrintByte(c, ch))
    PROVE  PrintByte(c, ch).col % 8 = (c.col % 8) + 1
  <1>1. c.col \in Nat
    BY CursorInside
  <1>2. c.col + 1 < Cols /\ PrintByte(c, ch).col = c.col + 1
    BY <1>1, PrintMoves DEF TabEnded, Geometry
  <1>3. (c.col + 1) % 8 # 0
    BY <1>2 DEF TabEnded
  <1> QED
    BY <1>1, <1>2, <1>3

LEMMA BackspaceGood ==
    ASSUME Geometry, NEW c, Good(c)
    PROVE  Redraws(c, Backspace(c))
  <1> DEFINE d == [c EXCEPT !.col = c.col - 1]
  <1>1. c.row \in 0 .. Rows - 1 /\ c.col \in 0 .. Cols - 1 /\ c.col \in Nat /\ Cols \in Nat
    BY CursorInside
  <1>2. CASE c.col > 0
    <2>1. c.col - 1 \in 0 .. Cols - 1
      BY <1>1, <1>2
    <2>2. Redraws(c, d) /\ Good(d)
      BY <2>1, ColGood DEF Redraws
    <2>3. Space \in Glyph
      BY DEF Space, Glyph
    <2>4. Backspace(c) = PutCell(d, c.row, c.col - 1, Space)
      BY <1>2 DEF Backspace, Good, Console
    <2> HIDE DEF d
    <2> QED
      BY <1>1, <2>1, <2>2, <2>3, <2>4, PutCellGood DEF Redraws, SameParser
  <1>3. CASE ~ (c.col > 0)
    BY <1>3 DEF Backspace, Redraws, SameParser
  <1> QED
    BY <1>2, <1>3

LEMMA ControlGood ==
    ASSUME Geometry, NEW c, Good(c), NEW ch \in ControlBytes
    PROVE  Redraws(c, Control(c, ch))
  <1>1. Redraws(c, [c EXCEPT !.col = 0])
    BY CursorInside, ColGood
  <1>2. Control(c, ch) \in {[c EXCEPT !.col = 0], Newline(c), Backspace(c)}
    BY DEF Control, ControlBytes
  <1> QED
    BY <1>1, <1>2, NewlineGood, BackspaceGood

LEMMA Putc1Good ==
    ASSUME Geometry, NEW c, Good(c), NEW ch \in Nat
    PROVE  Good(Putc1(c, ch))
  <1>1. CASE Completes(c, ch)
    <2>1. Consumes(c, ch)
      BY <1>1 DEF Completes, Consumes
    <2>2. Putc1(c, ch) = Complete(c, ch)
      BY <1>1, <2>1 DEF Putc1
    <2> QED
      BY <2>2, CompleteGood DEF Recolours
  <1>2. CASE Consumes(c, ch) /\ ~ Completes(c, ch)
    <2>1. Putc1(c, ch) = ParseStep(c, ch)
      BY <1>2 DEF Putc1
    <2> QED
      BY <2>1, ParseGood
  <1>3. CASE ~ Consumes(c, ch) /\ ~ Completes(c, ch)
    <2>1. \/ ch \in ControlBytes /\ Putc1(c, ch) = Control(c, ch)
          \/ Putc1(c, ch) = PrintByte(c, ch)
      BY <1>3 DEF Putc1
    <2> QED
      BY <2>1, ControlGood, PrintGood DEF Redraws
  <1> QED
    BY <1>1, <1>2, <1>3

LEMMA InitialGood ==
    ASSUME Geometry
    PROVE  Good(InitialScreen)
  <1>1. 0 \in 0 .. Rows - 1 /\ 0 \in 0 .. Cols - 1 /\ 0 \in 0 .. Word - 1 /\ 0 \in 0 .. MaxParams
    BY DEF Geometry, MaxParams
  <1>2. Space \in Glyph /\ Plain \in Attr
    BY DEF Space, Glyph, Plain, Attr
  <1> QED
    BY <1>1, <1>2 DEF InitialScreen, Good, Console

LEMMA StepGood ==
    ASSUME Geometry, Good(con), tab \in BOOLEAN, [Next]_vars
    PROVE  Good(con') /\ tab' \in BOOLEAN
  <1>1. ASSUME NEW ch \in Bytes, Putc(ch) PROVE Good(con') /\ tab' \in BOOLEAN
    <2>1. ch \in Nat
      BY DEF Geometry
    <2> QED
      BY <1>1, <2>1, Putc1Good DEF Putc
  <1>2. ASSUME PutSpace PROVE Good(con') /\ tab' \in BOOLEAN
    BY <1>2, PrintGood DEF PutSpace, Redraws
  <1>3. CASE Restart
    BY <1>3, ClearScreenGood DEF Restart, Recolours
  <1>4. CASE UNCHANGED vars
    BY <1>4 DEF vars, Good
  <1> QED
    BY <1>1, <1>2, <1>3, <1>4 DEF Next, StartTab, NextTab

\* The invariant: types and painting need each other, since what is written to
\* the panel is computed from the cursor.
LEMMA GoodInvariance ==
    ASSUME Geometry
    PROVE  Spec => [](Good(con) /\ tab \in BOOLEAN)
  <1> DEFINE Inv == Good(con) /\ tab \in BOOLEAN
  <1>1. Init => Inv
    BY InitialGood DEF Init
  <1>2. Inv /\ [Next]_vars => Inv'
    BY StepGood
  <1> HIDE DEF Inv
  <1>3. Spec => []Inv
    BY <1>1, <1>2, PTL DEF Spec
  <1> QED
    BY <1>3 DEF Inv

\* hdmi_console_*, lcd_console_*: for every screen size and every stream of bytes
\* the cursor is on the screen, each shadow cell holds a printable byte and a
\* nibble of colour, and the parser never stores past its four parameters.
THEOREM ConsoleTypeCorrect ==
    ASSUME Geometry
    PROVE  Spec => []TypeOK
  <1>1. Good(con) /\ tab \in BOOLEAN => TypeOK
    BY DEF Good, TypeOK
  <1>2. Spec => [](Good(con) /\ tab \in BOOLEAN)
    BY GoodInvariance
  <1> QED
    BY <1>1, <1>2, PTL

\* For every screen size and every stream of bytes, the panel shows what the
\* shadow arrays hold after each byte: no function forgets a word it changed.
THEOREM ConsolePainted ==
    ASSUME Geometry
    PROVE  Spec => []Painted
  <1>1. Good(con) /\ tab \in BOOLEAN => Painted
    BY DEF Good, Painted
  <1>2. Spec => [](Good(con) /\ tab \in BOOLEAN)
    BY GoodInvariance
  <1> QED
    BY <1>1, <1>2, PTL

(***************************************************************************)
(* What the row edits change.                                              *)
(***************************************************************************)
\* Multiples of the width are a width apart.
LEMMA RowsApart ==
    ASSUME NEW w \in Nat, NEW q \in Nat, NEW r \in Nat, q < r
    PROVE  q * w + w <= r * w /\ q * w \in Nat /\ r * w \in Nat
  <1>1. r - (q + 1) \in Nat
    OBVIOUS
  <1>2. (r - (q + 1)) * w \in Nat
    BY <1>1
  <1>3. (r - (q + 1)) * w = r * w - (q * w + w)
    OBVIOUS
  <1>4. r * w \in Nat /\ q * w \in Nat
    OBVIOUS
  <1> QED
    BY <1>2, <1>3, <1>4

\* The cells of row r are those from its first to its last column.
LEMMA RowOfCell ==
    ASSUME Geometry, NEW i \in Cell, NEW r \in 0 .. Rows - 1
    PROVE  /\ i \div Cols # r => i < CellOf(r, 0) \/ i >= CellOf(r, Cols)
           /\ i \div Cols = r => i = CellOf(r, 0) + (i % Cols)
  <1>1. i \in Nat /\ r \in Nat /\ Cols \in Nat /\ Cols > 0
    BY DEF Cell, Geometry
  <1>2. PICK q \in Nat, k \in Nat : q = i \div Cols /\ k = i % Cols /\ k < Cols /\ i = q * Cols + k
    BY <1>1
  <1>3. CellOf(r, 0) = r * Cols /\ CellOf(r, Cols) = r * Cols + Cols /\ r * Cols \in Nat
    BY <1>1 DEF CellOf
  <1>4. q < r => q * Cols + Cols <= r * Cols
    BY <1>1, RowsApart
  <1>5. r < q => r * Cols + Cols <= q * Cols
    BY <1>1, RowsApart
  <1>6. q * Cols \in Nat
    BY <1>1
  <1>7. ASSUME q # r PROVE i < r * Cols \/ i >= r * Cols + Cols
    <2>1. i = q * Cols + k
      BY <1>2
    <2>2. k < Cols
      BY <1>2
    <2>3. q < r \/ r < q
      BY <1>1, <1>7
    <2> QED
      BY <1>1, <1>3, <1>4, <1>5, <1>6, <2>1, <2>2, <2>3
  <1>8. ASSUME q = r PROVE i = r * Cols + k
    BY <1>2, <1>8
  <1>9. q = i \div Cols /\ k = i % Cols
    BY <1>2
  <1> QED
    BY <1>3, <1>7, <1>8, <1>9

\* Where the row of the cursor is, among the cells.
LEMMA RowEnds ==
    ASSUME Geometry, NEW c, Good(c)
    PROVE  /\ CellOf(c.row, 0) \in Nat /\ CellOf(c.row, c.col) \in Nat /\ CellOf(c.row, Cols) \in Nat
           /\ CellOf(c.row, c.col) = CellOf(c.row, 0) + c.col
           /\ CellOf(c.row, Cols) = CellOf(c.row, 0) + Cols
           /\ CellOf(c.row, Cols) = CellOf(c.row, Cols - 1) + 1
           /\ CellOf(c.row, Cols) <= Cells
  <1>1. c.row \in 0 .. Rows - 1 /\ c.row \in Nat /\ c.col \in 0 .. Cols /\ c.col \in Nat
        /\ Cols \in Nat /\ 0 \in 0 .. Cols /\ Cols \in 0 .. Cols
    BY CursorInside
  <1>2. c.row * Cols \in Nat
    BY <1>1
  <1> QED
    BY <1>1, <1>2, CellInside DEF CellOf

LEMMA ClearRangeKeeps ==
    ASSUME Geometry, NEW c, Good(c), NEW start \in Nat, NEW endCell \in Nat,
           NEW i \in Cell, i < start \/ i >= endCell
    PROVE  /\ ClearCellRange(c, start, endCell).text[i] = c.text[i]
           /\ ClearCellRange(c, start, endCell).attr[i] = c.attr[i]
  <1> DEFINE last == IF endCell > Cells THEN Cells ELSE endCell
             text == [j \in Cell |-> IF j \in start .. last - 1 THEN Space ELSE c.text[j]]
             attr == [j \in Cell |-> IF j \in start .. last - 1 THEN c.pen ELSE c.attr[j]]
             d == WriteWords([c EXCEPT !.text = text, !.attr = attr],
                             (start \div 4) .. ((last - 1) \div 4))
  <1>1. last \in Nat /\ last <= endCell /\ i \in Nat
    BY DEF Geometry, Cell
  <1>2. ClearCellRange(c, start, endCell) \in {c, d}
    BY DEF ClearCellRange
  <1> HIDE DEF last
  <1>3. text[i] = c.text[i] /\ attr[i] = c.attr[i]
    BY <1>1
  <1> HIDE DEF text, attr
  <1>4. d.text = text /\ d.attr = attr
    BY DEF WriteWords, Good, Console
  <1> HIDE DEF d
  <1> QED
    BY <1>2, <1>3, <1>4

\* The shadow after @ and after P, cell by cell.
LEMMA InsertShadow ==
    ASSUME Geometry, NEW c, Good(c), NEW count \in Nat
    PROVE  LET n == RowCount(c, count)
               first == CellOf(c.row, c.col)
               past == CellOf(c.row, Cols)
               d == InsertCells(c, count)
           IN  /\ d.row = c.row /\ d.col = c.col
               /\ \A i \in Cell : i < first \/ i >= past =>
                      d.text[i] = c.text[i] /\ d.attr[i] = c.attr[i]
               /\ \A i \in Cell : ~ (i < first \/ i >= past) /\ i >= first + n =>
                      d.text[i] = c.text[i - n] /\ d.attr[i] = c.attr[i - n]
  <1> DEFINE n == RowCount(c, count)
             first == CellOf(c.row, c.col)
             past == CellOf(c.row, Cols)
             text == [i \in Cell |-> IF i < first \/ i >= past THEN c.text[i]
                                     ELSE IF i >= first + n THEN c.text[i - n] ELSE Space]
             attr == [i \in Cell |-> IF i < first \/ i >= past THEN c.attr[i]
                                     ELSE IF i >= first + n THEN c.attr[i - n] ELSE c.pen]
             d == InsertCells(c, count)
  <1>1. ~ CursorOutside(c)
    BY CursorInside DEF CursorOutside
  <1>2. d = WriteWords([c EXCEPT !.text = text, !.attr = attr],
                       (CellOf(c.row, c.col) \div 4) .. (CellOf(c.row, Cols - 1) \div 4))
    BY <1>1 DEF InsertCells, RewriteRowWords
  <1> HIDE DEF text, attr, d
  <1>3. d.text = text /\ d.attr = attr /\ d.row = c.row /\ d.col = c.col
    BY <1>2 DEF WriteWords, Good, Console
  <1>4. /\ \A i \in Cell : i < first \/ i >= past => text[i] = c.text[i] /\ attr[i] = c.attr[i]
        /\ \A i \in Cell : ~ (i < first \/ i >= past) /\ i >= first + n =>
               text[i] = c.text[i - n] /\ attr[i] = c.attr[i - n]
    BY DEF text, attr
  <1> QED
    BY <1>3, <1>4 DEF d

LEMMA DeleteShadow ==
    ASSUME Geometry, NEW c, Good(c), NEW count \in Nat
    PROVE  LET n == RowCount(c, count)
               first == CellOf(c.row, c.col)
               past == CellOf(c.row, Cols)
               d == DeleteCells(c, count)
           IN  /\ \A i \in Cell : i < first \/ i >= past =>
                      d.text[i] = c.text[i] /\ d.attr[i] = c.attr[i]
               /\ \A i \in Cell : ~ (i < first \/ i >= past) /\ i + n < past =>
                      d.text[i] = c.text[i + n] /\ d.attr[i] = c.attr[i + n]
  <1> DEFINE n == RowCount(c, count)
             first == CellOf(c.row, c.col)
             past == CellOf(c.row, Cols)
             text == [i \in Cell |-> IF i < first \/ i >= past THEN c.text[i]
                                     ELSE IF i + n < past THEN c.text[i + n] ELSE Space]
             attr == [i \in Cell |-> IF i < first \/ i >= past THEN c.attr[i]
                                     ELSE IF i + n < past THEN c.attr[i + n] ELSE c.pen]
             d == DeleteCells(c, count)
  <1>1. ~ CursorOutside(c)
    BY CursorInside DEF CursorOutside
  <1>2. d = WriteWords([c EXCEPT !.text = text, !.attr = attr],
                       (CellOf(c.row, c.col) \div 4) .. (CellOf(c.row, Cols - 1) \div 4))
    BY <1>1 DEF DeleteCells, RewriteRowWords
  <1> HIDE DEF text, attr, d
  <1>3. d.text = text /\ d.attr = attr
    BY <1>2 DEF WriteWords, Good, Console
  <1>4. /\ \A i \in Cell : i < first \/ i >= past => text[i] = c.text[i] /\ attr[i] = c.attr[i]
        /\ \A i \in Cell : ~ (i < first \/ i >= past) /\ i + n < past =>
               text[i] = c.text[i + n] /\ attr[i] = c.attr[i + n]
    BY DEF text, attr
  <1> QED
    BY <1>3, <1>4 DEF d

RowFinals == {64, 75, 80, 88}   \* @ K P X

\* An edit of the cursor's row leaves the other rows as they are, whatever its
\* number is.
LEMMA RowEditStays ==
    ASSUME Geometry, NEW c, Good(c), NEW ch \in RowFinals, NEW i \in Cell, i \div Cols # c.row
    PROVE  Complete(c, ch).text[i] = c.text[i] /\ Complete(c, ch).attr[i] = c.attr[i]
  <1> DEFINE b == BeforeFinal(c)
             n == CsiParamOr(b, 0, 1)
             p0 == IF b.count > 0 THEN b.params[0] ELSE 0
             Same(d) == d.text[i] = b.text[i] /\ d.attr[i] = b.attr[i]
  <1>1. Good(b)
    BY PushGood DEF BeforeFinal
  <1>2. b.row = c.row /\ b.text = c.text /\ b.attr = c.attr
    BY DEF BeforeFinal, CsiPushParam, Good, Console
  <1> HIDE DEF b
  <1>3. n \in Nat
    BY <1>1, ParamType DEF MaxParams
  <1> HIDE DEF n
  <1> DEFINE start == CellOf(b.row, 0)
             here == CellOf(b.row, b.col)
             past == CellOf(b.row, Cols)
  <1>4. start \in Nat /\ here \in Nat /\ past \in Nat /\ here = start + b.col /\ past = start + Cols
        /\ past = CellOf(b.row, Cols - 1) + 1 /\ b.col \in Nat /\ b.col < Cols /\ Cols \in Nat
        /\ i \in Nat
    BY <1>1, RowEnds, CursorInside DEF Cell
  <1>5. i < start \/ i >= past
    BY <1>1, <1>2, RowOfCell, CursorInside
  <1>6. Same(InsertCells(b, n)) /\ Same(DeleteCells(b, n))
    <2>1. i < here \/ i >= past
      BY <1>4, <1>5
    <2> QED
      BY <1>1, <1>3, <2>1, InsertShadow, DeleteShadow
  <1>7. ASSUME NEW from \in Nat, NEW to \in Nat, from >= start, to <= past
        PROVE  Same(ClearCellRange(b, from, to))
    <2>1. i < from \/ i >= to
      BY <1>4, <1>5, <1>7
    <2> QED
      BY <1>1, <2>1, ClearRangeKeeps
  <1>8. Same(EraseCells(b, n))
    <2> DEFINE m == IF n = 0 THEN 1 ELSE n
               sum == (b.col + m) % Word
               endCol == IF sum > Cols THEN Cols ELSE sum
    <2>1. Word \in Nat /\ Word > 0 /\ b.col + m \in Nat
      BY <1>3, <1>4 DEF Geometry
    <2> HIDE DEF m
    <2>2. sum \in Nat
      BY <2>1
    <2> HIDE DEF sum
    <2>3. endCol \in Nat /\ endCol <= Cols
      BY <1>4, <2>2
    <2>4. CellOf(b.row, endCol) = start + endCol
      BY <1>1, <2>3, CursorInside DEF CellOf
    <2>5. CellOf(b.row, endCol) \in Nat /\ CellOf(b.row, endCol) <= past
      BY <1>4, <2>3, <2>4
    <2>6. EraseCells(b, n) \in {b, ClearCellRange(b, here, CellOf(b.row, endCol))}
      BY DEF EraseCells, m, sum
    <2> HIDE DEF endCol
    <2>7. Same(ClearCellRange(b, here, CellOf(b.row, endCol)))
      BY <1>4, <1>7, <2>5
    <2> QED
      BY <2>6, <2>7
  <1>9. Same(EraseLine(b, p0))
    <2>1. EraseLine(b, p0) \in {ClearCellRange(b, start, start + Cols), ClearCellRange(b, start, here + 1),
                                ClearCellRange(b, here, CellOf(b.row, Cols - 1) + 1)}
      BY DEF EraseLine
    <2>2. Same(ClearCellRange(b, start, start + Cols))
      BY <1>4, <1>7
    <2>3. Same(ClearCellRange(b, start, here + 1))
      BY <1>4, <1>7
    <2>4. Same(ClearCellRange(b, here, CellOf(b.row, Cols - 1) + 1))
      BY <1>4, <1>7
    <2> HIDE DEF Same
    <2> QED
      BY <2>1, <2>2, <2>3, <2>4
  <1>10. ApplyCsi(b, ch) = ApplyEdit(b, ch)
    BY DEF ApplyCsi, RowFinals, EditFinals, MoveFinals, ColourFinal
  <1>11. ApplyEdit(b, ch) \in {InsertCells(b, n), EraseLine(b, p0), DeleteCells(b, n), EraseCells(b, n)}
    BY DEF ApplyEdit, RowFinals, n
  <1> HIDE DEF p0
  <1>12. Same(ApplyCsi(b, ch))
    <2> HIDE DEF Same
    <2> QED
      BY <1>6, <1>8, <1>9, <1>10, <1>11
  <1>13. ApplyCsi(b, ch) \in Console
    BY <1>1, CsiGood DEF Recolours, Good
  <1>14. Complete(c, ch).text = ApplyCsi(b, ch).text /\ Complete(c, ch).attr = ApplyCsi(b, ch).attr
    BY <1>13 DEF Complete, Console, b
  <1> QED
    BY <1>2, <1>12, <1>14

\* n cells inserted and n deleted: every row comes back, but for the n cells that
\* were pushed off the end of the cursor's row.
LEMMA DeleteUndoesInsert ==
    ASSUME Geometry, NEW c, Good(c), NEW n \in 1 .. Cols - c.col, NEW i \in Cell,
           i \div Cols # c.row \/ i % Cols < Cols - n
    PROVE  /\ DeleteCells(InsertCells(c, n), n).text[i] = c.text[i]
           /\ DeleteCells(InsertCells(c, n), n).attr[i] = c.attr[i]
  <1> DEFINE d == InsertCells(c, n)
             e == DeleteCells(d, n)
             start == CellOf(c.row, 0)
             first == CellOf(c.row, c.col)
             past == CellOf(c.row, Cols)
  <1>1. c.row \in 0 .. Rows - 1 /\ c.col \in Nat /\ Cols \in Nat /\ c.col < Cols
    BY CursorInside
  <1>2. n \in Nat /\ n >= 1 /\ n <= Cols - c.col
    BY <1>1
  <1>3. Good(d) /\ d.row = c.row /\ d.col = c.col
    BY <1>2, InsertGood, InsertShadow DEF Redraws
  <1>4. RowCount(c, n) = n /\ RowCount(d, n) = n
    BY <1>1, <1>2, <1>3 DEF RowCount
  <1>5. start \in Nat /\ first \in Nat /\ past \in Nat /\ first = start + c.col /\ past = start + Cols
        /\ i \in Nat /\ past <= Cells
    BY RowEnds DEF Cell
  <1>6. i < start \/ i >= past \/ i + n < past
    <2>1. CASE i \div Cols # c.row
      BY <1>1, <2>1, RowOfCell
    <2>2. CASE i \div Cols = c.row
      <3>1. i = start + (i % Cols) /\ i % Cols < Cols - n
        BY <1>1, <2>2, RowOfCell
      <3>2. PICK k \in Nat : k = i % Cols
        BY <1>1, <1>5
      <3>3. i = start + k /\ k < Cols - n
        BY <3>1, <3>2
      <3> QED
        BY <1>1, <1>2, <1>5, <3>3
    <2> QED
      BY <2>1, <2>2
  <1>7. CASE i < first \/ i >= past
    <2>1. d.text[i] = c.text[i] /\ d.attr[i] = c.attr[i]
      BY <1>2, <1>7, InsertShadow
    <2>2. e.text[i] = d.text[i] /\ e.attr[i] = d.attr[i]
      <3> HIDE DEF d
      <3> QED
        BY <1>2, <1>3, <1>7, DeleteShadow
    <2> QED
      BY <2>1, <2>2
  <1>8. CASE ~ (i < first \/ i >= past)
    <2>1. i + n < past /\ i + n >= first + n /\ ~ (i + n < first \/ i + n >= past) /\ (i + n) - n = i
      BY <1>1, <1>2, <1>5, <1>6, <1>8
    <2>2. i + n \in Cell
      BY <1>2, <1>5, <2>1 DEF Cell, Geometry
    <2>3. d.text[i + n] = c.text[(i + n) - n] /\ d.attr[i + n] = c.attr[(i + n) - n]
      <3>1. \A j \in Cell : ~ (j < first \/ j >= past) /\ j >= first + n =>
                d.text[j] = c.text[j - n] /\ d.attr[j] = c.attr[j - n]
        BY <1>2, <1>4, InsertShadow
      <3> HIDE DEF d, first, past
      <3> QED
        BY <2>1, <2>2, <3>1
    <2>4. e.text[i] = d.text[i + n] /\ e.attr[i] = d.attr[i + n]
      <3> HIDE DEF d
      <3> QED
        BY <1>2, <1>3, <1>4, <1>8, <2>1, DeleteShadow
    <2> QED
      BY <2>1, <2>3, <2>4
  <1> QED
    BY <1>7, <1>8
=============================================================================
