-------------------------- MODULE GpuRaster_proofs --------------------------
(***************************************************************************)
(* The pixels of the fill engine for coordinates, strides and commands of  *)
(* any size: rectangles, copies and scaled copies touch each pixel once at *)
(* its place, and a line stays within half a pixel of the ideal one.       *)
(***************************************************************************)
EXTENDS GpuRaster, TLAPS

(***************************************************************************)
(* The inductive invariant.                                                *)
(***************************************************************************)

\* Where the pixel is in its rectangle.
Across == pos.x - cmd.x
Down == pos.y - cmd.y

\* The rows above the first pixel are skipped before anything is drawn.
StartOK ==
  busy /\ dst.rows # 0 => pos = [x |-> cmd.x, y |-> cmd.y] /\ dst.rows <= cmd.y

\* The row register stays at the left edge; the pixels are counted row by row.
RectPlace ==
  /\ Across \in 0 .. cmd.w - 1 /\ Down \in 0 .. cmd.h - 1
  /\ count = Down * cmd.w + Across
  /\ dst.row = FbAddr + 4 * cmd.x + FbStride * (pos.y - dst.rows)
  /\ dst.addr = dst.row + 4 * Across
RectOK == RectFits /\ busy => RectPlace

BlitOK ==
  RectFits /\ busy /\ cmd.op = "blit" =>
    /\ src.row = SrcAddr + SrcStride * Down
    /\ src.addr = src.row + 4 * Across

\* The accumulators are what the source position, a columns and b rows, still
\* lacks; the flags say whether that is a whole step.  Rows come first.
Scaled(a, b) ==
  /\ Across * cmd.sw = a * cmd.w + acc.x
  /\ Down * cmd.sh = b * cmd.h + acc.y
  /\ src.row = SrcAddr + SrcStride * b
  /\ src.addr = src.row + 4 * a
ScaleOK ==
  RectFits /\ busy /\ cmd.op = "scale" =>
    /\ acc.x_adv <=> acc.x >= cmd.w
    /\ acc.y_adv <=> acc.y >= cmd.h
    /\ acc.y_adv => Across = 0 /\ acc.x = 0 /\ src.addr = src.row
    /\ \E a \in Nat, b \in Nat : Scaled(a, b)

\* The pixel is on the way from a to b.
Between(a, b, p) == IF b >= a THEN a <= p /\ p <= b ELSE b <= p /\ p <= a

\* After i and j steps along sides dx and dy, the error term e is the distance from
\* the ideal line, which is at most half a pixel.
Near(dx, dy, i, j, e) ==
  LET off == dx * j - dy * i
      L == IF dx >= dy THEN dx ELSE dy
  IN  /\ i <= dx /\ j <= dy
      /\ e = dx - dy + off
      /\ 2 * off <= L /\ -L <= 2 * off

\* Where the pixel is on its line; the longer axis moves at every pixel.
Moved_x == Distance(cmd.x, pos.x)
Moved_y == Distance(cmd.y, pos.y)
LinePlace ==
  /\ Between(cmd.x, cmd.w, pos.x) /\ Between(cmd.y, cmd.h, pos.y)
  /\ Near(line_dx, line_dy, Moved_x, Moved_y, err)
  /\ count = IF line_dx >= line_dy THEN Moved_x ELSE Moved_y
  /\ dst.addr = FbAddr + 4 * pos.x + FbStride * (pos.y - dst.rows)
LineOK == cmd.op = "line" /\ busy => LinePlace

\* A command that has ended has drawn all its pixels.
AllDrawn ==
  ~busy =>
    /\ cmd.op = "line" => count = Longer + 1
    /\ RectFits => count = cmd.w * cmd.h

Rect == RectOK /\ BlitOK /\ ScaleOK
IInv == TypeOK /\ Accepted(cmd) /\ StartOK /\ Rect /\ LineOK /\ AllDrawn
-----------------------------------------------------------------------------
(* Arithmetic.                                                             *)

LEMMA Products ==
    ASSUME NEW n \in Nat, NEW x \in Nat, NEW y \in Nat
    PROVE  /\ n * x \in Nat /\ x * n = n * x
           /\ n * (x + y) = n * x + n * y
           /\ x >= y => n * (x - y) = n * x - n * y
           /\ n * 0 = 0 /\ n * 1 = n
           /\ y >= 1 => n * y >= n
  <1>1. /\ n * x \in Nat /\ x * n = n * x
        /\ n * (x + y) = n * x + n * y
        /\ n * 0 = 0 /\ n * 1 = n
    OBVIOUS
  <1>2. ASSUME x >= y PROVE n * (x - y) = n * x - n * y
    <2>1. PICK d \in Nat : x = y + d
      BY <1>2
    <2>2. n * (y + d) = n * y + n * d /\ x - y = d
      BY <2>1
    <2> QED BY <2>1, <2>2
  <1>3. ASSUME y >= 1 PROVE n * y >= n
    <2>1. PICK d \in Nat : y = 1 + d
      BY <1>3
    <2>2. n * (1 + d) = n + n * d /\ n * d \in Nat
      BY <2>1
    <2> QED BY <2>1, <2>2
  <1> QED BY <1>1, <1>2, <1>3

LEMMA CompareIs ==
    ASSUME NEW a \in Int, NEW b \in Int
    PROVE  \E v \in BOOLEAN : v = (a >= b)
  <1>1. CASE a >= b
    <2>1. TRUE = (a >= b)
      BY <1>1
    <2> QED BY <2>1
  <1>2. CASE ~(a >= b)
    <2>1. FALSE = (a >= b)
      BY <1>2
    <2> QED BY <2>1
  <1> QED BY <1>1, <1>2

\* Quotient and remainder are what they are.
LEMMA DivModIs ==
    ASSUME NEW n \in Nat, NEW q \in Nat, NEW r \in Nat, r < n
    PROVE  (q * n + r) \div n = q /\ (q * n + r) % n = r
  <1>1. n \in Nat \ {0} /\ q * n + r \in Nat
    OBVIOUS
  <1>2. PICK p \in Nat, s \in Nat :
          /\ p = (q * n + r) \div n /\ s = (q * n + r) % n
          /\ s < n /\ q * n + r = p * n + s
    BY <1>1
  <1>3. ~(p > q)
    <2> SUFFICES ASSUME p > q PROVE FALSE
      OBVIOUS
    <2>1. PICK d \in Nat : p = q + d /\ d >= 1
      BY <1>2
    <2>2. p * n = q * n + n * d /\ n * d >= n /\ q * n \in Nat
      BY <2>1, Products
    <2> QED BY <1>2, <2>2
  <1>4. ~(q > p)
    <2> SUFFICES ASSUME q > p PROVE FALSE
      OBVIOUS
    <2>1. PICK d \in Nat : q = p + d /\ d >= 1
      BY <1>2
    <2>2. q * n = p * n + n * d /\ n * d >= n /\ p * n \in Nat
      BY <2>1, Products
    <2> QED BY <1>2, <2>2
  <1>5. p = q
    BY <1>2, <1>3, <1>4
  <1> QED BY <1>2, <1>5
-----------------------------------------------------------------------------
(* One step of a line, of which dx is the longer side: it moves along it,  *)
(* and the distance from the ideal line stays at most half a pixel.        *)

LEMMA LongerMoves ==
    ASSUME NEW dx \in Nat, NEW dy \in Nat, NEW i \in Nat, NEW j \in Nat, NEW e \in Int,
           dy <= dx, i <= dx, j <= dy, ~(i = dx /\ j = dy),
           e = dx - dy + dx * j - dy * i,
           2 * (dx * j - dy * i) <= dx, -dx <= 2 * (dx * j - dy * i)
    PROVE  2 * e > -dy /\ i < dx
  <1>1. PICK P \in Nat, Q \in Nat : P = dx * j /\ Q = dy * i
    BY Products
  <1>2. dx * dy = dy * dx /\ dx * dy \in Nat
    BY Products
  <1>3. i < dx
    <2> SUFFICES ASSUME i = dx PROVE FALSE
      OBVIOUS
    <2>1. PICK d \in Nat : dy = j + d /\ d >= 1
      OBVIOUS
    <2>2. dx * dy = P + dx * d /\ dx * d >= dx /\ dx * d \in Nat
      BY <1>1, <2>1, Products
    <2>3. dx >= 1 /\ Q = dx * dy
      BY <1>1, <1>2, <2>1
    <2>4. Q - P >= dx /\ 2 * (P - Q) >= -dx
      BY <1>1, <2>2, <2>3
    <2> QED BY <1>1, <2>3, <2>4
  <1>4. 2 * e > -dy
    <2>1. CASE dy < dx
      BY <1>1, <2>1
    <2>2. CASE dy = dx
      <3>1. CASE i = j
        BY <1>1, <1>3, <2>2, <3>1
      <3>2. CASE i > j
        <4>1. PICK d \in Nat : i = j + d /\ d >= 1
          BY <3>2
        <4>2. Q = P + dx * d /\ dx * d >= dx
          BY <1>1, <2>2, <4>1, Products
        <4> QED BY <1>1, <1>3, <2>2, <4>2
      <3>3. CASE j > i
        <4>1. PICK d \in Nat : j = i + d /\ d >= 1
          BY <3>3
        <4>2. P = Q + dx * d /\ dx * d >= dx
          BY <1>1, <2>2, <4>1, Products
        <4> QED BY <1>1, <1>3, <2>2, <4>2
      <3> QED BY <3>1, <3>2, <3>3
    <2> QED BY <2>1, <2>2
  <1> QED BY <1>3, <1>4

\* It does not move along the shorter side past its end.
LEMMA ShorterStops ==
    ASSUME NEW dx \in Nat, NEW dy \in Nat, NEW i \in Nat, NEW j \in Nat, NEW e \in Int,
           i < dx, j <= dy, e = dx - dy + dx * j - dy * i, 2 * e < dx
    PROVE  j < dy
  <1> SUFFICES ASSUME j = dy PROVE FALSE
    OBVIOUS
  <1>1. PICK d \in Nat : dx = i + d /\ d >= 1
    OBVIOUS
  <1>2. dx * dy = dy * i + dy * d /\ dy * d >= dy /\ dy * i \in Nat /\ dy * d \in Nat
    BY <1>1, Products
  <1>3. e >= dx
    BY <1>2
  <1> QED BY <1>3

LEMMA OffAfter ==
    ASSUME NEW dx \in Nat, NEW dy \in Nat, NEW i \in Nat, NEW j \in Nat, NEW e \in Int,
           dy <= dx, e = dx - dy + dx * j - dy * i, 2 * e > -dy,
           2 * (dx * j - dy * i) <= dx, -dx <= 2 * (dx * j - dy * i)
    PROVE  /\ 2 * e < dx =>
                /\ e - dy + dx = dx - dy + dx * (j + 1) - dy * (i + 1)
                /\ 2 * (dx * (j + 1) - dy * (i + 1)) <= dx
                /\ -dx <= 2 * (dx * (j + 1) - dy * (i + 1))
           /\ ~(2 * e < dx) =>
                /\ e - dy = dx - dy + dx * j - dy * (i + 1)
                /\ 2 * (dx * j - dy * (i + 1)) <= dx
                /\ -dx <= 2 * (dx * j - dy * (i + 1))
  <1>1. PICK P \in Nat, Q \in Nat : P = dx * j /\ Q = dy * i
    BY Products
  <1>2. dx * (j + 1) = P + dx /\ dy * (i + 1) = Q + dy
    BY <1>1, Products
  <1> QED BY <1>1, <1>2

\* How far each coordinate moves.
StepX(dy, e) == IF 2 * e > -dy THEN 1 ELSE 0
StepY(dx, e) == IF 2 * e < dx THEN 1 ELSE 0

\* One step of a line, whichever side is longer: the two are symmetric, with the
\* error term's sign changed.
LEMMA LineStep ==
    ASSUME NEW dx \in Nat, NEW dy \in Nat, NEW i \in Nat, NEW j \in Nat, NEW e \in Int,
           Near(dx, dy, i, j, e), ~(i = dx /\ j = dy)
    PROVE  /\ Near(dx, dy, i + StepX(dy, e), j + StepY(dx, e),
                   e - StepX(dy, e) * dy + StepY(dx, e) * dx)
           /\ dx >= dy => StepX(dy, e) = 1
           /\ dx < dy => StepY(dx, e) = 1
  <1> DEFINE m == StepX(dy, e)
             n == StepY(dx, e)
  <1>b. /\ m \in {0, 1} /\ n \in {0, 1}
        /\ m = 1 <=> 2 * e > -dy
        /\ n = 1 <=> 2 * e < dx
    BY DEF StepX, StepY
  <1> HIDE DEF m, n
  <1> DEFINE L == IF dx >= dy THEN dx ELSE dy
  <1>a. /\ i <= dx /\ j <= dy
        /\ e = dx - dy + dx * j - dy * i
        /\ 2 * (dx * j - dy * i) <= L /\ -L <= 2 * (dx * j - dy * i)
        /\ L \in Nat
    <2>1. dx * j \in Nat /\ dy * i \in Nat
      BY Products
    <2> QED BY <2>1 DEF Near
  <1> SUFFICES /\ i + m <= dx /\ j + n <= dy
               /\ dx >= dy => m = 1
               /\ dx < dy => n = 1
               /\ e - m * dy + n * dx = dx - dy + (dx * (j + n) - dy * (i + m))
               /\ 2 * (dx * (j + n) - dy * (i + m)) <= L
               /\ -L <= 2 * (dx * (j + n) - dy * (i + m))
    BY DEF Near, m, n
  <1>0. /\ dx * j \in Nat /\ dy * i \in Nat
        /\ 0 * dx = 0 /\ 1 * dx = dx /\ 0 * dy = 0 /\ 1 * dy = dy
        /\ i + 0 = i /\ j + 0 = j
    BY Products
  <1>1. CASE dx >= dy
    <2>1. 2 * e > -dy /\ i < dx
      BY <1>a, <1>1, LongerMoves
    <2>2. 2 * e < dx => j < dy
      BY <1>a, <2>1, ShorterStops
    <2>3. /\ 2 * e < dx =>
               /\ e - dy + dx = dx - dy + dx * (j + 1) - dy * (i + 1)
               /\ 2 * (dx * (j + 1) - dy * (i + 1)) <= dx
               /\ -dx <= 2 * (dx * (j + 1) - dy * (i + 1))
          /\ ~(2 * e < dx) =>
               /\ e - dy = dx - dy + dx * j - dy * (i + 1)
               /\ 2 * (dx * j - dy * (i + 1)) <= dx
               /\ -dx <= 2 * (dx * j - dy * (i + 1))
      BY <1>a, <1>1, <2>1, OffAfter
    <2>4. CASE 2 * e < dx
      BY <1>a, <1>b, <1>0, <1>1, <2>1, <2>2, <2>3, <2>4
    <2>5. CASE ~(2 * e < dx)
      BY <1>a, <1>b, <1>0, <1>1, <2>1, <2>3, <2>5
    <2> QED BY <2>4, <2>5
  <1>2. CASE dx < dy
    <2>0. /\ -e \in Int /\ dx <= dy /\ -e = dy - dx + dy * i - dx * j
          /\ 2 * (dy * i - dx * j) <= dy /\ -dy <= 2 * (dy * i - dx * j)
      BY <1>a, <1>b, <1>0, <1>2
    <2>1. 2 * (-e) > -dx /\ j < dy
      BY <1>a, <2>0, LongerMoves
    <2>2. 2 * (-e) < dy => i < dx
      BY <1>a, <2>0, <2>1, ShorterStops
    <2>3. /\ 2 * (-e) < dy =>
               /\ -e - dx + dy = dy - dx + dy * (i + 1) - dx * (j + 1)
               /\ 2 * (dy * (i + 1) - dx * (j + 1)) <= dy
               /\ -dy <= 2 * (dy * (i + 1) - dx * (j + 1))
          /\ ~(2 * (-e) < dy) =>
               /\ -e - dx = dy - dx + dy * i - dx * (j + 1)
               /\ 2 * (dy * i - dx * (j + 1)) <= dy
               /\ -dy <= 2 * (dy * i - dx * (j + 1))
      BY <1>a, <2>0, <2>1, OffAfter
    <2>4. PICK P \in Nat, Q \in Nat : P = dx * (j + 1) /\ Q = dy * (i + 1)
      BY Products
    <2>5. CASE 2 * (-e) < dy
      <3>1. m = 1 /\ n = 1
        BY <1>b, <2>1, <2>5
      <3> QED BY <1>a, <1>b, <1>0, <1>2, <2>1, <2>2, <2>3, <2>4, <2>5, <3>1
    <2>6. CASE ~(2 * (-e) < dy)
      <3>1. m = 0 /\ n = 1
        BY <1>b, <2>1, <2>6
      <3> QED BY <1>a, <1>b, <1>0, <1>2, <2>1, <2>3, <2>4, <2>6, <3>1
    <2> QED BY <2>5, <2>6
  <1> QED BY <1>1, <1>2

\* The error term fits its register.
LEMMA ErrFits ==
    ASSUME NEW dx \in Nat, NEW dy \in Nat, NEW i \in Nat, NEW j \in Nat, NEW e,
           dx < Coord, dy < Coord, Near(dx, dy, i, j, e)
    PROVE  e \in -(4 * Coord) .. 4 * Coord - 1
  <1>1. PICK P \in Nat, Q \in Nat : P = dx * j /\ Q = dy * i
    BY Products
  <1> QED BY <1>1, RasterAssumption DEF Near

\* A coordinate that moves by one toward its end does not wrap.
LEMMA AxisMoves ==
    ASSUME NEW a \in 0 .. Coord - 1, NEW b \in 0 .. Coord - 1, NEW p \in 0 .. Coord - 1,
           NEW m \in {0, 1}, Between(a, b, p), Distance(a, p) + m <= Distance(a, b),
           NEW s \in Int, s = IF m = 0 THEN 0 ELSE IF b >= a THEN 1 ELSE -1
    PROVE  /\ (p + s) % Coord = p + s
           /\ Between(a, b, p + s) /\ Distance(a, p + s) = Distance(a, p) + m
           /\ p + s \in 0 .. Coord - 1
  <1>1. p + s \in 0 .. Coord - 1 /\ Between(a, b, p + s) /\ Distance(a, p + s) = Distance(a, p) + m
    BY RasterAssumption DEF Between, Distance
  <1> QED BY <1>1, RasterAssumption

LEMMA BetweenIs ==
    ASSUME NEW a \in 0 .. Coord - 1, NEW b \in 0 .. Coord - 1, NEW p \in 0 .. Coord - 1,
           Between(a, b, p)
    PROVE  /\ Distance(a, p) \in Nat /\ Distance(a, b) \in Nat
           /\ Distance(a, p) <= Distance(a, b) /\ Distance(a, b) < Coord
           /\ Distance(a, p) = Distance(a, b) <=> p = b
  BY RasterAssumption DEF Between, Distance
-----------------------------------------------------------------------------
(* The state.                                                              *)

LEMMA CommandIs ==
    ASSUME NEW c \in Commands
    PROVE  /\ c.op \in {"fill", "line", "blit", "scale"}
           /\ c.x \in 0 .. Coord - 1 /\ c.y \in 0 .. Coord - 1
           /\ c.w \in 0 .. Coord - 1 /\ c.h \in 0 .. Coord - 1
           /\ c.sw \in Nat /\ c.sh \in Nat /\ c.sw >= 1 /\ c.sh >= 1
           /\ c.x \in Nat /\ c.y \in Nat /\ c.w \in Nat /\ c.h \in Nat
  BY RasterAssumption

LEMMA TypeIs ==
    ASSUME TypeOK
    PROVE  /\ cmd \in Commands
           /\ pos = [x |-> pos.x, y |-> pos.y]
           /\ pos.x \in 0 .. Coord - 1 /\ pos.y \in 0 .. Coord - 1
           /\ pos.x \in Nat /\ pos.y \in Nat
           /\ dst = [addr |-> dst.addr, row |-> dst.row, rows |-> dst.rows]
           /\ dst.addr \in Nat /\ dst.row \in Nat /\ dst.rows \in Nat /\ dst.rows < Coord
           /\ src = [addr |-> src.addr, row |-> src.row]
           /\ src.addr \in Nat /\ src.row \in Nat
           /\ acc.x \in Nat /\ acc.y \in Nat /\ acc.x_adv \in BOOLEAN /\ acc.y_adv \in BOOLEAN
           /\ count \in Nat /\ err \in Int /\ busy \in BOOLEAN
  BY RasterAssumption DEF TypeOK

LEMMA LineIs ==
    ASSUME NEW c \in Commands
    PROVE  /\ Distance(c.x, c.w) \in Nat /\ Distance(c.x, c.w) < Coord
           /\ Distance(c.y, c.h) \in Nat /\ Distance(c.y, c.h) < Coord
  BY CommandIs, RasterAssumption DEF Distance

LEMMA InitInvariant == Init => IInv
  <1> SUFFICES ASSUME Init PROVE IInv
    OBVIOUS
  <1>1. cmd \in Commands /\ Accepted(cmd) /\ busy = TRUE /\ count = 0
    BY DEF Init
  <1>2. line_dx \in Nat /\ line_dx < Coord /\ line_dy \in Nat /\ line_dy < Coord
    BY <1>1, LineIs DEF line_dx, line_dy
  <1>3. TypeOK
    <2>1. err \in -(4 * Coord) .. 4 * Coord - 1
      BY <1>2, RasterAssumption DEF Init
    <2>2. dst \in [addr : Nat, row : Nat, rows : 0 .. Coord - 1]
      BY <1>1, CommandIs, RasterAssumption DEF Init
    <2> QED BY <1>1, <2>1, <2>2, CommandIs, RasterAssumption DEF Init, TypeOK
  <1>4. /\ pos.x = cmd.x /\ pos.y = cmd.y /\ dst.rows = cmd.y
        /\ dst.addr = FbAddr + 4 * cmd.x /\ dst.row = FbAddr + 4 * cmd.x
        /\ src.addr = SrcAddr /\ src.row = SrcAddr
        /\ acc.x = 0 /\ acc.y = 0 /\ acc.x_adv = FALSE /\ acc.y_adv = FALSE
        /\ err = line_dx - line_dy
    BY DEF Init
  <1>5. Across = 0 /\ Down = 0 /\ pos.y - dst.rows = 0
    BY <1>1, <1>4, CommandIs DEF Across, Down
  <1>6. /\ FbStride * 0 = 0 /\ SrcStride * 0 = 0 /\ 0 * cmd.w = 0 /\ 0 * cmd.h = 0
        /\ 0 * cmd.sw = 0 /\ 0 * cmd.sh = 0
    BY <1>1, CommandIs, RasterAssumption
  <1>7. StartOK
    BY <1>1, <1>4, CommandIs DEF StartOK, Init
  <1>8. ASSUME RectFits PROVE cmd.w >= 1 /\ cmd.h >= 1
    BY <1>1, <1>8, CommandIs DEF Accepted, RectFits
  <1>9. RectOK
    BY <1>1, <1>4, <1>5, <1>6, <1>8, CommandIs, RasterAssumption DEF RectOK, RectPlace
  <1>10. BlitOK
    BY <1>1, <1>4, <1>5, <1>6, CommandIs, RasterAssumption DEF BlitOK
  <1>11. ScaleOK
    <2>1. Scaled(0, 0)
      BY <1>4, <1>5, <1>6, RasterAssumption DEF Scaled
    <2> QED BY <1>1, <1>4, <1>5, <1>8, <2>1, CommandIs DEF ScaleOK
  <1>12. LineOK
    <2>1. Moved_x = 0 /\ Moved_y = 0
      BY <1>1, <1>4, CommandIs DEF Moved_x, Moved_y, Distance
    <2>2. Near(line_dx, line_dy, 0, 0, line_dx - line_dy)
      <3>1. line_dx * 0 = 0 /\ line_dy * 0 = 0
        BY <1>2
      <3> QED BY <1>2, <3>1 DEF Near
    <2>3. Between(cmd.x, cmd.w, pos.x) /\ Between(cmd.y, cmd.h, pos.y)
      BY <1>1, <1>4, CommandIs DEF Between
    <2> QED BY <1>1, <1>2, <1>4, <1>5, <1>6, <2>1, <2>2, <2>3, CommandIs, RasterAssumption
            DEF LineOK, LinePlace
  <1> QED BY <1>1, <1>3, <1>7, <1>9, <1>10, <1>11, <1>12 DEF IInv, Rect, AllDrawn

\* Skipping a row moves both address registers down by one.
LEMMA SkipRowInvariant ==
    ASSUME IInv, SkipRow
    PROVE  IInv'
  <1>1. TypeOK /\ StartOK /\ cmd \in Commands /\ busy = TRUE /\ dst.rows > 0 /\ pos.y \in Nat
        /\ dst.addr \in Nat /\ dst.row \in Nat /\ dst.rows \in Nat /\ dst.rows < Coord
    BY TypeIs DEF IInv, SkipRow
  <1>2. UNCHANGED <<cmd, busy, count, pos, src, acc, err>>
    BY DEF SkipRow
  <1>3. /\ dst'.addr = dst.addr + FbStride /\ dst'.row = dst.row + FbStride
        /\ dst'.rows = dst.rows - 1 /\ dst'.rows \in 0 .. Coord - 1
        /\ dst' \in [addr : Nat, row : Nat, rows : 0 .. Coord - 1]
    BY <1>1, RasterAssumption DEF SkipRow
  <1>4. TypeOK'
    BY <1>1, <1>2, <1>3 DEF TypeOK
  <1>5. StartOK'
    BY <1>1, <1>2, <1>3, CommandIs DEF StartOK
  <1>6. pos.y = cmd.y /\ dst.rows <= cmd.y
    BY <1>1 DEF StartOK
  <1>7. PICK k \in Nat : k = pos.y - dst.rows
    BY <1>1, <1>6, CommandIs
  <1>8. FbStride * (pos.y - dst'.rows) = FbStride * (pos.y - dst.rows) + FbStride
        /\ FbStride * (pos.y - dst.rows) \in Nat
    <2>1. pos.y - dst'.rows = k + 1
      BY <1>1, <1>3, <1>7
    <2> QED BY <1>7, <2>1, Products, RasterAssumption
  <1>9. RectOK' /\ BlitOK' /\ ScaleOK'
    <2>1. RectOK'
      <3> SUFFICES ASSUME RectFits' PROVE RectPlace'
        BY DEF RectOK
      <3>1. RectFits
        BY <1>2 DEF RectFits
      <3>2. RectPlace
        BY <1>1, <3>1 DEF IInv, Rect, RectOK
      <3>3. Across' = Across /\ Down' = Down /\ Across \in Int
        BY <1>1, <1>2, TypeIs, CommandIs DEF Across, Down
      <3> QED BY <1>1, <1>2, <1>3, <1>8, <3>2, <3>3, CommandIs, RasterAssumption DEF RectPlace
    <2>2. BlitOK' /\ ScaleOK'
      BY <1>2 DEF IInv, Rect, BlitOK, ScaleOK, Scaled, RectFits, Across, Down
    <2> QED BY <2>1, <2>2
  <1>10. LineOK'
    <2>1. /\ Moved_x' = Moved_x /\ Moved_y' = Moved_y
          /\ line_dx' = line_dx /\ line_dy' = line_dy
      BY <1>2 DEF Moved_x, Moved_y, line_dx, line_dy
    <2> QED BY <1>1, <1>2, <1>3, <1>8, <2>1, CommandIs, TypeIs, RasterAssumption DEF IInv, LineOK, LinePlace
  <1> QED BY <1>1, <1>2, <1>4, <1>5, <1>9, <1>10 DEF IInv, Rect, AllDrawn

\* A pixel of a line.
LEMMA DrawLineInvariant ==
    ASSUME IInv, DrawLine
    PROVE  IInv'
  <1>1. /\ TypeOK /\ cmd \in Commands /\ cmd.op = "line" /\ busy = TRUE /\ dst.rows = 0
        /\ LinePlace /\ Accepted(cmd)
    BY TypeIs DEF IInv, DrawLine, Drawing, LineOK
  <1>2. UNCHANGED <<cmd, src, acc>> /\ count' = count + 1
    BY DEF DrawLine
  <1> DEFINE dx == line_dx  dy == line_dy  i == Moved_x  j == Moved_y
  <1>3. /\ dx \in Nat /\ dx < Coord /\ dy \in Nat /\ dy < Coord
        /\ dx = Distance(cmd.x, cmd.w) /\ dy = Distance(cmd.y, cmd.h)
    BY <1>1, LineIs DEF line_dx, line_dy
  <1>4. /\ i \in Nat /\ j \in Nat /\ i <= dx /\ j <= dy
        /\ i = dx <=> pos.x = cmd.w
        /\ j = dy <=> pos.y = cmd.h
        /\ i = Distance(cmd.x, pos.x) /\ j = Distance(cmd.y, pos.y)
    BY <1>1, <1>3, TypeIs, CommandIs, BetweenIs DEF LinePlace, Moved_x, Moved_y
  <1>5. line_dx' = dx /\ line_dy' = dy /\ Longer' = Longer
    BY <1>2 DEF line_dx, line_dy, Longer
  <1>6. ~RectFits'
    BY <1>1, <1>2 DEF RectFits
  <1>7. Rect' /\ Accepted(cmd)'
    BY <1>1, <1>2, <1>6 DEF Rect, RectOK, BlitOK, ScaleOK
  <1>8. CASE pos.x = cmd.w /\ pos.y = cmd.h
    <2>1. busy' = FALSE /\ UNCHANGED <<pos, dst, err>>
      BY <1>8 DEF DrawLine
    <2>2. TypeOK'
      <3>1. busy' \in BOOLEAN
        BY <2>1
      <3>2. count' \in Nat
        BY <1>1, <1>2, TypeIs
      <3> QED BY <1>1, <1>2, <2>1, <3>1, <3>2 DEF TypeOK
    <2>3. count' = Longer + 1
      BY <1>1, <1>2, <1>3, <1>4, <1>8 DEF LinePlace, Longer
    <2>4. AllDrawn'
      BY <1>5, <1>6, <2>3 DEF AllDrawn
    <2> QED BY <1>7, <2>1, <2>2, <2>4 DEF IInv, StartOK, LineOK
  <1>9. CASE ~(pos.x = cmd.w /\ pos.y = cmd.h)
    <2> DEFINE m == StepX(dy, err)
               n == StepY(dx, err)
               mx == IF m = 0 THEN 0 ELSE IF cmd.w >= cmd.x THEN 1 ELSE -1
               my == IF n = 0 THEN 0 ELSE IF cmd.h >= cmd.y THEN 1 ELSE -1
    <2>1. /\ m \in {0, 1} /\ n \in {0, 1} /\ mx \in Int /\ my \in Int
          /\ m = IF line_move_x THEN 1 ELSE 0
          /\ n = IF line_move_y THEN 1 ELSE 0
      BY DEF StepX, StepY, line_move_x, line_move_y
    <2>2. /\ busy' = busy
          /\ pos' = [x |-> (pos.x + mx) % Coord, y |-> (pos.y + my) % Coord]
          /\ err' = err + (IF line_move_x THEN -line_dy ELSE 0)
                        + (IF line_move_y THEN line_dx ELSE 0)
          /\ dst' = [dst EXCEPT !.addr = @ + 4 * mx + FbStride * my]
      BY <1>9, <2>1 DEF DrawLine
    <2>3. Near(dx, dy, i, j, err) /\ err \in Int
      BY <1>1, TypeIs DEF LinePlace
    <2>5. ~(i = dx /\ j = dy)
      BY <1>4, <1>9
    <2>6. /\ Near(dx, dy, i + m, j + n, err - m * dy + n * dx)
          /\ i + m <= dx /\ j + n <= dy
          /\ dx >= dy => m = 1
          /\ dx < dy => n = 1
      <3> HIDE DEF i, j, dx, dy
      <3>1. /\ Near(dx, dy, i + m, j + n, err - m * dy + n * dx)
            /\ dx >= dy => m = 1
            /\ dx < dy => n = 1
        BY <1>3, <1>4, <2>3, <2>5, LineStep
      <3> QED BY <3>1 DEF Near
    <2>7. err' = err - m * dy + n * dx
      BY <1>3, <2>1, <2>2, <2>3
    <2>8. /\ pos'.x = pos.x + mx /\ Between(cmd.x, cmd.w, pos'.x)
          /\ Distance(cmd.x, pos'.x) = i + m /\ pos'.x \in 0 .. Coord - 1
      <3>1. Distance(cmd.x, pos.x) + m <= Distance(cmd.x, cmd.w) /\ Between(cmd.x, cmd.w, pos.x)
        BY <1>1, <1>3, <1>4, <2>6 DEF LinePlace
      <3>2. pos'.x = (pos.x + mx) % Coord
        BY <2>2
      <3> HIDE DEF m, i
      <3> QED BY <1>1, <1>4, <2>1, <3>1, <3>2, AxisMoves, CommandIs, TypeIs
    <2>9. /\ pos'.y = pos.y + my /\ Between(cmd.y, cmd.h, pos'.y)
          /\ Distance(cmd.y, pos'.y) = j + n /\ pos'.y \in 0 .. Coord - 1
      <3>1. Distance(cmd.y, pos.y) + n <= Distance(cmd.y, cmd.h) /\ Between(cmd.y, cmd.h, pos.y)
        BY <1>1, <1>3, <1>4, <2>6 DEF LinePlace
      <3>2. pos'.y = (pos.y + my) % Coord
        BY <2>2
      <3> HIDE DEF n, j
      <3> QED BY <1>1, <1>4, <2>1, <3>1, <3>2, AxisMoves, CommandIs, TypeIs
    <2>10. Moved_x' = i + m /\ Moved_y' = j + n
      BY <1>2, <2>8, <2>9 DEF Moved_x, Moved_y
    <2>11. Near(line_dx', line_dy', Moved_x', Moved_y', err')
      BY <1>5, <2>6, <2>7, <2>10
    <2>12. count' = IF line_dx' >= line_dy' THEN Moved_x' ELSE Moved_y'
      BY <1>1, <1>2, <1>3, <1>4, <1>5, <2>6, <2>10 DEF LinePlace
    <2>13. /\ dst'.addr = FbAddr + 4 * pos'.x + FbStride * (pos'.y - dst'.rows)
           /\ dst'.addr \in Nat /\ dst'.rows = 0 /\ dst'.row = dst.row
      <3>1. /\ dst'.addr = dst.addr + 4 * mx + FbStride * my
            /\ dst'.rows = dst.rows /\ dst'.row = dst.row
        BY <1>1, <2>2, TypeIs
      <3>2. FbStride * pos'.y = FbStride * pos.y + FbStride * my /\ FbStride * pos.y \in Nat
            /\ FbStride * pos'.y \in Nat /\ FbStride * my \in Int
        <4>1. FbStride \in Nat /\ pos.y \in Nat /\ pos'.y \in Nat /\ my \in {-1, 0, 1}
          BY <1>1, <2>9, TypeIs, RasterAssumption
        <4> HIDE DEF my
        <4> QED BY <2>9, <4>1
      <3>3. dst.addr = FbAddr + 4 * pos.x + FbStride * pos.y
        BY <1>1, TypeIs DEF LinePlace
      <3>4. dst'.addr = FbAddr + 4 * pos'.x + FbStride * pos'.y
        <4> HIDE DEF mx, my
        <4> QED BY <1>1, <2>1, <2>8, <3>1, <3>2, <3>3, TypeIs, RasterAssumption
      <3>5. dst'.addr \in Nat
        BY <2>8, <3>2, <3>4, RasterAssumption
      <3> QED BY <1>1, <2>9, <3>1, <3>4, <3>5
    <2>14. err' \in -(4 * Coord) .. 4 * Coord - 1
      <3>1. i + m \in Nat /\ j + n \in Nat
        BY <1>4, <2>1
      <3> HIDE DEF m, n, i, j, dx, dy
      <3> QED BY <1>3, <2>6, <2>7, <3>1, ErrFits
    <2>15. TypeOK'
      <3>1. dst' \in [addr : Nat, row : Nat, rows : 0 .. Coord - 1]
        <4>1. dst' = [addr |-> dst'.addr, row |-> dst'.row, rows |-> dst'.rows]
          BY <1>1, <2>2, TypeIs
        <4> QED BY <1>1, <2>13, <4>1, TypeIs, RasterAssumption
      <3>2. pos' \in [x : 0 .. Coord - 1, y : 0 .. Coord - 1]
        BY <2>2, <2>8, <2>9
      <3> QED BY <1>1, <1>2, <2>2, <2>14, <3>1, <3>2, TypeIs DEF TypeOK
    <2>16. LinePlace'
      BY <1>2, <2>8, <2>9, <2>11, <2>12, <2>13 DEF LinePlace
    <2> QED BY <1>1, <1>7, <2>2, <2>13, <2>15, <2>16 DEF IInv, StartOK, LineOK, AllDrawn
  <1> QED BY <1>8, <1>9

\* A rectangle that fits does not wrap: the comparisons of the code say whether
\* the pixel is the last of its row and of its column.
LEMMA RectEnds ==
    ASSUME IInv, RectFits, busy = TRUE
    PROVE  /\ RectPlace /\ Across \in Nat /\ Down \in Nat /\ Across < cmd.w /\ Down < cmd.h
           /\ Inc(pos.x) = pos.x + 1 /\ Inc(pos.y) = pos.y + 1
           /\ LastColumn <=> Across = cmd.w - 1
           /\ LastRow <=> Down = cmd.h - 1
           /\ pos.x = cmd.x + Across /\ pos.y = cmd.y + Down
           /\ FbStride * pos.y \in Nat
  <1>1. TypeOK /\ RectPlace /\ cmd \in Commands
    BY TypeIs DEF IInv, Rect, RectOK
  <1>2. Across \in Nat /\ Down \in Nat /\ Across < cmd.w /\ Down < cmd.h
    BY <1>1, CommandIs DEF RectPlace
  <1>3. pos.x = cmd.x + Across /\ pos.y = cmd.y + Down
    BY <1>1, CommandIs, TypeIs DEF Across, Down
  <1>4. end_x = cmd.x + cmd.w /\ end_y = cmd.y + cmd.h
    <2>1. cmd.x + cmd.w \in 0 .. Coord - 1 /\ cmd.y + cmd.h \in 0 .. Coord - 1
      BY <1>1, CommandIs, RasterAssumption DEF RectFits
    <2> QED BY <2>1, RasterAssumption DEF end_x, end_y
  <1>5. Inc(pos.x) = pos.x + 1 /\ Inc(pos.y) = pos.y + 1
    <2>1. pos.x + 1 \in 0 .. Coord - 1 /\ pos.y + 1 \in 0 .. Coord - 1
      BY <1>1, <1>2, <1>3, CommandIs, RasterAssumption DEF RectFits
    <2> QED BY <2>1, RasterAssumption DEF Inc
  <1>6. (LastColumn <=> Across = cmd.w - 1) /\ (LastRow <=> Down = cmd.h - 1)
    BY <1>1, <1>2, <1>3, <1>4, <1>5, CommandIs DEF LastColumn, LastRow
  <1>7. FbStride * pos.y \in Nat
    BY <1>1, TypeIs, Products, RasterAssumption
  <1> QED BY <1>1, <1>2, <1>3, <1>5, <1>6, <1>7

\* The steps of a rectangle do not touch what lines are about.
LEMMA RectKeeps ==
    ASSUME IInv, cmd.op # "line", cmd' = cmd, dst'.rows = 0, busy' = TRUE
    PROVE  Accepted(cmd)' /\ StartOK' /\ LineOK' /\ AllDrawn'
  BY DEF IInv, StartOK, LineOK, AllDrawn

\* A whole row of the source is skipped.
LEMMA AdvanceRowInvariant ==
    ASSUME IInv, AdvanceRow
    PROVE  IInv'
  <1>1. /\ TypeOK /\ cmd \in Commands /\ cmd.op = "scale" /\ busy = TRUE /\ dst.rows = 0
        /\ acc.y_adv = TRUE
    BY TypeIs DEF IInv, AdvanceRow
  <1>2. UNCHANGED <<cmd, busy, count, pos, dst, err>>
    BY DEF AdvanceRow
  <1>3. /\ acc' \in [x : Nat, y : Nat, x_adv : BOOLEAN, y_adv : BOOLEAN]
        /\ src' \in [addr : Nat, row : Nat]
    <2>1. CASE acc.y >= cmd.h
      <3>1. /\ acc' = [acc EXCEPT !.y = @ - cmd.h, !.y_adv = acc.y - cmd.h >= cmd.h]
            /\ src' = [addr |-> src.row + SrcStride, row |-> src.row + SrcStride]
        BY <2>1 DEF AdvanceRow
      <3>2. acc.y - cmd.h \in Nat /\ src.row + SrcStride \in Nat
        BY <1>1, <2>1, TypeIs, CommandIs, RasterAssumption
      <3>3. PICK v \in BOOLEAN : v = (acc.y - cmd.h >= cmd.h)
        BY <1>1, CompareIs, TypeIs, CommandIs
      <3> QED BY <1>1, <3>1, <3>2, <3>3 DEF TypeOK
    <2>2. CASE ~(acc.y >= cmd.h)
      BY <1>1, <2>2 DEF AdvanceRow, TypeOK
    <2> QED BY <2>1, <2>2
  <1>4. TypeOK'
    BY <1>1, <1>2, <1>3 DEF TypeOK
  <1>5. Across' = Across /\ Down' = Down /\ (RectFits' <=> RectFits)
    BY <1>2 DEF Across, Down, RectFits
  <1>6. RectOK' /\ BlitOK'
    BY <1>1, <1>2, <1>5 DEF IInv, Rect, RectOK, RectPlace, BlitOK
  <1>7. ScaleOK'
    <2> SUFFICES ASSUME RectFits PROVE ScaleOK'
      BY <1>5 DEF ScaleOK
    <2>1. /\ acc.x_adv <=> acc.x >= cmd.w
          /\ acc.y >= cmd.h /\ Across = 0 /\ acc.x = 0 /\ src.addr = src.row
      BY <1>1 DEF IInv, Rect, ScaleOK
    <2>2. PICK a \in Nat, b \in Nat : Scaled(a, b)
      BY <1>1 DEF IInv, Rect, ScaleOK
    <2>3. /\ acc'.x = acc.x /\ acc'.y = acc.y - cmd.h /\ acc'.x_adv = acc.x_adv
          /\ acc'.y_adv = (acc.y - cmd.h >= cmd.h)
          /\ src'.addr = src.row + SrcStride /\ src'.row = src.row + SrcStride
      <3>1. PICK v \in BOOLEAN : v = (acc.y - cmd.h >= cmd.h)
        BY <1>1, CompareIs, TypeIs, CommandIs
      <3>2. acc' = [acc EXCEPT !.y = @ - cmd.h, !.y_adv = v]
        BY <2>1, <3>1 DEF AdvanceRow
      <3>3. src' = [addr |-> src.row + SrcStride, row |-> src.row + SrcStride]
        BY <2>1 DEF AdvanceRow
      <3> QED BY <1>1, <3>1, <3>2, <3>3 DEF TypeOK
    <2>4. Scaled(0, b + 1)'
      <3>1. /\ 0 * cmd.w = 0 /\ Across * cmd.sw = 0
            /\ (b + 1) * cmd.h = b * cmd.h + cmd.h /\ b * cmd.h \in Nat
            /\ SrcStride * (b + 1) = SrcStride * b + SrcStride /\ SrcStride * b \in Nat
        BY <1>1, <2>1, CommandIs, RasterAssumption
      <3>2. Down * cmd.sh = b * cmd.h + acc.y /\ src.row = SrcAddr + SrcStride * b
        BY <2>2 DEF Scaled
      <3>3. Down * cmd.sh = (b + 1) * cmd.h + acc'.y
        BY <1>1, <2>3, <3>1, <3>2, TypeIs, CommandIs
      <3>4. src'.row = SrcAddr + SrcStride * (b + 1)
        BY <2>3, <3>1, <3>2, RasterAssumption
      <3>5. src'.addr = src'.row + 4 * 0 /\ Across * cmd.sw = 0 * cmd.w + acc'.x
        BY <1>1, <2>1, <2>3, <3>1, TypeIs, RasterAssumption
      <3> QED BY <1>2, <1>5, <3>3, <3>4, <3>5 DEF Scaled
    <2>5. b + 1 \in Nat /\ 0 \in Nat
      OBVIOUS
    <2>6. acc'.x_adv <=> acc'.x >= cmd.w
      BY <2>1, <2>3
    <2>7. acc'.y_adv <=> acc'.y >= cmd.h
      BY <2>3
    <2>8. Across' = 0 /\ acc'.x = 0 /\ src'.addr = src'.row
      BY <1>5, <2>1, <2>3
    <2> QED BY <1>2, <2>4, <2>5, <2>6, <2>7, <2>8 DEF ScaleOK
  <1> QED BY <1>1, <1>2, <1>4, <1>6, <1>7, RectKeeps DEF IInv, Rect

\* A whole column of the source is skipped.
LEMMA AdvanceColumnInvariant ==
    ASSUME IInv, AdvanceColumn
    PROVE  IInv'
  <1>1. /\ TypeOK /\ cmd \in Commands /\ cmd.op = "scale" /\ busy = TRUE /\ dst.rows = 0
        /\ acc.y_adv = FALSE /\ acc.x_adv = TRUE
    BY TypeIs DEF IInv, AdvanceColumn
  <1>2. UNCHANGED <<cmd, busy, count, pos, dst, err>>
    BY DEF AdvanceColumn
  <1>3. /\ acc' \in [x : Nat, y : Nat, x_adv : BOOLEAN, y_adv : BOOLEAN]
        /\ src' \in [addr : Nat, row : Nat]
    <2>1. CASE acc.x >= cmd.w
      <3>1. /\ acc' = [acc EXCEPT !.x = @ - cmd.w, !.x_adv = acc.x - cmd.w >= cmd.w]
            /\ src' = [src EXCEPT !.addr = @ + 4]
        BY <2>1 DEF AdvanceColumn
      <3>2. acc.x - cmd.w \in Nat /\ src.addr + 4 \in Nat
        BY <1>1, <2>1, TypeIs, CommandIs, RasterAssumption
      <3>3. PICK v \in BOOLEAN : v = (acc.x - cmd.w >= cmd.w)
        BY <1>1, CompareIs, TypeIs, CommandIs
      <3> QED BY <1>1, <3>1, <3>2, <3>3 DEF TypeOK
    <2>2. CASE ~(acc.x >= cmd.w)
      BY <1>1, <2>2 DEF AdvanceColumn, TypeOK
    <2> QED BY <2>1, <2>2
  <1>4. TypeOK'
    BY <1>1, <1>2, <1>3 DEF TypeOK
  <1>5. Across' = Across /\ Down' = Down /\ (RectFits' <=> RectFits)
    BY <1>2 DEF Across, Down, RectFits
  <1>6. RectOK' /\ BlitOK'
    BY <1>1, <1>2, <1>5 DEF IInv, Rect, RectOK, RectPlace, BlitOK
  <1>7. ScaleOK'
    <2> SUFFICES ASSUME RectFits PROVE ScaleOK'
      BY <1>5 DEF ScaleOK
    <2>1. acc.x >= cmd.w /\ ~(acc.y >= cmd.h)
      BY <1>1 DEF IInv, Rect, ScaleOK
    <2>2. PICK a \in Nat, b \in Nat : Scaled(a, b)
      BY <1>1 DEF IInv, Rect, ScaleOK
    <2>3. /\ acc'.x = acc.x - cmd.w /\ acc'.y = acc.y /\ acc'.y_adv = FALSE
          /\ acc'.x_adv = (acc.x - cmd.w >= cmd.w)
          /\ src'.addr = src.addr + 4 /\ src'.row = src.row
      <3>1. PICK v \in BOOLEAN : v = (acc.x - cmd.w >= cmd.w)
        BY <1>1, CompareIs, TypeIs, CommandIs
      <3>2. acc' = [acc EXCEPT !.x = @ - cmd.w, !.x_adv = v]
        BY <2>1, <3>1 DEF AdvanceColumn
      <3>3. src' = [src EXCEPT !.addr = @ + 4]
        BY <2>1 DEF AdvanceColumn
      <3> QED BY <1>1, <3>1, <3>2, <3>3 DEF TypeOK
    <2>4. Scaled(a + 1, b)'
      <3>1. (a + 1) * cmd.w = a * cmd.w + cmd.w /\ a * cmd.w \in Nat
        <4>1. a \in Nat /\ cmd.w \in Nat
          BY <1>1, CommandIs
        <4> QED BY <4>1
      <3>2. Across * cmd.sw = a * cmd.w + acc.x /\ src.addr = src.row + 4 * a
        BY <2>2 DEF Scaled
      <3>3. Across * cmd.sw = (a + 1) * cmd.w + acc'.x
        BY <1>1, <2>3, <3>1, <3>2, TypeIs, CommandIs
      <3>4. src'.addr = src'.row + 4 * (a + 1)
        BY <1>1, <2>3, <3>2, TypeIs
      <3> QED BY <1>2, <1>5, <2>2, <2>3, <3>3, <3>4 DEF Scaled
    <2>5. a + 1 \in Nat
      OBVIOUS
    <2>6. acc'.x_adv <=> acc'.x >= cmd.w
      BY <2>3
    <2>7. ~acc'.y_adv /\ ~(acc'.y >= cmd.h)
      BY <2>1, <2>3
    <2> QED BY <1>2, <2>4, <2>5, <2>6, <2>7 DEF ScaleOK
  <1> QED BY <1>1, <1>2, <1>4, <1>6, <1>7, RectKeeps DEF IInv, Rect

LEMMA ScaleFacts ==
    ASSUME IInv, RectFits, busy = TRUE, cmd.op = "scale", ~Advancing
    PROVE  /\ acc.x_adv = FALSE /\ acc.y_adv = FALSE
           /\ ~(acc.x >= cmd.w) /\ ~(acc.y >= cmd.h)
           /\ \E a \in Nat, b \in Nat : Scaled(a, b)
  <1>1. acc.x_adv = FALSE /\ acc.y_adv = FALSE
    BY TypeIs DEF IInv, Advancing
  <1> QED BY <1>1 DEF IInv, Rect, ScaleOK

\* A pixel that is not the last of its row.
LEMMA DrawRightInvariant ==
    ASSUME IInv, DrawRight
    PROVE  IInv'
  <1>1. /\ TypeOK /\ cmd \in Commands /\ cmd.op # "line" /\ busy = TRUE /\ dst.rows = 0
        /\ ~Advancing /\ ~LastColumn
    BY TypeIs DEF IInv, DrawRight, Drawing
  <1>2. UNCHANGED <<cmd, busy, err>> /\ count' = count + 1
    BY DEF DrawRight
  <1>3. /\ pos'.x = Inc(pos.x) /\ pos'.y = pos.y
        /\ dst'.addr = dst.addr + 4 /\ dst'.row = dst.row /\ dst'.rows = 0
    BY <1>1, TypeIs DEF DrawRight
  <1>4. PICK v \in BOOLEAN : v = (acc.x + cmd.sw >= cmd.w)
    BY <1>1, CompareIs, TypeIs, CommandIs
  <1>5. /\ acc' = IF cmd.op = "scale" THEN [acc EXCEPT !.x = @ + cmd.sw, !.x_adv = v] ELSE acc
        /\ src' = IF cmd.op = "blit" THEN [src EXCEPT !.addr = @ + 4] ELSE src
    BY <1>4 DEF DrawRight
  <1>6. TypeOK'
    <2>1. Inc(pos.x) \in 0 .. Coord - 1
      BY <1>1, TypeIs, RasterAssumption DEF Inc
    <2>2. pos' \in [x : 0 .. Coord - 1, y : 0 .. Coord - 1]
      BY <1>1, <2>1 DEF DrawRight, TypeOK
    <2>3. dst' \in [addr : Nat, row : Nat, rows : 0 .. Coord - 1]
      BY <1>1 DEF DrawRight, TypeOK
    <2>4. acc' \in [x : Nat, y : Nat, x_adv : BOOLEAN, y_adv : BOOLEAN]
      <3>1. acc.x + cmd.sw \in Nat
        BY <1>1, TypeIs, CommandIs
      <3> QED BY <1>1, <1>5, <3>1 DEF TypeOK
    <2>5. src' \in [addr : Nat, row : Nat]
      BY <1>1, <1>5 DEF TypeOK
    <2> QED BY <1>1, <1>2, <2>2, <2>3, <2>4, <2>5, TypeIs DEF TypeOK
  <1>7. RectFits' <=> RectFits
    BY <1>2 DEF RectFits
  <1>8. Rect'
    <2> SUFFICES ASSUME RectFits PROVE Rect'
      BY <1>7 DEF Rect, RectOK, BlitOK, ScaleOK
    <2>1. /\ RectPlace /\ Across \in Nat /\ Down \in Nat /\ Across < cmd.w - 1
          /\ Inc(pos.x) = pos.x + 1 /\ Down < cmd.h
      BY <1>1, RectEnds, CommandIs
    <2>2. Across' = Across + 1 /\ Down' = Down
      BY <1>1, <1>2, <1>3, <2>1, TypeIs, CommandIs DEF Across, Down
    <2>3. RectPlace'
      <3>1. /\ dst'.row = FbAddr + 4 * cmd.x + FbStride * (pos'.y - dst'.rows)
            /\ dst'.addr = dst'.row + 4 * (Across + 1)
        BY <1>1, <1>3, <2>1, TypeIs DEF RectPlace
      <3>2. count' = Down * cmd.w + (Across + 1)
        <4>1. Down * cmd.w \in Nat
          BY <1>1, <2>1, CommandIs, Products
        <4> QED BY <1>2, <2>1, <4>1 DEF RectPlace
      <3>3. Across + 1 \in 0 .. cmd.w - 1 /\ Down \in 0 .. cmd.h - 1
        BY <1>1, <2>1, CommandIs
      <3> QED BY <1>2, <2>2, <3>1, <3>2, <3>3 DEF RectPlace
    <2>4. BlitOK'
      <3> SUFFICES ASSUME cmd.op = "blit" PROVE BlitOK'
        BY <1>2 DEF BlitOK
      <3>1. src'.addr = src.addr + 4 /\ src'.row = src.row
        BY <1>1, <1>5, TypeIs
      <3>2. src.row = SrcAddr + SrcStride * Down /\ src.addr = src.row + 4 * Across
        BY <1>1 DEF IInv, Rect, BlitOK
      <3>3. src'.addr = src'.row + 4 * (Across + 1)
        BY <1>1, <2>1, <3>1, <3>2, TypeIs
      <3> QED BY <2>2, <3>1, <3>2, <3>3 DEF BlitOK
    <2>5. ScaleOK'
      <3> SUFFICES ASSUME cmd.op = "scale" PROVE ScaleOK'
        BY <1>2 DEF ScaleOK
      <3>1. acc.y_adv = FALSE /\ ~(acc.y >= cmd.h)
        BY <1>1, ScaleFacts
      <3>2. PICK a \in Nat, b \in Nat : Scaled(a, b)
        BY <1>1, ScaleFacts
      <3>3. /\ acc'.x = acc.x + cmd.sw /\ acc'.x_adv = v
            /\ acc'.y = acc.y /\ acc'.y_adv = FALSE
            /\ src' = src
        BY <1>1, <1>5, <3>1 DEF TypeOK
      <3>4. Scaled(a, b)'
        <4>1. (Across + 1) * cmd.sw = Across * cmd.sw + cmd.sw
          <5>1. cmd.sw \in Nat
            BY <1>1, CommandIs
          <5> QED BY <2>1, <5>1
        <4>2. Across * cmd.sw = a * cmd.w + acc.x /\ a * cmd.w \in Nat
          BY <1>1, <3>2, CommandIs, Products DEF Scaled
        <4>3. (Across + 1) * cmd.sw = a * cmd.w + acc'.x
          BY <1>1, <3>3, <4>1, <4>2, TypeIs, CommandIs
        <4> QED BY <1>2, <2>2, <3>2, <3>3, <4>3 DEF Scaled
      <3>5. acc'.x_adv <=> acc'.x >= cmd.w
        BY <1>4, <3>3
      <3>6. ~acc'.y_adv /\ ~(acc'.y >= cmd.h)
        BY <3>1, <3>3
      <3> QED BY <1>2, <3>4, <3>5, <3>6 DEF ScaleOK
    <2> QED BY <2>3, <2>4, <2>5 DEF Rect, RectOK
  <1> QED BY <1>1, <1>2, <1>3, <1>6, <1>8, RectKeeps DEF IInv

\* The last pixel of a row but the last.
LEMMA DrawDownInvariant ==
    ASSUME IInv, DrawDown
    PROVE  IInv'
  <1>1. /\ TypeOK /\ cmd \in Commands /\ cmd.op # "line" /\ busy = TRUE /\ dst.rows = 0
        /\ ~Advancing /\ LastColumn /\ ~LastRow
    BY TypeIs DEF IInv, DrawDown, Drawing
  <1>2. UNCHANGED <<cmd, busy, err>> /\ count' = count + 1
    BY DEF DrawDown
  <1>3. /\ pos'.x = cmd.x /\ pos'.y = Inc(pos.y)
        /\ dst'.addr = dst.row + FbStride /\ dst'.row = dst.row + FbStride /\ dst'.rows = 0
    BY <1>1, TypeIs DEF DrawDown
  <1>4. PICK v \in BOOLEAN : v = (acc.y + cmd.sh >= cmd.h)
    BY <1>1, CompareIs, TypeIs, CommandIs
  <1>5. /\ acc' = IF cmd.op = "scale"
                  THEN [x |-> 0, x_adv |-> FALSE, y |-> acc.y + cmd.sh, y_adv |-> v] ELSE acc
        /\ cmd.op = "scale" => src' = [src EXCEPT !.addr = src.row]
        /\ cmd.op = "blit" => src' = [addr |-> src.row + SrcStride, row |-> src.row + SrcStride]
        /\ cmd.op = "fill" => src' = src
    BY <1>4 DEF DrawDown
  <1>6. TypeOK'
    <2>1. Inc(pos.y) \in 0 .. Coord - 1
      BY <1>1, TypeIs, RasterAssumption DEF Inc
    <2>2. pos' \in [x : 0 .. Coord - 1, y : 0 .. Coord - 1]
      BY <1>1, <2>1, CommandIs DEF DrawDown
    <2>3. dst' \in [addr : Nat, row : Nat, rows : 0 .. Coord - 1]
      <3>1. dst.row + FbStride \in Nat
        BY <1>1, TypeIs, RasterAssumption
      <3> QED BY <1>1, <3>1 DEF DrawDown, TypeOK
    <2>4. acc' \in [x : Nat, y : Nat, x_adv : BOOLEAN, y_adv : BOOLEAN]
      <3>1. acc.y + cmd.sh \in Nat
        BY <1>1, TypeIs, CommandIs
      <3> QED BY <1>1, <1>5, <3>1 DEF TypeOK
    <2>5. src' \in [addr : Nat, row : Nat]
      <3>1. src.row + SrcStride \in Nat /\ src.row \in Nat
        BY <1>1, TypeIs, RasterAssumption
      <3>2. cmd.op \in {"scale", "blit", "fill"}
        BY <1>1, CommandIs
      <3> QED BY <1>1, <1>5, <3>1, <3>2 DEF TypeOK
    <2> QED BY <1>1, <1>2, <2>2, <2>3, <2>4, <2>5, TypeIs DEF TypeOK
  <1>7. RectFits' <=> RectFits
    BY <1>2 DEF RectFits
  <1>8. Rect'
    <2> SUFFICES ASSUME RectFits PROVE Rect'
      BY <1>7 DEF Rect, RectOK, BlitOK, ScaleOK
    <2>1. /\ RectPlace /\ Across \in Nat /\ Down \in Nat /\ Across = cmd.w - 1
          /\ Inc(pos.y) = pos.y + 1 /\ Down < cmd.h - 1 /\ FbStride * pos.y \in Nat
      BY <1>1, RectEnds, CommandIs
    <2>2. Across' = 0 /\ Down' = Down + 1
      BY <1>1, <1>2, <1>3, <2>1, TypeIs, CommandIs DEF Across, Down
    <2>3. RectPlace'
      <3>1. FbStride * (pos.y + 1) = FbStride * pos.y + FbStride
        BY <1>1, TypeIs, Products, RasterAssumption
      <3>2. dst.row = FbAddr + 4 * cmd.x + FbStride * pos.y
        BY <1>1, <2>1, TypeIs DEF RectPlace
      <3>3. dst'.row = FbAddr + 4 * cmd.x + FbStride * (pos.y + 1)
        BY <1>1, <1>3, <2>1, <3>1, <3>2, TypeIs, CommandIs, RasterAssumption
      <3>4. pos'.y - dst'.rows = pos.y + 1
        BY <1>1, <1>3, <2>1, TypeIs
      <3>5. dst'.addr = dst'.row + 4 * 0
        BY <1>1, <1>3, TypeIs, RasterAssumption
      <3>6. count' = (Down + 1) * cmd.w + 0
        <4>1. PICK w \in Nat, P \in Nat : w = cmd.w /\ P = Down * cmd.w
          BY <1>1, <2>1, CommandIs, Products
        <4>2. (Down + 1) * w = P + w
          BY <2>1, <4>1
        <4> QED BY <1>2, <2>1, <4>1, <4>2 DEF RectPlace
      <3>7. 0 \in 0 .. cmd.w - 1 /\ Down + 1 \in 0 .. cmd.h - 1
        BY <1>1, <2>1, CommandIs
      <3> QED BY <1>2, <2>2, <3>3, <3>4, <3>5, <3>6, <3>7 DEF RectPlace
    <2>4. BlitOK'
      <3> SUFFICES ASSUME cmd.op = "blit" PROVE BlitOK'
        BY <1>2 DEF BlitOK
      <3>1. src'.addr = src.row + SrcStride /\ src'.row = src.row + SrcStride
        BY <1>5
      <3>2. src.row = SrcAddr + SrcStride * Down
        BY <1>1 DEF IInv, Rect, BlitOK
      <3>3. SrcStride * (Down + 1) = SrcStride * Down + SrcStride /\ SrcStride * Down \in Nat
        BY <2>1, Products, RasterAssumption
      <3>4. src'.row = SrcAddr + SrcStride * (Down + 1) /\ src'.addr = src'.row + 4 * 0
        BY <1>1, <3>1, <3>2, <3>3, TypeIs, RasterAssumption
      <3> QED BY <2>2, <3>4 DEF BlitOK
    <2>5. ScaleOK'
      <3> SUFFICES ASSUME cmd.op = "scale" PROVE ScaleOK'
        BY <1>2 DEF ScaleOK
      <3>1. PICK a \in Nat, b \in Nat : Scaled(a, b)
        BY <1>1, ScaleFacts
      <3>2. /\ acc'.x = 0 /\ acc'.x_adv = FALSE
            /\ acc'.y = acc.y + cmd.sh /\ acc'.y_adv = v
            /\ src'.addr = src.row /\ src'.row = src.row
        BY <1>1, <1>5, TypeIs
      <3>3. Scaled(0, b)'
        <4>1. (Down + 1) * cmd.sh = Down * cmd.sh + cmd.sh
          <5>1. cmd.sh \in Nat
            BY <1>1, CommandIs
          <5> QED BY <2>1, <5>1
        <4>2. Down * cmd.sh = b * cmd.h + acc.y /\ b * cmd.h \in Nat
          BY <1>1, <3>1, CommandIs, Products DEF Scaled
        <4>3. (Down + 1) * cmd.sh = b * cmd.h + acc'.y
          BY <1>1, <3>2, <4>1, <4>2, TypeIs, CommandIs
        <4>4. 0 * cmd.sw = 0 * cmd.w + acc'.x /\ src'.addr = src'.row + 4 * 0
          BY <1>1, <3>2, TypeIs, CommandIs
        <4> QED BY <1>2, <2>2, <3>1, <3>2, <4>3, <4>4 DEF Scaled
      <3>4. acc'.y_adv <=> acc'.y >= cmd.h
        BY <1>4, <3>2
      <3>5. ~acc'.x_adv /\ ~(acc'.x >= cmd.w)
        BY <1>1, <2>1, <3>2, CommandIs
      <3>6. 0 \in Nat
        OBVIOUS
      <3> QED BY <1>2, <2>2, <3>2, <3>3, <3>4, <3>5, <3>6 DEF ScaleOK
    <2> QED BY <2>3, <2>4, <2>5 DEF Rect, RectOK
  <1> QED BY <1>1, <1>2, <1>3, <1>6, <1>8, RectKeeps DEF IInv

\* The last pixel of a rectangle.
LEMMA DrawLastInvariant ==
    ASSUME IInv, DrawLast
    PROVE  IInv'
  <1>1. /\ TypeOK /\ cmd \in Commands /\ cmd.op # "line" /\ busy = TRUE
        /\ LastColumn /\ LastRow /\ Accepted(cmd)
    BY TypeIs DEF IInv, DrawLast, Drawing
  <1>2. UNCHANGED <<cmd, dst, src, acc, err>> /\ count' = count + 1
    BY DEF DrawLast
  <1>3. busy' = FALSE
    BY DEF DrawLast
  <1>4. TypeOK'
    <2>1. pos' \in [x : 0 .. Coord - 1, y : 0 .. Coord - 1]
      BY <1>1, CommandIs DEF DrawLast, TypeOK
    <2>2. count' \in Nat
      BY <1>1, <1>2, TypeIs
    <2>3. busy' \in BOOLEAN
      BY <1>3
    <2> QED BY <1>1, <1>2, <2>1, <2>2, <2>3 DEF TypeOK
  <1>5. AllDrawn'
    <2> SUFFICES ASSUME RectFits PROVE count' = cmd.w * cmd.h
      BY <1>1, <1>2 DEF AllDrawn, RectFits
    <2>1. RectPlace /\ Across = cmd.w - 1 /\ Down = cmd.h - 1 /\ Down \in Nat
      BY <1>1, RectEnds
    <2>2. PICK w \in Nat, h \in Nat : w = cmd.w /\ h = cmd.h
      BY <1>1, CommandIs
    <2>3. count = Down * w + (w - 1) /\ h = Down + 1
      BY <2>1, <2>2 DEF RectPlace
    <2>4. w * (Down + 1) = Down * w + w /\ Down * w \in Nat
      BY <2>1, Products
    <2> QED BY <1>2, <2>1, <2>2, <2>3, <2>4
  <1> QED BY <1>1, <1>2, <1>3, <1>4, <1>5 DEF IInv, Rect, StartOK, RectOK, BlitOK, ScaleOK, LineOK
-----------------------------------------------------------------------------
LEMMA StepInvariant ==
    ASSUME IInv, [Next]_vars
    PROVE  IInv'
  <1>1. CASE Next
    <2>1. CASE Done
      BY <2>1 DEF Done, vars, IInv, TypeOK, StartOK, Rect, RectOK, RectPlace, BlitOK, ScaleOK,
                  Scaled, LineOK, LinePlace, AllDrawn, RectFits, Across, Down, Moved_x, Moved_y,
                  line_dx, line_dy, Longer
    <2> QED BY <1>1, <2>1, SkipRowInvariant, AdvanceRowInvariant, AdvanceColumnInvariant,
               DrawLineInvariant, DrawRightInvariant, DrawDownInvariant, DrawLastInvariant
            DEF Next
  <1>2. CASE UNCHANGED vars
    BY <1>2 DEF vars, IInv, TypeOK, StartOK, Rect, RectOK, RectPlace, BlitOK, ScaleOK,
                Scaled, LineOK, LinePlace, AllDrawn, RectFits, Across, Down, Moved_x, Moved_y,
                line_dx, line_dy, Longer
  <1> QED BY <1>1, <1>2

(* The registers of the raster (mmio_gpu_fill.sv): the addresses are those *)
(* of the pixel, the accumulators what the source position lacks, the      *)
(* error term the distance from the ideal line.                            *)
THEOREM Invariance == Spec => []IInv
  <1>1. IInv /\ [Next]_vars => IInv'
    BY StepInvariant
  <1> QED BY <1>1, InitInvariant, PTL DEF Spec

\* The pixel count gives the place in the rectangle.
LEMMA CountIs ==
    ASSUME IInv, RectFits, busy = TRUE
    PROVE  Column = Across /\ Row = Down
  <1>1. RectPlace /\ Across \in Nat /\ Down \in Nat /\ Across < cmd.w /\ cmd.w \in Nat
    BY RectEnds, TypeIs, CommandIs DEF IInv
  <1>2. count = Down * cmd.w + Across
    BY <1>1 DEF RectPlace
  <1> QED BY <1>1, <1>2, DivModIs DEF Column, Row

(* For rectangles, strides and coordinates of any size, pixel count is     *)
(* drawn in row count div w and column count mod w, at its address, and no *)
(* register leaves its range, the 20 bits of the error term included       *)
(* (mmio_gpu_fill.sv, cur_x_q to line_err_q).                              *)
THEOREM RectanglesDrawn == Spec => []RectPixels
  <1>1. IInv => RectPixels
    <2> SUFFICES ASSUME IInv, RectFits, Drawing
                 PROVE  /\ pos = [x |-> cmd.x + Column, y |-> cmd.y + Row]
                        /\ dst.addr = FbAddr + 4 * pos.x + FbStride * pos.y
      BY DEF RectPixels, IInv
    <2>1. TypeOK /\ busy = TRUE /\ dst.rows = 0 /\ cmd \in Commands
      BY TypeIs DEF IInv, Drawing
    <2>2. Column = Across /\ Row = Down
      BY <2>1, CountIs
    <2>3. /\ RectPlace /\ Across \in Nat /\ pos.x = cmd.x + Across /\ pos.y = cmd.y + Down
          /\ FbStride * pos.y \in Nat
      BY <2>1, RectEnds
    <2>4. dst.addr = FbAddr + 4 * cmd.x + FbStride * pos.y + 4 * Across
      BY <2>1, <2>3, TypeIs DEF RectPlace
    <2>5. dst.addr = FbAddr + 4 * pos.x + FbStride * pos.y
      BY <2>1, <2>3, <2>4, CommandIs, RasterAssumption
    <2> QED BY <2>1, <2>2, <2>3, <2>5, TypeIs
  <1> QED BY <1>1, Invariance, PTL

(* A copy reads its pixel of the source, and a scaled copy the one that    *)
(* the division of its place by the drawn size gives, although the engine  *)
(* only adds and subtracts (scale_x_accum_q, scale_y_accum_q).             *)
THEOREM SourcesRead == Spec => []SourcePixels
  <1>1. IInv => SourcePixels
    <2> SUFFICES ASSUME IInv, RectFits, Drawing PROVE SourcePixels
      BY DEF SourcePixels
    <2>1. /\ TypeOK /\ busy = TRUE /\ dst.rows = 0 /\ cmd \in Commands /\ ~Advancing
          /\ Column = Across /\ Row = Down
      BY TypeIs, CountIs DEF IInv, Drawing
    <2>2. Across \in Nat /\ Down \in Nat
      BY <2>1, RectEnds
    <2>3. ASSUME cmd.op = "blit"
          PROVE  src.addr = SrcAddr + 4 * Column + SrcStride * Row
      <3>1. src.row = SrcAddr + SrcStride * Down /\ src.addr = src.row + 4 * Across
        BY <2>1, <2>3 DEF IInv, Rect, BlitOK
      <3>2. SrcStride * Down \in Nat
        BY <2>2, Products, RasterAssumption
      <3> QED BY <2>1, <2>2, <3>1, <3>2, RasterAssumption
    <2>4. ASSUME cmd.op = "scale"
          PROVE  src.addr = SrcAddr + 4 * ((Column * cmd.sw) \div cmd.w)
                                    + SrcStride * ((Row * cmd.sh) \div cmd.h)
      <3>1. acc.x < cmd.w /\ acc.y < cmd.h
        BY <2>1, <2>4, ScaleFacts, TypeIs, CommandIs
      <3>2. PICK a \in Nat, b \in Nat : Scaled(a, b)
        BY <2>1, <2>4, ScaleFacts
      <3>3. /\ Column * cmd.sw = a * cmd.w + acc.x
            /\ Row * cmd.sh = b * cmd.h + acc.y
        BY <2>1, <3>2 DEF Scaled
      <3>4. (Column * cmd.sw) \div cmd.w = a /\ (Row * cmd.sh) \div cmd.h = b
        BY <2>1, <3>1, <3>3, DivModIs, TypeIs, CommandIs
      <3>5. SrcStride * b \in Nat
        BY Products, RasterAssumption
      <3> QED BY <3>2, <3>4, <3>5, RasterAssumption DEF Scaled
    <2> QED BY <2>3, <2>4 DEF SourcePixels
  <1> QED BY <1>1, Invariance, PTL

(* Every pixel of a line of any length and direction is within half a      *)
(* pixel of the ideal line and at its address (line_err_q, cur_addr_q).    *)
THEOREM LinesStraight == Spec => []LinePixels
  <1>1. IInv => LinePixels
    <2> SUFFICES ASSUME IInv, cmd.op = "line", Drawing PROVE LinePixels
      BY DEF LinePixels
    <2>1. TypeOK /\ busy = TRUE /\ dst.rows = 0 /\ cmd \in Commands /\ LinePlace
      BY TypeIs DEF IInv, Drawing, LineOK
    <2>2. /\ Near(line_dx, line_dy, Moved_x, Moved_y, err)
          /\ dst.addr = FbAddr + 4 * pos.x + FbStride * pos.y
      BY <2>1, TypeIs DEF LinePlace
    <2> QED BY <2>2 DEF LinePixels, Near, Moved_x, Moved_y, Longer
  <1> QED BY <1>1, Invariance, PTL

(* A command that has ended has drawn as many pixels as its shape has: the *)
(* part of Finishes that is a matter of safety.                            *)
THEOREM NothingLeftOut == Spec => []AllDrawn
  BY Invariance, PTL DEF IInv

\* A command that is still drawing has pixels left.
PixelsLeft ==
  busy =>
    /\ cmd.op = "line" => count <= Longer
    /\ RectFits => count < cmd.w * cmd.h

(* No line and no rectangle that fits draws more pixels than it has: the   *)
(* comparisons that end them (end_x, end_y, the end point of a line) are   *)
(* met at the last pixel and never passed.                                 *)
THEOREM NothingTooMuch == Spec => []PixelsLeft
  <1>1. IInv => PixelsLeft
    <2> SUFFICES ASSUME IInv, busy PROVE PixelsLeft
      BY DEF PixelsLeft
    <2>1. TypeOK /\ busy = TRUE /\ cmd \in Commands
      BY TypeIs DEF IInv
    <2>2. ASSUME cmd.op = "line" PROVE count <= Longer
      <3>1. LinePlace
        BY <2>1, <2>2 DEF IInv, LineOK
      <3>2. /\ Moved_x <= line_dx /\ Moved_y <= line_dy
            /\ count = IF line_dx >= line_dy THEN Moved_x ELSE Moved_y
        BY <3>1 DEF LinePlace, Near
      <3> QED BY <3>2 DEF Longer
    <2>3. ASSUME RectFits PROVE count < cmd.w * cmd.h
      <3>1. PICK w \in Nat, h \in Nat : w = cmd.w /\ h = cmd.h
        BY <2>1, CommandIs
      <3>2. /\ Across \in Nat /\ Down \in Nat /\ Across < w /\ Down < h
            /\ count = Down * w + Across
        BY <2>1, <2>3, <3>1, RectEnds DEF RectPlace
      <3>3. PICK d \in Nat : h = (Down + 1) + d
        BY <3>2
      <3>4. w * h = w * (Down + 1) + w * d /\ w * d \in Nat /\ w * (Down + 1) = Down * w + w
            /\ Down * w \in Nat
        BY <3>2, <3>3, Products
      <3> QED BY <3>1, <3>2, <3>4
    <2> QED BY <2>2, <2>3 DEF PixelsLeft
  <1> QED BY <1>1, Invariance, PTL

\* A step of a command that runs ends it, draws a pixel, skips a row, subtracts from an
\* accumulator, or finds that there is nothing left to subtract.
PixelFollows ==
  busy =>
    \/ ~busy'
    \/ count' = count + 1
    \/ /\ count' = count
       /\ \/ dst'.rows < dst.rows
          \/ dst' = dst /\ acc'.x + acc'.y < acc.x + acc.y
          \/ /\ dst' = dst /\ acc'.x = acc.x /\ acc'.y = acc.y
             /\ \/ acc.y_adv /\ ~acc'.y_adv /\ acc'.x_adv = acc.x_adv
                \/ acc.x_adv /\ ~acc'.x_adv /\ acc'.y_adv = acc.y_adv

(* With NothingTooMuch the safety half of Finishes: a pixel is drawn after *)
(* finitely many steps.  The source of a scaled copy is found by repeated  *)
(* subtraction, which ends because an accepted rectangle is not empty.     *)
THEOREM PixelsFollow == Spec => [][PixelFollows]_vars
  <1>1. IInv /\ [Next]_vars => [PixelFollows]_vars
    <2> SUFFICES ASSUME IInv, Next PROVE PixelFollows
      OBVIOUS
    <2>1. /\ TypeOK /\ cmd \in Commands /\ Accepted(cmd)
          /\ acc \in [x : Nat, y : Nat, x_adv : BOOLEAN, y_adv : BOOLEAN]
      BY TypeIs DEF IInv, TypeOK
    <2>2. cmd.op = "scale" => cmd.w \in Nat /\ cmd.h \in Nat /\ cmd.w > 0 /\ cmd.h > 0
      BY <2>1, CommandIs DEF Accepted
    <2>3. CASE SkipRow
      BY <2>1, <2>3, TypeIs DEF SkipRow, PixelFollows
    <2>4. CASE AdvanceRow
      <3>1. count' = count /\ dst' = dst /\ cmd.op = "scale" /\ acc.y_adv
        BY <2>4 DEF AdvanceRow
      <3>2. CASE acc.y >= cmd.h
        <4>1. acc'.x = acc.x /\ acc'.y = acc.y - cmd.h
          BY <2>1, <2>4, <3>2 DEF AdvanceRow
        <4>2. acc'.x + acc'.y < acc.x + acc.y
          BY <2>1, <2>2, <3>1, <4>1
        <4> QED BY <3>1, <4>2 DEF PixelFollows
      <3>3. CASE ~(acc.y >= cmd.h)
        <4>1. /\ acc'.x = acc.x /\ acc'.y = acc.y /\ acc'.y_adv = FALSE
              /\ acc'.x_adv = acc.x_adv
          BY <2>1, <2>4, <3>3 DEF AdvanceRow
        <4> QED BY <3>1, <4>1 DEF PixelFollows
      <3> QED BY <3>2, <3>3
    <2>5. CASE AdvanceColumn
      <3>1. count' = count /\ dst' = dst /\ cmd.op = "scale" /\ acc.x_adv
        BY <2>5 DEF AdvanceColumn
      <3>2. CASE acc.x >= cmd.w
        <4>1. acc'.y = acc.y /\ acc'.x = acc.x - cmd.w
          BY <2>1, <2>5, <3>2 DEF AdvanceColumn
        <4>2. acc'.x + acc'.y < acc.x + acc.y
          BY <2>1, <2>2, <3>1, <4>1
        <4> QED BY <3>1, <4>2 DEF PixelFollows
      <3>3. CASE ~(acc.x >= cmd.w)
        <4>1. /\ acc'.x = acc.x /\ acc'.y = acc.y /\ acc'.x_adv = FALSE
              /\ acc'.y_adv = acc.y_adv
          BY <2>1, <2>5, <3>3 DEF AdvanceColumn
        <4> QED BY <3>1, <4>1 DEF PixelFollows
      <3> QED BY <3>2, <3>3
    <2>6. CASE DrawLine \/ DrawRight \/ DrawDown \/ DrawLast
      BY <2>6 DEF DrawLine, DrawRight, DrawDown, DrawLast, PixelFollows
    <2>7. CASE Done
      BY <2>7 DEF Done, PixelFollows
    <2> QED BY <2>3, <2>4, <2>5, <2>6, <2>7 DEF Next
  <1> QED BY <1>1, Invariance, PTL DEF Spec
=============================================================================
