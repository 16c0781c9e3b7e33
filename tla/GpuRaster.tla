----------------------------- MODULE GpuRaster -----------------------------
(***************************************************************************)
(* Which pixels the fill engine touches, and where they are in memory: the *)
(* coordinate and address registers of rtl/periph/mmio_gpu_fill.sv over    *)
(* the run of one command.  The answers of DDR are left to GpuFill: a Draw *)
(* step here is the cycle in which a pixel is finished.                    *)
(*                                                                         *)
(* Coordinates and sizes have Coord values (2^16 in the code).             *)
(***************************************************************************)
EXTENDS Integers

CONSTANTS
  Coord,               \* values of a coordinate register
  FbAddr, FbStride,    \* where the framebuffer is, bytes per row
  SrcAddr, SrcStride,  \* the same of the source image
  Commands             \* [op, x, y, w, h, sw, sh]; the end of a line is (w, h)

ASSUME RasterAssumption ==
  /\ Coord \in Nat \ {0}
  /\ FbAddr \in Nat /\ FbStride \in Nat /\ SrcAddr \in Nat /\ SrcStride \in Nat
  /\ Commands \subseteq
       [op : {"fill", "line", "blit", "scale"},
        x : 0 .. Coord - 1, y : 0 .. Coord - 1, w : 0 .. Coord - 1, h : 0 .. Coord - 1,
        sw : 1 .. Coord - 1, sh : 1 .. Coord - 1]

VARIABLES
  cmd,    \* the command
  busy,   \* busy_q
  count,  \* pixel_count_q
  pos,    \* cur_x_q, cur_y_q
  dst,    \* cur_addr_q, row_start_addr_q, addr_init_rows_q
  src,    \* cur_src_addr_q, src_row_start_addr_q
  acc,    \* scale_x_accum_q, scale_y_accum_q and the advance flags
  err     \* line_err_q

vars == <<cmd, busy, count, pos, dst, src, acc, err>>
-----------------------------------------------------------------------------
Distance(a, b) == IF b >= a THEN b - a ELSE a - b
line_dx == Distance(cmd.x, cmd.w)
line_dy == Distance(cmd.y, cmd.h)
Inc(a) == (a + 1) % Coord

end_x == (cmd.x + cmd.w) % Coord
end_y == (cmd.y + cmd.h) % Coord

(* A rectangle has pixels.  (Its ends are not compared with the            *)
(* framebuffer: see RectFits.)                                             *)
Accepted(c) == c.op # "line" => c.w # 0 /\ c.h # 0

Init ==
  /\ cmd \in {c \in Commands : Accepted(c)}
  /\ busy = TRUE /\ count = 0
  /\ pos = [x |-> cmd.x, y |-> cmd.y]
  /\ dst = [addr |-> FbAddr + 4 * cmd.x, row |-> FbAddr + 4 * cmd.x, rows |-> cmd.y]
  /\ src = [addr |-> SrcAddr, row |-> SrcAddr]
  /\ acc = [x |-> 0, y |-> 0, x_adv |-> FALSE, y_adv |-> FALSE]
  /\ err = line_dx - line_dy
-----------------------------------------------------------------------------
(* addr_init_q: the rows above the first pixel.                            *)
SkipRow ==
  /\ busy /\ dst.rows > 0
  /\ dst' = [addr |-> dst.addr + FbStride, row |-> dst.row + FbStride, rows |-> dst.rows - 1]
  /\ UNCHANGED <<cmd, busy, count, pos, src, acc, err>>

Advancing == cmd.op = "scale" /\ (acc.x_adv \/ acc.y_adv)

AdvanceRow ==
  /\ busy /\ dst.rows = 0 /\ cmd.op = "scale" /\ acc.y_adv
  /\ IF acc.y >= cmd.h
     THEN /\ acc' = [acc EXCEPT !.y = @ - cmd.h, !.y_adv = acc.y - cmd.h >= cmd.h]
          /\ src' = [addr |-> src.row + SrcStride, row |-> src.row + SrcStride]
     ELSE /\ acc' = [acc EXCEPT !.y_adv = FALSE]
          /\ src' = [src EXCEPT !.addr = src.row]
  /\ UNCHANGED <<cmd, busy, count, pos, dst, err>>

AdvanceColumn ==
  /\ busy /\ dst.rows = 0 /\ cmd.op = "scale" /\ ~acc.y_adv /\ acc.x_adv
  /\ IF acc.x >= cmd.w
     THEN /\ acc' = [acc EXCEPT !.x = @ - cmd.w, !.x_adv = acc.x - cmd.w >= cmd.w]
          /\ src' = [src EXCEPT !.addr = @ + 4]
     ELSE /\ acc' = [acc EXCEPT !.x_adv = FALSE]
          /\ src' = src
  /\ UNCHANGED <<cmd, busy, count, pos, dst, err>>

(* The engine has a pixel to draw.                                         *)
Drawing == busy /\ dst.rows = 0 /\ ~Advancing
-----------------------------------------------------------------------------
(* Lines.                                                                  *)

(* Mutant: the sign of the error term is lost.                             *)
line_move_x_positive == 2 * err > line_dy

line_move_x == 2 * err > -line_dy

line_move_y == 2 * err < line_dx

DrawLine ==
  /\ Drawing /\ cmd.op = "line"
  /\ count' = count + 1
  /\ IF pos.x = cmd.w /\ pos.y = cmd.h
     THEN busy' = FALSE /\ UNCHANGED <<pos, dst, err>>
     ELSE LET mx == IF ~line_move_x THEN 0 ELSE IF cmd.w >= cmd.x THEN 1 ELSE -1
              my == IF ~line_move_y THEN 0 ELSE IF cmd.h >= cmd.y THEN 1 ELSE -1
          IN  /\ busy' = busy
              /\ pos' = [x |-> (pos.x + mx) % Coord, y |-> (pos.y + my) % Coord]
              /\ err' = err + (IF line_move_x THEN -line_dy ELSE 0)
                            + (IF line_move_y THEN line_dx ELSE 0)
              /\ dst' = [dst EXCEPT !.addr = @ + 4 * mx + FbStride * my]
  /\ UNCHANGED <<cmd, src, acc>>
-----------------------------------------------------------------------------
(* Rectangles: fill and clear, the copies, and the scaled copy.            *)

LastColumn == Inc(pos.x) >= end_x

(* Mutant: the end of the rectangle is taken to be inside it.              *)
LastRow_inclusive == pos.y >= end_y

LastRow == Inc(pos.y) >= end_y

DrawRight ==
  /\ Drawing /\ cmd.op # "line" /\ ~LastColumn
  /\ count' = count + 1
  /\ pos' = [pos EXCEPT !.x = Inc(@)]
  /\ dst' = [dst EXCEPT !.addr = @ + 4]
  /\ acc' = IF cmd.op = "scale"
            THEN [acc EXCEPT !.x = @ + cmd.sw, !.x_adv = acc.x + cmd.sw >= cmd.w] ELSE acc
  /\ src' = IF cmd.op = "blit" THEN [src EXCEPT !.addr = @ + 4] ELSE src
  /\ UNCHANGED <<cmd, busy, err>>

(* Mutant: the column remainder is carried into the next row.              *)
DrawDown_keeps_x ==
  /\ Drawing /\ cmd.op # "line" /\ LastColumn /\ ~LastRow
  /\ count' = count + 1
  /\ pos' = [x |-> cmd.x, y |-> Inc(pos.y)]
  /\ dst' = [dst EXCEPT !.addr = dst.row + FbStride, !.row = @ + FbStride]
  /\ acc' = IF cmd.op = "scale"
            THEN [acc EXCEPT !.y = @ + cmd.sh, !.y_adv = acc.y + cmd.sh >= cmd.h] ELSE acc
  /\ src' = CASE cmd.op = "scale" -> [src EXCEPT !.addr = src.row]
              [] cmd.op = "blit" -> [addr |-> src.row + SrcStride, row |-> src.row + SrcStride]
              [] cmd.op = "fill" -> src
  /\ UNCHANGED <<cmd, busy, err>>

(* Mutant: the next row is found from the last pixel.                      *)
DrawDown_from_end ==
  /\ Drawing /\ cmd.op # "line" /\ LastColumn /\ ~LastRow
  /\ count' = count + 1
  /\ pos' = [x |-> cmd.x, y |-> Inc(pos.y)]
  /\ dst' = [dst EXCEPT !.addr = dst.addr + FbStride, !.row = @ + FbStride]
  /\ acc' = IF cmd.op = "scale"
            THEN [x |-> 0, x_adv |-> FALSE,
                  y |-> acc.y + cmd.sh, y_adv |-> acc.y + cmd.sh >= cmd.h] ELSE acc
  /\ src' = CASE cmd.op = "scale" -> [src EXCEPT !.addr = src.row]
              [] cmd.op = "blit" -> [addr |-> src.row + SrcStride, row |-> src.row + SrcStride]
              [] cmd.op = "fill" -> src
  /\ UNCHANGED <<cmd, busy, err>>

DrawDown ==
  /\ Drawing /\ cmd.op # "line" /\ LastColumn /\ ~LastRow
  /\ count' = count + 1
  /\ pos' = [x |-> cmd.x, y |-> Inc(pos.y)]
  /\ dst' = [dst EXCEPT !.addr = dst.row + FbStride, !.row = @ + FbStride]
  /\ acc' = IF cmd.op = "scale"
            THEN [x |-> 0, x_adv |-> FALSE,
                  y |-> acc.y + cmd.sh, y_adv |-> acc.y + cmd.sh >= cmd.h] ELSE acc
  /\ src' = CASE cmd.op = "scale" -> [src EXCEPT !.addr = src.row]
              [] cmd.op = "blit" -> [addr |-> src.row + SrcStride, row |-> src.row + SrcStride]
              [] cmd.op = "fill" -> src
  /\ UNCHANGED <<cmd, busy, err>>

DrawLast ==
  /\ Drawing /\ cmd.op # "line" /\ LastColumn /\ LastRow
  /\ count' = count + 1 /\ busy' = FALSE
  /\ pos' = [pos EXCEPT !.x = cmd.x]
  /\ UNCHANGED <<cmd, dst, src, acc, err>>

(* The command has ended.                                                  *)
Done == ~busy /\ UNCHANGED vars

Next ==
  \/ SkipRow \/ AdvanceRow \/ AdvanceColumn
  \/ DrawLine \/ DrawRight \/ DrawDown \/ DrawLast
  \/ Done

Spec == Init /\ [][Next]_vars /\ WF_vars(Next)
-----------------------------------------------------------------------------
(* Properties.                                                             *)

TypeOK ==
  /\ cmd \in Commands /\ busy \in BOOLEAN /\ count \in Nat
  /\ pos \in [x : 0 .. Coord - 1, y : 0 .. Coord - 1]
  /\ dst \in [addr : Nat, row : Nat, rows : 0 .. Coord - 1]
  /\ src \in [addr : Nat, row : Nat]
  /\ acc \in [x : Nat, y : Nat, x_adv : BOOLEAN, y_adv : BOOLEAN]
  /\ err \in -(4 * Coord) .. 4 * Coord - 1  \* line_err2, twice err, has 20 bits

(* What the coordinate registers can hold; larger rectangles wrap.         *)
RectFits == cmd.op # "line" /\ cmd.x + cmd.w < Coord /\ cmd.y + cmd.h < Coord

Column == count % cmd.w
Row == count \div cmd.w

(* A rectangle is drawn row by row, each pixel once, at its place in the   *)
(* framebuffer.  (With the types of all registers.)                        *)
RectPixels ==
  /\ TypeOK
  /\ RectFits /\ Drawing =>
       /\ pos = [x |-> cmd.x + Column, y |-> cmd.y + Row]
       /\ dst.addr = FbAddr + 4 * pos.x + FbStride * pos.y

(* A copy reads the pixel of the same row and column of the source, a      *)
(* scaled copy the one whose share of the source the pixel falls in.       *)
SourcePixels ==
  RectFits /\ Drawing =>
    /\ cmd.op = "blit"  => src.addr = SrcAddr + 4 * Column + SrcStride * Row
    /\ cmd.op = "scale" => src.addr = SrcAddr + 4 * ((Column * cmd.sw) \div cmd.w)
                                      + SrcStride * ((Row * cmd.sh) \div cmd.h)

Longer == IF line_dx >= line_dy THEN line_dx ELSE line_dy

(* Every pixel of a line is within half a pixel of the ideal line, at its  *)
(* place in the framebuffer, and is not past the end.                      *)
LinePixels ==
  cmd.op = "line" /\ Drawing =>
    LET i == Distance(cmd.x, pos.x)
        j == Distance(cmd.y, pos.y)
        off == line_dx * j - line_dy * i
    IN  /\ 2 * off <= Longer /\ -Longer <= 2 * off
        /\ i <= line_dx /\ j <= line_dy
        /\ dst.addr = FbAddr + 4 * pos.x + FbStride * pos.y

(* Every command comes to its end, and has then drawn as many pixels as    *)
(* its shape has: none is left out at the end, none is drawn past it.      *)
Finishes ==
  <>(/\ ~busy
     /\ cmd.op = "line" => count = Longer + 1
     /\ RectFits => count = cmd.w * cmd.h)
=============================================================================
