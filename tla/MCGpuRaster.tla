---------------------------- MODULE MCGpuRaster ----------------------------
(* Instances of GpuRaster for TLC.                                         *)
EXTENDS GpuRaster

Cmd(op, xs, ys, ws, hs, sws, shs) ==
  [op : {op}, x : xs, y : ys, w : ws, h : hs, sw : sws, sh : shs]

\* Rectangles that fit and some that wrap, all lines, and scaling up,
\* down and unevenly.
Small ==
  Cmd("fill", {0, 1, 5}, {0, 2, 6}, 0 .. 3, 0 .. 3, {1}, {1})
    \cup Cmd("blit", {0, 3}, {0, 1}, 1 .. 4, 1 .. 3, {1}, {1})
    \cup Cmd("line", 0 .. 7, 0 .. 7, 0 .. 7, 0 .. 7, {1}, {1})
    \cup Cmd("scale", {1}, {0, 1}, 1 .. 4, 1 .. 3, 1 .. 6, 1 .. 5)
=============================================================================
