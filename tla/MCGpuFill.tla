----------------------------- MODULE MCGpuFill -----------------------------
(* Instances of GpuFill for TLC.                                           *)
EXTENDS GpuFill

Shape(n, y) == [n |-> n, y |-> y]
OneShape == {Shape(2, 0)}
TwoShapes == {Shape(1, 1), Shape(2, 0)}
=============================================================================
