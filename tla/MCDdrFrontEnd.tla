--------------------------- MODULE MCDdrFrontEnd ---------------------------
(* Instances of DdrFrontEnd for TLC.                                       *)
EXTENDS DdrFrontEnd

W00 == <<0, 0>>
W01 == <<0, 1>>
W10 == <<1, 0>>
W11 == <<1, 1>>
W20 == <<2, 0>>

NoWords == {}

\* Accesses that collide in the one set of each cache, run from line to line up
\* to VRAM (line 2), and put one access of every master in the way of the others.
LiveFetches == {W01}
LiveLoads   == {W00, W11}
LiveStores  == {W11}
LivePixels  == {W11}
LiveTexels  == {W20}
=============================================================================
