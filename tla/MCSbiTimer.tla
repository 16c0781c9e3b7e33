---------------------------- MODULE MCSbiTimer ----------------------------
(* Instances of SbiTimer for TLC.                                          *)
EXTENDS SbiTimer

\* Deadlines before, at and after the carry of the low half.
Soon  == {0, 3, 5, 6, 9}

\* Also the deadline that stands for no timer at all.
Never == {2, Top - 1}
=============================================================================
