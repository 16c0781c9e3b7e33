---- MODULE MCDualConsole ----
(* Streams of bytes that meet every branch of the parser and of putc1. *)
EXTENDS DualConsole

\* a printable, the space, the controls, an unprintable byte and ESC
SmallText == {97, 32, 9, 10, 13, 8, 1, 27}

\* "[", digits, ";", "?", ESC and the final bytes, an unknown one among them
SmallSequence ==
    {91, 49, 50, 51, 57, 59, 63, 27} \cup {64, 74, 75, 80, 88}
    \cup {65, 66, 67, 68, 69, 70, 71, 72, 100, 109, 110}
====
