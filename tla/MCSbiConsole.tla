--------------------------- MODULE MCSbiConsole ---------------------------
(* Instances of SbiConsole for TLC.                                        *)
EXTENDS SbiConsole
=============================================================================
