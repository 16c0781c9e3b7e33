---------------------------- MODULE MCSharedBus ----------------------------
(* Instances of SharedBus for TLC.                                         *)
EXTENDS SharedBus

Status == <<"ctrl", "status">>
Temp   == <<"ctrl", "temp">>
Ring   == <<"tx", "ring">>
Imem   == <<"bram", "imem">>
Ram    == <<"ddr", "ram">>

\* While Linux runs: the launcher polls the control block and the console
\* rings, the core works in scratch, BRAM and DDR.
LauncherAddrs == {Status, Temp, Ring}
LinuxAddrs    == {Ring, Imem, Ram}

\* zx32_temp on the core reads the control block that the launcher writes.
PublisherAddrs == {Temp, Status}
ReaderAddrs    == {Temp}
=============================================================================
