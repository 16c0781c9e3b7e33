------------------------------ MODULE SbiTimer ------------------------------
(***************************************************************************)
(* The timer: rtl/periph/mmio_timer.sv (mtime, mtimecmp, the interrupt     *)
(* line) and program_timer of the M-mode firmware                          *)
(* (hw_bringup/programs/linux_boot_firmware.zx32.s), which turns a request *)
(* in the domain of the time CSR into a compare value in that of mtime.    *)
(*                                                                         *)
(* Both counters and the compare register are 64 bits wide and are read    *)
(* and written in halves while time passes.  A 64-bit value is the pair    *)
(* <<high, low>>; a half has Half values (2^32 in the code).               *)
(*                                                                         *)
(* One step is one access of the firmware to a half, one clock tick, or    *)
(* one operation of the boot launcher.                                     *)
(***************************************************************************)
EXTENDS Naturals

CONSTANTS
  Half,      \* values of a 32-bit half
  Window,    \* the least distance of a deadline, 0x10000
  Requests,  \* the deadlines Linux asks for
  BootTime,  \* ticks that pass at least before the CPU is released
  MaxSkew,   \* bound on the ticks between the reads that calibrate
  MaxTime    \* bound on mtime

Top == Half * Half

ASSUME TimerAssumption ==
  /\ Half \in Nat \ {0} /\ Window \in 1 .. Half - 1
  /\ Requests \subseteq 0 .. Top - 1
  /\ BootTime \in Nat /\ MaxSkew \in 0 .. BootTime
  /\ MaxTime \in Nat /\ MaxTime < Top - Half

VARIABLES
  mtime,     \* of the timer
  mtimecmp,
  mcycle,    \* the core's counter behind the time CSR
  fw,        \* the firmware: where it is, its registers
  offset,    \* mtime - time, in scratch: valid flag and value
  due,       \* what the last deadline stands for: request, and when it was set
  skew       \* how long the calibration took

vars == <<mtime, mtimecmp, mcycle, fw, offset, due, skew>>
-----------------------------------------------------------------------------
(* 64-bit arithmetic on halves.                                            *)

Halves == 0 .. Half - 1
Dword == Halves \X Halves
Val(d) == d[1] * Half + d[2]
Split(v) == <<v \div Half, v % Half>>

Add(a, b) ==
  LET low == (a[2] + b[2]) % Half
      carry == IF low < b[2] THEN 1 ELSE 0
  IN  <<(a[1] + b[1] + carry) % Half, low>>

(* Mutant: the borrow of the low halves is lost.                           *)
Sub_no_borrow(a, b) ==
  <<(a[1] + Half - b[1]) % Half, (a[2] + Half - b[2]) % Half>>

Sub(a, b) ==
  LET borrow == IF a[2] < b[2] THEN 1 ELSE 0
  IN  <<(a[1] + 2 * Half - b[1] - borrow) % Half, (a[2] + Half - b[2]) % Half>>

Less(a, b) == a[1] < b[1] \/ (a[1] = b[1] /\ a[2] < b[2])
-----------------------------------------------------------------------------
Pc == {"held", "linux", "mtime_hi", "mtime_lo", "mtime_check",
       "time_hi", "time_lo", "time_check", "deadline",
       "cmp_off", "cmp_lo", "cmp_hi"}
Calibrating == {"mtime_check", "time_hi", "time_lo", "time_check"}

Zero == <<0, 0>>
NoDue == [set |-> FALSE, request |-> 0, at |-> 0]

TypeOK ==
  /\ mtime \in 0 .. MaxTime /\ mcycle \in 0 .. mtime
  /\ mtimecmp \in Dword
  /\ fw \in [pc : Pc, arg : Dword, now : Dword, time : Dword, cmp : Dword,
             seen : 0 .. MaxTime]
  /\ offset \in [valid : BOOLEAN, value : Dword]
  /\ due \in [set : BOOLEAN, request : 0 .. Top - 1, at : 0 .. MaxTime]
  /\ skew \in 0 .. MaxSkew

Held == [pc |-> "held", arg |-> Zero, now |-> Zero, time |-> Zero, cmp |-> Zero,
         seen |-> 0]

Init ==
  /\ mtime = 0 /\ mcycle = 0 /\ mtimecmp = Zero
  /\ fw = Held
  /\ offset = [valid |-> FALSE, value |-> Zero]
  /\ due = NoDue /\ skew = 0
-----------------------------------------------------------------------------
(* The hardware.                                                           *)

irq_timer == mtimecmp # Zero /\ ~Less(Split(mtime), mtimecmp)

(* A clock edge.  The core's counter stands still while the CPU is held.   *)
(* fw.seen is when mtime was read: calibration takes at most MaxSkew.      *)
Tick ==
  /\ mtime < MaxTime
  /\ fw.pc \in Calibrating => mcycle - fw.seen < MaxSkew
  /\ mtime' = mtime + 1
  /\ mcycle' = IF fw.pc = "held" THEN 0 ELSE mcycle + 1
  /\ UNCHANGED <<mtimecmp, fw, offset, due, skew>>
-----------------------------------------------------------------------------
(* program_timer.                                                          *)

Time == UNCHANGED <<mtime, mcycle>>

(* Linux asks for a deadline.                                              *)
SetTimer ==
  /\ fw.pc = "linux"
  /\ \E r \in Requests : fw' = [fw EXCEPT !.pc = "mtime_hi", !.arg = Split(r)]
  /\ Time /\ UNCHANGED <<mtimecmp, offset, due, skew>>

MtimeHi ==
  /\ fw.pc = "mtime_hi"
  /\ fw' = [fw EXCEPT !.pc = "mtime_lo", !.now = <<Split(mtime)[1], 0>>]
  /\ Time /\ UNCHANGED <<mtimecmp, offset, due, skew>>
MtimeLo ==
  /\ fw.pc = "mtime_lo"
  /\ fw' = [fw EXCEPT !.pc = "mtime_check", !.now = <<fw.now[1], Split(mtime)[2]>>,
                      !.seen = mcycle]
  /\ Time /\ UNCHANGED <<mtimecmp, offset, due, skew>>

(* Mutant: a carry between the two reads goes unnoticed.                   *)
MtimeCheck_omitted ==
  /\ fw.pc = "mtime_check"
  /\ fw' = [fw EXCEPT !.pc = "time_hi"]
  /\ Time /\ UNCHANGED <<mtimecmp, offset, due, skew>>

MtimeCheck ==
  /\ fw.pc = "mtime_check"
  /\ fw' = [fw EXCEPT !.pc = IF Split(mtime)[1] = fw.now[1] THEN "time_hi" ELSE "mtime_hi"]
  /\ Time /\ UNCHANGED <<mtimecmp, offset, due, skew>>

TimeHi ==
  /\ fw.pc = "time_hi"
  /\ fw' = [fw EXCEPT !.pc = "time_lo", !.time = <<Split(mcycle)[1], 0>>]
  /\ Time /\ UNCHANGED <<mtimecmp, offset, due, skew>>
TimeLo ==
  /\ fw.pc = "time_lo"
  /\ fw' = [fw EXCEPT !.pc = "time_check", !.time = <<fw.time[1], Split(mcycle)[2]>>]
  /\ Time /\ UNCHANGED <<mtimecmp, offset, due, skew>>
TimeCheck ==
  /\ fw.pc = "time_check"
  /\ fw' = [fw EXCEPT
              !.pc = IF Split(mcycle)[1] = fw.time[1] THEN "deadline" ELSE "time_hi"]
  /\ Time /\ UNCHANGED <<mtimecmp, offset, due, skew>>

(* The first call of a boot measures the offset; every call adds it to the *)
(* request and keeps the deadline at least Window away.                    *)
Deadline ==
  /\ fw.pc = "deadline"
  /\ offset' = IF offset.valid THEN offset
               ELSE [valid |-> TRUE, value |-> Sub(fw.now, fw.time)]
  /\ skew' = IF offset.valid THEN skew ELSE Val(fw.time) - fw.seen
  /\ LET asked == Add(fw.arg, offset'.value)
         least == Add(fw.now, <<0, Window>>)
     IN  fw' = [fw EXCEPT !.pc = "cmp_off",
                          !.cmp = IF Less(asked, least) THEN least ELSE asked]
  /\ Time /\ UNCHANGED <<mtimecmp, due>>

CmpOff ==
  /\ fw.pc = "cmp_off"
  /\ mtimecmp' = <<Half - 1, mtimecmp[2]>>
  /\ fw' = [fw EXCEPT !.pc = "cmp_lo"]
  /\ due' = [set |-> TRUE, request |-> Val(fw.arg), at |-> mcycle]
  /\ Time /\ UNCHANGED <<offset, skew>>
CmpLo ==
  /\ fw.pc = "cmp_lo"
  /\ mtimecmp' = <<mtimecmp[1], fw.cmp[2]>>
  /\ fw' = [fw EXCEPT !.pc = "cmp_hi"]
  /\ Time /\ UNCHANGED <<offset, due, skew>>
CmpHi ==
  /\ fw.pc = "cmp_hi"
  /\ mtimecmp' = <<fw.cmp[1], mtimecmp[2]>>
  /\ fw' = [Held EXCEPT !.pc = "linux"]
  /\ Time /\ UNCHANGED <<offset, due, skew>>
-----------------------------------------------------------------------------
(* The boot launcher.                                                      *)

(* A reboot resets the PL and holds the CPU.  (The old firmware that runs  *)
(* until CPU_CTRL is written does not get as far as a timer call.)         *)
Reboot ==
  /\ fw.pc = "linux"
  /\ mtime' = 0 /\ mcycle' = 0 /\ mtimecmp' = Zero
  /\ fw' = Held
  /\ due' = NoDue
  /\ UNCHANGED <<offset, skew>>

(* Scratch is cleared and the CPU released, when the images are in place.  *)
Release ==
  /\ fw.pc = "held" /\ mtime >= BootTime
  /\ fw' = [fw EXCEPT !.pc = "linux"]
  /\ offset' = [valid |-> FALSE, value |-> Zero]
  /\ skew' = 0
  /\ Time /\ UNCHANGED <<mtimecmp, due>>

Next ==
  \/ Tick
  \/ SetTimer \/ MtimeHi \/ MtimeLo \/ MtimeCheck \/ TimeHi \/ TimeLo \/ TimeCheck
  \/ Deadline \/ CmpOff \/ CmpLo \/ CmpHi
  \/ Reboot \/ Release

Spec == Init /\ [][Next]_vars
-----------------------------------------------------------------------------
(* Properties.                                                             *)

(* The interrupt line is never up before the requested time, seen on the   *)
(* time CSR, by more than the offset was measured wrong: not because of a  *)
(* torn read, a carry, a half-written compare value or an offset measured  *)
(* in an earlier boot.  (With the types of all variables.)                 *)
NeverEarly == TypeOK /\ (due.set /\ irq_timer => mcycle + skew >= due.request)

(* Nor is it late: once the requested time has come, and the window after  *)
(* the call has passed, it is up until the next call reprograms it.        *)
NeverLate ==
  /\ due.set /\ fw.pc \notin {"cmp_lo", "cmp_hi"}
  /\ mcycle >= due.request /\ mcycle >= due.at + Window
  => irq_timer

(* The compare value is the larger of the translated request and the least *)
(* deadline (docs/linux_bringup.md:81), or the last value of the counter   *)
(* where the translated request lies beyond it.                            *)
DeadlineAsDocumented ==
  LET translated == Val(fw.arg) + Val(offset.value)
  IN  fw.pc = "cmp_off" =>
        Val(fw.cmp) >= IF translated < Top THEN translated ELSE Top - 1
=============================================================================
