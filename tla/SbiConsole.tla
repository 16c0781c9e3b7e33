---------------------------- MODULE SbiConsole ----------------------------
(***************************************************************************)
(* The Linux console: the M-mode firmware on the PL CPU                    *)
(* (hw_bringup/programs/linux_boot_firmware.zx32.s) and the boot launcher  *)
(* on the PS (hw_bringup/ps_linux_boot.c) exchange bytes through two rings *)
(* and a one-byte mailbox in the TX scratch, with no lock: only the order  *)
(* of their loads and stores keeps the rings right.                        *)
(*                                                                         *)
(* One step is one access of one side to the scratch (or to the PS UART).  *)
(* Counters are free running and wrap at Wrap (2^32 in the code).          *)
(*                                                                         *)
(* A byte is abstracted to its place in the stream it belongs to: the n-th *)
(* character Linux prints, the n-th key that is typed.                     *)
(***************************************************************************)
EXTENDS Naturals, Sequences

CONSTANTS
  OutBytes,  \* CPU_LINUX_CONSOLE_RING_BYTES, 256
  InBytes,   \* CPU_LINUX_CONSOLE_IN_RING_BYTES, 128
  Wrap,      \* where the 32-bit counters wrap
  MaxOut,    \* bound on the characters Linux prints
  MaxIn,     \* bound on the keys typed
  MaxBoots   \* bound on the boots

ASSUME ConsoleAssumption ==
  /\ OutBytes \in Nat \ {0} /\ InBytes \in Nat \ {0}
  /\ Wrap \in Nat /\ Wrap > OutBytes /\ Wrap > InBytes
  /\ Wrap % OutBytes = 0 /\ Wrap % InBytes = 0
  /\ MaxOut \in Nat /\ MaxIn \in Nat /\ MaxBoots \in Nat

VARIABLES
  out,     \* the output ring: its bytes, total (0x104) and head (0x100)
  in,      \* the input ring: its bytes, head (0x190) and tail (0x194)
  mail,    \* the legacy mailbox: char (0x108) and valid (0x10c)
  magic,   \* CPU_LINUX_RESET_MAGIC
  fw,      \* the PL CPU: where it is in the firmware, its registers
  ps,      \* the launcher: where it is, its local variables
  rx,      \* the PS UART's receive FIFO
  typed,   \* keys typed so far
  sent,    \* characters Linux has printed so far
  shown,   \* the last character that was mirrored or given up at a reboot
  given,   \* the keys getchar has returned, in order
  boots

vars == <<out, in, mail, magic, fw, ps, rx, typed, sent, shown, given, boots>>
-----------------------------------------------------------------------------
Counter == 0 .. Wrap - 1

Succ(c) == (c + 1) % Wrap
Distance(a, b) == (a + Wrap - b) % Wrap
Chars == 0 .. MaxOut
Keys == 0 .. MaxIn

FwPc == {"linux", "put_total", "put_head", "put_byte", "put_publish",
         "get_head", "get_tail", "get_byte", "get_advance",
         "get_valid", "get_char", "get_clear", "halted"}
PsPc == {"pump_head", "pump_tail", "pump_ring", "pump_publish",
         "pump_valid", "pump_char", "pump_set",
         "mirror_total", "mirror_byte", "mirror_head",
         "check_reset", "hold", "clear", "release"}

TypeOK ==
  /\ out \in [byte : [0 .. OutBytes - 1 -> Chars], total : Counter, head : Counter]
  /\ in \in [byte : [0 .. InBytes - 1 -> Keys], head : Counter, tail : Counter]
  /\ mail \in [char : Keys, valid : BOOLEAN]
  /\ magic \in BOOLEAN
  /\ fw \in [pc : FwPc, t0 : Counter, a0 : Keys]
  /\ ps \in [pc : PsPc, loop : BOOLEAN, head : Counter, tail : Counter,
             total : Counter, last : Counter]
  /\ rx \in Seq(Keys) /\ given \in Seq(Keys)
  /\ typed \in Keys /\ sent \in Chars /\ shown \in Chars
  /\ boots \in 0 .. MaxBoots

ClearedOut == [byte |-> [i \in 0 .. OutBytes - 1 |-> 0], total |-> 0, head |-> 0]
ClearedIn == [byte |-> [i \in 0 .. InBytes - 1 |-> 0], head |-> 0, tail |-> 0]
NoMail == [char |-> 0, valid |-> FALSE]

(* The launcher has cleared the scratch and is about to release the CPU.   *)
Init ==
  /\ out = ClearedOut /\ in = ClearedIn /\ mail = NoMail /\ magic = FALSE
  /\ fw = [pc |-> "halted", t0 |-> 0, a0 |-> 0]
  /\ ps = [pc |-> "release", loop |-> TRUE, head |-> 0, tail |-> 0,
           total |-> 0, last |-> 0]
  /\ rx = <<>> /\ typed = 0 /\ given = <<>>
  /\ sent = 0 /\ shown = 0 /\ boots = 0
-----------------------------------------------------------------------------
(* The firmware.                                                           *)

FwGoto(from, to) == fw.pc = from /\ fw' = [fw EXCEPT !.pc = to]
FwOnly == UNCHANGED <<ps, rx, typed, boots>>

(* Linux calls the SBI.                                                    *)
SbiPutchar ==
  /\ sent < MaxOut
  /\ FwGoto("linux", "put_total")
  /\ FwOnly /\ UNCHANGED <<out, in, mail, magic, sent, shown, given>>
SbiGetchar ==
  /\ FwGoto("linux", "get_head")
  /\ FwOnly /\ UNCHANGED <<out, in, mail, magic, sent, shown, given>>
SbiSystemReset ==
  /\ boots < MaxBoots
  /\ FwGoto("linux", "halted")
  /\ magic' = TRUE
  /\ FwOnly /\ UNCHANGED <<out, in, mail, sent, shown, given>>

(* console_wait_space: load total, load head, wait while the ring is full. *)
PutTotal ==
  /\ fw.pc = "put_total"
  /\ fw' = [fw EXCEPT !.pc = "put_head", !.t0 = out.total]
  /\ FwOnly /\ UNCHANGED <<out, in, mail, magic, sent, shown, given>>

(* Mutant: the ring is taken to be full one byte too late.                 *)
PutHead_late ==
  /\ fw.pc = "put_head"
  /\ fw' = [fw EXCEPT !.pc = IF Distance(fw.t0, out.head) <= OutBytes
                             THEN "put_byte" ELSE "put_total"]
  /\ FwOnly /\ UNCHANGED <<out, in, mail, magic, sent, shown, given>>

PutHead ==
  /\ fw.pc = "put_head"
  /\ fw' = [fw EXCEPT !.pc = IF Distance(fw.t0, out.head) < OutBytes
                             THEN "put_byte" ELSE "put_total"]
  /\ FwOnly /\ UNCHANGED <<out, in, mail, magic, sent, shown, given>>

(* Store the byte, then publish it.                                        *)
PutByte ==
  /\ FwGoto("put_byte", "put_publish")
  /\ out' = [out EXCEPT !.byte[fw.t0 % OutBytes] = sent + 1]
  /\ FwOnly /\ UNCHANGED <<in, mail, magic, sent, shown, given>>
PutPublish ==
  /\ FwGoto("put_publish", "linux")
  /\ out' = [out EXCEPT !.total = Succ(fw.t0)]
  /\ sent' = sent + 1
  /\ FwOnly /\ UNCHANGED <<in, mail, magic, shown, given>>

(* sbi_console_getchar: the ring first, ...                                *)
GetHead ==
  /\ fw.pc = "get_head"
  /\ fw' = [fw EXCEPT !.pc = "get_tail", !.t0 = in.head]
  /\ FwOnly /\ UNCHANGED <<out, in, mail, magic, sent, shown, given>>
GetTail ==
  /\ fw.pc = "get_tail"
  /\ fw' = [fw EXCEPT !.pc = IF fw.t0 = in.tail THEN "get_valid" ELSE "get_byte"]
  /\ FwOnly /\ UNCHANGED <<out, in, mail, magic, sent, shown, given>>
GetByte ==
  /\ fw.pc = "get_byte"
  /\ fw' = [fw EXCEPT !.pc = "get_advance", !.a0 = in.byte[fw.t0 % InBytes]]
  /\ FwOnly /\ UNCHANGED <<out, in, mail, magic, sent, shown, given>>
GetAdvance ==
  /\ FwGoto("get_advance", "linux")
  /\ in' = [in EXCEPT !.head = Succ(fw.t0)]
  /\ given' = Append(given, fw.a0)
  /\ FwOnly /\ UNCHANGED <<out, mail, magic, sent, shown>>

(* ... then the mailbox; an empty one returns -1.                          *)
GetValid ==
  /\ fw.pc = "get_valid"
  /\ fw' = [fw EXCEPT !.pc = IF mail.valid THEN "get_char" ELSE "linux"]
  /\ FwOnly /\ UNCHANGED <<out, in, mail, magic, sent, shown, given>>
GetChar ==
  /\ fw.pc = "get_char"
  /\ fw' = [fw EXCEPT !.pc = "get_clear", !.a0 = mail.char]
  /\ FwOnly /\ UNCHANGED <<out, in, mail, magic, sent, shown, given>>

(* Mutant: the mailbox is read and not cleared.                            *)
GetClear_forgotten ==
  /\ FwGoto("get_clear", "linux")
  /\ given' = Append(given, fw.a0)
  /\ FwOnly /\ UNCHANGED <<out, in, mail, magic, sent, shown>>

GetClear ==
  /\ FwGoto("get_clear", "linux")
  /\ mail' = [mail EXCEPT !.valid = FALSE]
  /\ given' = Append(given, fw.a0)
  /\ FwOnly /\ UNCHANGED <<out, in, magic, sent, shown>>

FwNext ==
  \/ SbiPutchar \/ SbiGetchar \/ SbiSystemReset
  \/ PutTotal \/ PutHead \/ PutByte \/ PutPublish
  \/ GetHead \/ GetTail \/ GetByte \/ GetAdvance
  \/ GetValid \/ GetChar \/ GetClear
-----------------------------------------------------------------------------
(* The launcher.  The monitor loop pumps the input, mirrors the output,    *)
(* looks for a reboot request, and pumps again while it delays (ps.loop is *)
(* FALSE in those calls).                                                  *)

PsOnly == UNCHANGED <<fw, typed, sent>>

(* pump_linux_console_input *)
PumpHead ==
  /\ ps.pc = "pump_head"
  /\ ps' = [ps EXCEPT !.pc = "pump_tail", !.head = in.head]
  /\ PsOnly /\ UNCHANGED <<out, in, mail, magic, rx, shown, given, boots>>
PumpTail ==
  /\ ps.pc = "pump_tail"
  /\ ps' = [ps EXCEPT !.pc = "pump_ring", !.tail = in.tail]
  /\ PsOnly /\ UNCHANGED <<out, in, mail, magic, rx, shown, given, boots>>

PumpRoom == Distance(ps.tail, ps.head) < InBytes /\ rx # <<>>

PumpByte ==
  /\ ps.pc = "pump_ring" /\ PumpRoom
  /\ in' = [in EXCEPT !.byte[ps.tail % InBytes] = Head(rx)]
  /\ rx' = Tail(rx)
  /\ ps' = [ps EXCEPT !.pc = "pump_publish"]
  /\ PsOnly /\ UNCHANGED <<out, mail, magic, shown, given, boots>>
PumpPublish ==
  /\ ps.pc = "pump_publish"
  /\ in' = [in EXCEPT !.tail = Succ(ps.tail)]
  /\ ps' = [ps EXCEPT !.pc = "pump_ring", !.tail = Succ(ps.tail)]
  /\ PsOnly /\ UNCHANGED <<out, mail, magic, rx, shown, given, boots>>
PumpRingDone ==
  /\ ps.pc = "pump_ring" /\ ~PumpRoom
  /\ ps' = [ps EXCEPT !.pc = "pump_valid"]
  /\ PsOnly /\ UNCHANGED <<out, in, mail, magic, rx, shown, given, boots>>

(* Where a pump returns to: the mirror, or the next round of the loop.     *)
AfterPump == IF ps.loop THEN "mirror_total" ELSE "pump_head"

(* Mutant: the mailbox is filled again before it has been read.            *)
PumpValid_unchecked ==
  /\ ps.pc = "pump_valid"
  /\ ps' = [ps EXCEPT !.pc = "pump_char"]
  /\ PsOnly /\ UNCHANGED <<out, in, mail, magic, rx, shown, given, boots>>

PumpValid ==
  /\ ps.pc = "pump_valid"
  /\ ps' = IF mail.valid THEN [ps EXCEPT !.pc = AfterPump, !.loop = TRUE]
                         ELSE [ps EXCEPT !.pc = "pump_char"]
  /\ PsOnly /\ UNCHANGED <<out, in, mail, magic, rx, shown, given, boots>>
PumpChar ==
  /\ ps.pc = "pump_char" /\ rx # <<>>
  /\ mail' = [mail EXCEPT !.char = Head(rx)]
  /\ rx' = Tail(rx)
  /\ ps' = [ps EXCEPT !.pc = "pump_set"]
  /\ PsOnly /\ UNCHANGED <<out, in, magic, shown, given, boots>>
PumpNothing ==
  /\ ps.pc = "pump_char" /\ rx = <<>>
  /\ ps' = [ps EXCEPT !.pc = AfterPump, !.loop = TRUE]
  /\ PsOnly /\ UNCHANGED <<out, in, mail, magic, rx, shown, given, boots>>
PumpSet ==
  /\ ps.pc = "pump_set"
  /\ mail' = [mail EXCEPT !.valid = TRUE]
  /\ ps' = [ps EXCEPT !.pc = AfterPump, !.loop = TRUE]
  /\ PsOnly /\ UNCHANGED <<out, in, magic, rx, shown, given, boots>>

(* print_linux_console_mirror: total is read once; a lag of more than the  *)
(* ring is skipped over.                                                   *)
MirrorTotal ==
  /\ ps.pc = "mirror_total"
  /\ ps' = [ps EXCEPT
              !.pc = IF out.total = ps.last THEN "check_reset" ELSE "mirror_byte",
              !.total = out.total,
              !.last = IF Distance(out.total, ps.last) > OutBytes
                       THEN Distance(out.total, OutBytes) ELSE @]
  /\ PsOnly /\ UNCHANGED <<out, in, mail, magic, rx, shown, given, boots>>
MirrorByte ==
  /\ ps.pc = "mirror_byte"
  /\ shown' = out.byte[ps.last % OutBytes]
  /\ ps' = [ps EXCEPT !.pc = "mirror_head", !.last = Succ(@)]
  /\ PsOnly /\ UNCHANGED <<out, in, mail, magic, rx, given, boots>>

(* Mutant: the head counter is not handed back to the firmware.            *)
MirrorHead_forgotten ==
  /\ ps.pc = "mirror_head"
  /\ ps' = [ps EXCEPT !.pc = IF ps.last = ps.total THEN "check_reset" ELSE "mirror_byte"]
  /\ PsOnly /\ UNCHANGED <<out, in, mail, magic, rx, shown, given, boots>>

MirrorHead ==
  /\ ps.pc = "mirror_head"
  /\ out' = [out EXCEPT !.head = ps.last]
  /\ ps' = [ps EXCEPT !.pc = IF ps.last = ps.total THEN "check_reset" ELSE "mirror_byte"]
  /\ PsOnly /\ UNCHANGED <<in, mail, magic, rx, shown, given, boots>>

(* No request: another round, after any number of pumps during the delay.  *)
CheckReset ==
  /\ ps.pc = "check_reset" /\ ~magic
  /\ ps' \in {[ps EXCEPT !.pc = "pump_head", !.loop = l] : l \in BOOLEAN}
  /\ PsOnly /\ UNCHANGED <<out, in, mail, magic, rx, shown, given, boots>>

(* A reboot: the PL is reset, which releases the CPU into the old firmware *)
(* (cpu_reset_req resets to 0) until the restarted launcher holds it,      *)
(* clears the scratch and releases it again.                               *)
Reboot ==
  /\ ps.pc = "check_reset" /\ magic
  /\ fw' = [fw EXCEPT !.pc = "linux"]
  /\ ps' = [ps EXCEPT !.pc = "hold"]
  /\ UNCHANGED <<out, in, mail, magic, rx, typed, sent, shown, given, boots>>
Hold ==
  /\ ps.pc = "hold"
  /\ fw' = [fw EXCEPT !.pc = "halted"]
  /\ ps' = [ps EXCEPT !.pc = "clear"]
  /\ UNCHANGED <<out, in, mail, magic, rx, typed, sent, shown, given, boots>>

(* Mutant: the local copy of the head counter survives the reboot.         *)
Clear_keeps_last ==
  /\ ps.pc = "clear"
  /\ out' = ClearedOut /\ in' = ClearedIn /\ mail' = NoMail /\ magic' = FALSE
  /\ shown' = sent
  /\ ps' = [ps EXCEPT !.pc = "release"]
  /\ PsOnly /\ UNCHANGED <<rx, given, boots>>

Clear ==
  /\ ps.pc = "clear"
  /\ out' = ClearedOut /\ in' = ClearedIn /\ mail' = NoMail /\ magic' = FALSE
  /\ shown' = sent
  /\ ps' = [ps EXCEPT !.pc = "release", !.last = 0]
  /\ PsOnly /\ UNCHANGED <<rx, given, boots>>
Release ==
  /\ ps.pc = "release" /\ boots < MaxBoots
  /\ fw' = [fw EXCEPT !.pc = "linux"]
  /\ boots' = boots + 1
  /\ ps' = [ps EXCEPT !.pc = "pump_head", !.loop = TRUE]
  /\ UNCHANGED <<out, in, mail, magic, rx, typed, sent, shown, given>>

PsNext ==
  \/ PumpHead \/ PumpTail \/ PumpByte \/ PumpPublish \/ PumpRingDone
  \/ PumpValid \/ PumpChar \/ PumpNothing \/ PumpSet
  \/ MirrorTotal \/ MirrorByte \/ MirrorHead
  \/ CheckReset \/ Reboot \/ Hold \/ Clear \/ Release

(* A key reaches the PS UART.                                              *)
Type ==
  /\ typed < MaxIn
  /\ typed' = typed + 1
  /\ rx' = Append(rx, typed + 1)
  /\ UNCHANGED <<out, in, mail, magic, fw, ps, sent, shown, given, boots>>
-----------------------------------------------------------------------------
Next == FwNext \/ PsNext \/ Type

Spec == Init /\ [][Next]_vars

(* The CPU and the launcher keep running, and Linux keeps polling hvc0.    *)
FairSpec ==
  /\ Spec
  /\ WF_vars(PsNext)
  /\ WF_vars(FwNext /\ fw.pc # "linux")
  /\ SF_vars(SbiGetchar)
-----------------------------------------------------------------------------
(* Properties.                                                             *)

(* The launcher mirrors the very next character, every time: none is lost, *)
(* repeated, torn or overwritten before it is read, also when the counters *)
(* wrap and after a reboot.  Only what is still in the ring when a reboot  *)
(* clears it is given up (ps_linux_boot.c:2069 and 2097).                  *)
OutputInOrder ==
  [][/\ MirrorByte => shown' = shown + 1
     /\ shown' # shown => MirrorByte \/ Clear]_vars

(* The firmware never runs more than a ring ahead of what it has been told *)
(* is drained, so the launcher's "skipped" branch is never taken.  (With the *)
(* types of all variables.)                                                *)
NeverSkips ==
  /\ TypeOK
  /\ Distance(out.total, out.head) <= OutBytes
  /\ ps.pc = "mirror_total" => Distance(out.total, ps.last) <= OutBytes

(* No key is handed to Linux twice, and only keys that were typed are.     *)
KeysOnce ==
  \A i, j \in 1 .. Len(given) :
    given[i] \in 1 .. typed /\ (i # j => given[i] # given[j])

(* A putchar waits for space, and always gets it.                          *)
PutReturns == fw.pc = "put_total" ~> fw.pc = "linux"

(* A key is not lost between the UART, the ring and the mailbox, unless a  *)
(* reboot clears them.                                                     *)
KeyArrives ==
  \A k \in 1 .. MaxIn :
    (\E i \in 1 .. Len(rx) : rx[i] = k) ~>
      (ps.pc \in {"clear", "release"} \/ \E i \in 1 .. Len(given) : given[i] = k)
=============================================================================
