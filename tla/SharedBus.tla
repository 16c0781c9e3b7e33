----------------------------- MODULE SharedBus -----------------------------
(***************************************************************************)
(* The data bus that the PS host and the core share: the AXI-Lite slave of *)
(* rtl/soc/zx32_soc_bd.v, the arbitration of rtl/soc/zx32_soc.sv (the host *)
(* preempts the core in any cycle), and the three kinds of device on it:   *)
(*   "ctrl"  the control block: accepts in the first cycle, is ready in    *)
(*           the second (ctrl_valid_q);                                    *)
(*   "bram"  the data port of rtl/periph/simple_ram.sv: the same with its  *)
(*           own pending bit;                                              *)
(*   "tx"    the scratchpad, and every device that is ready at once.       *)
(* "ddr" stands for the core's cached loads: while one is being looked up  *)
(* or refilled the bus is ready for nobody but the BRAM.                   *)
(*                                                                         *)
(* One step is one clock edge.  The value of a register is abstracted to   *)
(* the access that sampled it; for a write only whether the device has     *)
(* taken it is kept.                                                       *)
(***************************************************************************)
EXTENDS Naturals

CONSTANTS
  HostAddrs,   \* what the PS may access: pairs <<device, register>>
  CoreAddrs    \* what the core may access

Devices == {"ctrl", "bram", "tx", "ddr"}
Registered == {"ctrl", "bram"}

ASSUME BusAssumption ==
  /\ \A a \in HostAddrs : a[1] \in Devices \ {"ddr"}
  /\ \A a \in CoreAddrs : a[1] \in Devices

VARIABLES
  ps,      \* the PS: its access and the AXI channels it still drives
  axi,     \* the AXI-Lite slave's registers
  core,    \* the core's data access
  reset,   \* cpu_reset_req
  refill,  \* dcache_miss_valid
  resp,    \* dcache_resp_valid
  ctrl,    \* ctrl_valid_q and ctrl_rdata_q
  ram,     \* dmem_pending and dmem_rdata
  taken    \* who has had a write taken by a device in its current access

vars == <<ps, axi, core, reset, refill, resp, ctrl, ram, taken>>
-----------------------------------------------------------------------------
NoAddr == <<"none", "none">>
Addrs == HostAddrs \cup CoreAddrs \cup {NoAddr}
Masters == {"host", "core"}

(* The access that sampled a data register, until it has been answered.    *)
NoSample == [for |-> "none", addr |-> NoAddr]
Sample == [for : {"host"}, addr : HostAddrs] \cup [for : {"core"}, addr : CoreAddrs]
            \cup {NoSample}

Channel == {"off", "later", "valid"}
Ps == [op : {"none", "read", "write"}, addr : Addrs,
       aw : Channel, w : Channel, ar : Channel]
NoAccess == [op |-> "none", addr |-> NoAddr,
             aw |-> "off", w |-> "off", ar |-> "off"]

Axi == [st : {"IDLE", "WRITE", "READ"}, aw_seen : BOOLEAN, w_seen : BOOLEAN,
        addr : Addrs, bvalid : BOOLEAN, rvalid : BOOLEAN]
AxiReset == [st |-> "IDLE", aw_seen |-> FALSE, w_seen |-> FALSE,
             addr |-> NoAddr, bvalid |-> FALSE, rvalid |-> FALSE]

CoreStores == [op : {"write"}, addr : {a \in CoreAddrs : a[1] # "ddr"}]
CoreAccess == [op : {"read"}, addr : CoreAddrs] \cup CoreStores
NoCore == [op |-> "none", addr |-> NoAddr]

TypeOK ==
  /\ ps \in Ps
  /\ axi \in Axi
  /\ core \in CoreAccess \cup {NoCore}
  /\ reset \in BOOLEAN /\ refill \in BOOLEAN /\ resp \in BOOLEAN
  /\ ctrl \in [valid : BOOLEAN, data : Sample]
  /\ ram \in [valid : BOOLEAN, data : Sample]
  /\ taken \in SUBSET Masters

Init ==
  /\ ps = NoAccess
  /\ axi = AxiReset
  /\ core = NoCore
  /\ reset = FALSE /\ refill = FALSE /\ resp = FALSE
  /\ ctrl = [valid |-> FALSE, data |-> NoSample]
  /\ ram = [valid |-> FALSE, data |-> NoSample]
  /\ taken = {}
-----------------------------------------------------------------------------
(* Combinational signals.                                                  *)

host_valid == axi.st # "IDLE"
host_we == axi.st = "WRITE"
dmem_valid == core.op # "none"

bus_valid == host_valid \/ dmem_valid
bus_master == IF host_valid THEN "host" ELSE "core"
bus_we == IF host_valid THEN host_we ELSE core.op = "write"

bus_addr == IF host_valid THEN axi.addr ELSE core.addr
Selected(dev) == bus_valid /\ bus_addr[1] = dev

dcache_check_active ==
  ~host_valid /\ core.op = "read" /\ core.addr[1] = "ddr" /\ ~resp /\ ~refill

(* Mutant: the control block holds a write back while the bus is stalled.  *)
ctrl_accept_unstalled == Selected("ctrl") /\ ~ctrl.valid /\ ~refill

ctrl_accept == Selected("ctrl") /\ ~ctrl.valid
ram_accept == Selected("bram") /\ ~ram.valid

bus_ready ==
  \/ Selected("bram") /\ ram.valid
  \/ resp /\ ~host_valid /\ dmem_valid /\ ~Selected("bram")
  \/ /\ ~dcache_check_active /\ ~refill
     /\ \/ Selected("ctrl") /\ ctrl.valid
        \/ Selected("tx")

(* The data on the bus when it is ready.                                   *)
bus_rdata ==
  CASE Selected("bram") -> ram.data
    [] Selected("ctrl") -> ctrl.data
    [] OTHER -> [for |-> bus_master, addr |-> bus_addr]

(* Mutant: the core does not notice that the host has the bus.             *)
dmem_ready_shared == dmem_valid /\ bus_ready

dmem_ready == ~host_valid /\ dmem_valid /\ bus_ready
host_ready == host_valid /\ bus_ready

(* A device takes the write that is on the bus in this cycle: the control  *)
(* block and the BRAM when they accept, the others whether the bus is      *)
(* ready or not.                                                           *)
Takes == bus_we /\ (ctrl_accept \/ ram_accept \/ Selected("tx"))
-----------------------------------------------------------------------------
(* The devices.                                                            *)

Answered == (IF host_ready THEN {"host"} ELSE {})
                   \cup (IF dmem_ready THEN {"core"} ELSE {})

(* The access that is answered in this cycle is over.                      *)
Forget(data) == IF data.for \in Answered THEN NoSample ELSE data

CtrlStep ==
  ctrl' = [valid |-> Selected("ctrl"),
           data |-> IF ctrl_accept THEN [for |-> bus_master, addr |-> bus_addr]
                    ELSE Forget(ctrl.data)]

RamStep ==
  ram' = [valid |-> ram_accept,
          data |-> IF ram_accept THEN [for |-> bus_master, addr |-> bus_addr]
                   ELSE Forget(ram.data)]

(* cpu_reset_req is written by the host through the control block; the     *)
(* core is the only other master and the tools on it only read there.      *)
ResetStep ==
  reset' \in IF ctrl_accept /\ host_we THEN BOOLEAN ELSE {reset}

(* Mutant: a refill makes no progress while the host has the bus.          *)
DcacheStep_blocked(hit, done) ==
  \/ reset /\ refill' = FALSE /\ resp' = FALSE
  \/ /\ ~reset /\ dcache_check_active
     /\ refill' = ~hit /\ resp' = hit
  \/ /\ ~reset /\ ~dcache_check_active
     /\ refill' = (refill /\ (host_valid \/ ~done))
     /\ resp' = \/ refill /\ ~host_valid /\ done
                \/ resp /\ ~(~host_valid /\ dmem_valid)

(* A lookup starts a refill or hits; the refill ends some time later; the  *)
(* response is taken by the core.                                          *)
DcacheStep(hit, done) ==
  \/ reset /\ refill' = FALSE /\ resp' = FALSE
  \/ /\ ~reset /\ dcache_check_active
     /\ refill' = ~hit /\ resp' = hit
  \/ /\ ~reset /\ ~dcache_check_active
     /\ refill' = (refill /\ ~done)
     /\ resp' = \/ refill /\ done
                \/ resp /\ ~(~host_valid /\ dmem_valid)

TakenStep ==
  taken' = (IF Takes THEN taken \cup {bus_master} ELSE taken)
             \ (Answered \cup (IF reset THEN {"core"} ELSE {}))
-----------------------------------------------------------------------------
(* The core holds its access until it is answered.  At once may follow: on *)
(* a load its store (sc.w, xcpyw), on the store of a page-table entry the  *)
(* access that was translated, and on an access of a DataMover instruction *)
(* the next one, the polling of its status included.                       *)
Follows ==
  IF core.op = "write" THEN CoreAccess
  ELSE CoreStores \cup {a \in {core} : a.addr[1] = "tx"}

CoreStep ==
  \/ /\ reset /\ core' = NoCore
  \/ /\ ~reset /\ core = NoCore
     /\ core' \in CoreAccess \cup {NoCore}
  \/ /\ ~reset /\ core # NoCore /\ ~dmem_ready
     /\ UNCHANGED core
  \/ /\ ~reset /\ core # NoCore /\ dmem_ready
     /\ core' \in {NoCore} \cup Follows
-----------------------------------------------------------------------------
(* The AXI-Lite slave.                                                     *)

AWREADY == axi.st = "IDLE" /\ ~axi.aw_seen /\ ~axi.bvalid /\ ~axi.rvalid
WREADY == axi.st = "IDLE" /\ ~axi.w_seen /\ ~axi.bvalid /\ ~axi.rvalid

ARREADY == /\ axi.st = "IDLE" /\ ~axi.aw_seen /\ ~axi.w_seen
           /\ ~axi.bvalid /\ ~axi.rvalid

AWVALID == ps.aw = "valid"
WVALID == ps.w = "valid"
ARVALID == ps.ar = "valid"

(* Mutant: the end of a write forgets to clear aw_seen and w_seen.         *)
AxiStep_keeps_seen(bready, rready) ==
  LET seen == [axi EXCEPT
                 !.bvalid = @ /\ ~bready,
                 !.rvalid = @ /\ ~rready,
                 !.aw_seen = @ \/ (AWREADY /\ AWVALID),
                 !.w_seen = @ \/ (WREADY /\ WVALID),
                 !.addr = IF AWREADY /\ AWVALID THEN ps.addr ELSE @]
  IN  axi' =
        IF ARREADY /\ ARVALID
        THEN [seen EXCEPT !.st = "READ", !.addr = ps.addr]
        ELSE IF /\ axi.st = "IDLE"
                /\ axi.aw_seen \/ AWVALID
                /\ axi.w_seen \/ WVALID
        THEN [seen EXCEPT !.st = "WRITE", !.addr = IF ~axi.aw_seen THEN ps.addr ELSE @]
        ELSE IF axi.st = "WRITE" /\ host_ready
        THEN [seen EXCEPT !.st = "IDLE", !.bvalid = TRUE]
        ELSE IF axi.st = "READ" /\ host_ready
        THEN [seen EXCEPT !.st = "IDLE", !.rvalid = TRUE]
        ELSE seen

(* aw_seen, w_seen, the addresses, and the state that starts or ends.      *)
AxiStep(bready, rready) ==
  LET seen == [axi EXCEPT
                 !.bvalid = @ /\ ~bready,
                 !.rvalid = @ /\ ~rready,
                 !.aw_seen = @ \/ (AWREADY /\ AWVALID),
                 !.w_seen = @ \/ (WREADY /\ WVALID),
                 !.addr = IF AWREADY /\ AWVALID THEN ps.addr ELSE @]
  IN  axi' =
        IF ARREADY /\ ARVALID
        THEN [seen EXCEPT !.st = "READ", !.addr = ps.addr]
        ELSE IF /\ axi.st = "IDLE"
                /\ axi.aw_seen \/ AWVALID
                /\ axi.w_seen \/ WVALID
        THEN [seen EXCEPT !.st = "WRITE", !.addr = IF ~axi.aw_seen THEN ps.addr ELSE @]
        ELSE IF axi.st = "WRITE" /\ host_ready
        THEN [seen EXCEPT !.st = "IDLE", !.aw_seen = FALSE, !.w_seen = FALSE,
                          !.bvalid = TRUE]
        ELSE IF axi.st = "READ" /\ host_ready
        THEN [seen EXCEPT !.st = "IDLE", !.rvalid = TRUE]
        ELSE seen

(* The PS (Xil_In32, Xil_Out32): one access at a time; the channels of a   *)
(* write are raised in any order and stay valid until they are taken.      *)
Raise(c) == IF c = "later" THEN {"later", "valid"} ELSE {c}

Accesses ==
  {[op |-> "write", addr |-> a, aw |-> aw, w |-> w, ar |-> "off"] :
     a \in HostAddrs, aw \in {"later", "valid"}, w \in {"later", "valid"}}
  \cup
  {[op |-> "read", addr |-> a, aw |-> "off", w |-> "off", ar |-> "valid"] :
     a \in HostAddrs}

PsStart ==
  /\ ps.op = "none"
  /\ ps' \in Accesses \cup {NoAccess}

PsWaits(bready, rready) ==
  /\ ps.op # "none"
  /\ ~(bready /\ axi.bvalid) /\ ~(rready /\ axi.rvalid)
  /\ \E aw \in IF AWVALID /\ AWREADY THEN {"off"} ELSE Raise(ps.aw),
        w \in IF WVALID /\ WREADY THEN {"off"} ELSE Raise(ps.w),
        ar \in IF ARVALID /\ ARREADY THEN {"off"} ELSE {ps.ar} :
       ps' = [ps EXCEPT !.aw = aw, !.w = w, !.ar = ar]

PsEnds(bready, rready) ==
  /\ ps.op # "none"
  /\ (bready /\ axi.bvalid) \/ (rready /\ axi.rvalid)
  /\ ps' \in Accesses \cup {NoAccess}

PsStep(bready, rready) ==
  PsStart \/ PsWaits(bready, rready) \/ PsEnds(bready, rready)
-----------------------------------------------------------------------------
Cycle(hit, done, bready, rready) ==
  /\ CtrlStep /\ RamStep /\ ResetStep
  /\ DcacheStep(hit, done)
  /\ TakenStep
  /\ CoreStep
  /\ AxiStep(bready, rready)
  /\ PsStep(bready, rready)

Next == \E hit, done, bready, rready \in BOOLEAN :
          Cycle(hit, done, bready, rready)

Spec == Init /\ [][Next]_vars

(* The clock runs, a refill ends, and the PS completes the access it has   *)
(* begun.                                                                  *)
FairSpec ==
  /\ Spec
  /\ WF_vars(\E hit, bready, rready \in BOOLEAN : Cycle(hit, TRUE, bready, rready))
  /\ WF_vars(\E hit, done \in BOOLEAN : Cycle(hit, done, TRUE, TRUE))
  /\ WF_vars(Next /\ ps'.aw # "later" /\ ps'.w # "later")
-----------------------------------------------------------------------------
(* Properties.                                                             *)

(* A read is answered with what the device sampled for this very access:   *)
(* not with the data of the access that was preempted, or that came before.*)
HostReadsOwn ==
  host_ready /\ ~host_we => bus_rdata = [for |-> "host", addr |-> axi.addr]
CoreReadsOwn ==
  dmem_ready /\ core.op = "read" => bus_rdata = [for |-> "core", addr |-> core.addr]
ReadsOwn == HostReadsOwn /\ CoreReadsOwn

(* A write that is acknowledged has been taken by the device.              *)
HostWritesTaken == host_ready /\ host_we => "host" \in taken \/ Takes
CoreWritesTaken == dmem_ready /\ core.op = "write" => "core" \in taken \/ Takes
WritesTaken == HostWritesTaken /\ CoreWritesTaken

(* The slave answers the access the PS is waiting for: it runs it with the *)
(* address and the direction it was issued with, and responds once.        *)
(* (With the types of all registers.)                                      *)
AnswersPs ==
  /\ TypeOK
  /\ host_valid \/ axi.bvalid \/ axi.rvalid =>
       ps.op # "none" /\ ps.aw = "off" /\ ps.w = "off" /\ ps.ar = "off"
  /\ host_valid => axi.addr = ps.addr /\ (host_we <=> ps.op = "write")
  /\ axi.bvalid => ps.op = "write" /\ ~axi.aw_seen /\ ~axi.w_seen
  /\ axi.rvalid => ps.op = "read"

(* Every access of the PS gets its response, also behind a D-cache refill  *)
(* that withholds bus_ready.                                               *)
HostServed == ps.op # "none" ~> (axi.bvalid \/ axi.rvalid)

(* The core's access gets through between those of a PS that never pauses: *)
(* the slave leaves it the two cycles in a row that a registered device    *)
(* needs.                                                                  *)
CoreServed == dmem_valid ~> (dmem_ready \/ ~dmem_valid)

(* Neither master starves behind the other.                                *)
NobodyStarves == HostServed /\ CoreServed
=============================================================================
