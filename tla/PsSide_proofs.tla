--------------------------- MODULE PsSide_proofs ---------------------------
(***************************************************************************)
(* The PS side of the board: the bus by which the PS reaches the logic     *)
(* (SharedBus), and the probe that drives the CPU through it (CpuProbe).   *)
(* The two specifications share no variable; each theorem is about one.    *)
(*                                                                         *)
(* The shared bus for any sets of addresses.  The AXI-Lite slave always    *)
(* answers the access that the PS is waiting for; and if the PS and the    *)
(* core share no device that answers a cycle after it has accepted, each   *)
(* reads what was sampled for it and no acknowledged write is lost.        *)
(***************************************************************************)
EXTENDS SharedBus, CpuProbe, TLAPS

\* The division of the devices while Linux runs: the launcher works in the control
\* block and the console rings, the core in the rings, the BRAM and DDR.  The tools
\* that read the temperature from the core break it (see CoreReadsOwn).
Separate ==
  /\ \A a \in CoreAddrs : a[1] # "ctrl"
  /\ \A a \in HostAddrs, b \in CoreAddrs : ~(a[1] = "bram" /\ b[1] = "bram")

\* How far the access of the PS has come: the channels it still drives are those
\* that the slave has not yet taken.
NoneOK == ps.op = "none" =>
  /\ ps.aw = "off" /\ ps.w = "off" /\ ps.ar = "off"
  /\ axi.st = "IDLE" /\ ~axi.aw_seen /\ ~axi.w_seen /\ ~axi.bvalid /\ ~axi.rvalid

ReadOK == ps.op = "read" =>
  /\ ps.addr \in HostAddrs
  /\ ps.aw = "off" /\ ps.w = "off"
  /\ ~axi.aw_seen /\ ~axi.w_seen /\ ~axi.bvalid /\ axi.st # "WRITE"
  /\ ps.ar \in {"off", "valid"}
  /\ ps.ar = "off" <=> axi.st = "READ" \/ axi.rvalid
  /\ ~(axi.st = "READ" /\ axi.rvalid)
  /\ axi.st = "READ" => axi.addr = ps.addr

WriteOK == ps.op = "write" =>
  /\ ps.addr \in HostAddrs
  /\ ps.ar = "off" /\ ~axi.rvalid /\ axi.st # "READ"
  /\ axi.aw_seen => axi.addr = ps.addr
  /\ axi.bvalid =>
       /\ axi.st = "IDLE" /\ ~axi.aw_seen /\ ~axi.w_seen
       /\ ps.aw = "off" /\ ps.w = "off"
  /\ ~axi.bvalid => (ps.aw = "off" <=> axi.aw_seen) /\ (ps.w = "off" <=> axi.w_seen)
  /\ axi.st = "WRITE" <=> axi.aw_seen /\ axi.w_seen

SlaveInv == TypeOK /\ NoneOK /\ ReadOK /\ WriteOK

\* A device that says it is ready has sampled, and for a write taken, the access
\* that is on the bus now.
HostOwns(dev, reg) == host_valid /\ axi.addr[1] = dev =>
  /\ reg.data = [for |-> "host", addr |-> axi.addr]
  /\ host_we => "host" \in taken

CtrlOK == ctrl.valid => HostOwns("ctrl", ctrl)
RamOK == ram.valid =>
  /\ HostOwns("bram", ram)
  /\ dmem_valid /\ core.addr[1] = "bram" =>
       /\ ram.data = [for |-> "core", addr |-> core.addr]
       /\ core.op = "write" => "core" \in taken

BusInv == SlaveInv /\ CtrlOK /\ RamOK
-----------------------------------------------------------------------------
(* The AXI-Lite slave and the PS.                                          *)

LEMMA InitSlave == Init => SlaveInv
  <1> SUFFICES ASSUME Init PROVE SlaveInv
    OBVIOUS
  <1>1. ps \in Ps /\ axi \in Axi
    BY DEF Init, NoAccess, Ps, Addrs, Channel, Axi, AxiReset
  <1>2. TypeOK
    BY <1>1 DEF Init, TypeOK, Sample
  <1>3. NoneOK /\ ReadOK /\ WriteOK
    BY DEF Init, NoneOK, ReadOK, WriteOK, NoAccess, AxiReset
  <1> QED BY <1>2, <1>3 DEF SlaveInv

LEMMA TypeStep ==
    ASSUME SlaveInv, NEW hit \in BOOLEAN, NEW done \in BOOLEAN,
           NEW bready \in BOOLEAN, NEW rready \in BOOLEAN,
           Cycle(hit, done, bready, rready)
    PROVE  TypeOK'
  <1>1. TypeOK
    BY DEF SlaveInv
  <1>2. ps' \in Ps
    <2>1. Accesses \cup {NoAccess} \subseteq Ps
      BY DEF Accesses, NoAccess, Ps, Addrs, Channel
    <2>2. CASE PsWaits(bready, rready)
      <3>1. PICK aw \in IF AWVALID /\ AWREADY THEN {"off"} ELSE Raise(ps.aw),
                 w \in IF WVALID /\ WREADY THEN {"off"} ELSE Raise(ps.w),
                 ar \in IF ARVALID /\ ARREADY THEN {"off"} ELSE {ps.ar} :
              ps' = [ps EXCEPT !.aw = aw, !.w = w, !.ar = ar]
        BY <2>2 DEF PsWaits
      <3>2. ps.aw \in Channel /\ ps.w \in Channel /\ ps.ar \in Channel
        BY <1>1 DEF TypeOK, Ps
      <3>3. aw \in Channel /\ w \in Channel /\ ar \in Channel
        BY <3>1, <3>2 DEF Channel, Raise
      <3> QED BY <1>1, <3>1, <3>3 DEF TypeOK, Ps
    <2> QED BY <2>1, <2>2 DEF Cycle, PsStep, PsStart, PsEnds
  <1>3. axi' \in Axi
    <2> DEFINE sampled == [axi EXCEPT
                          !.bvalid = @ /\ ~bready,
                          !.rvalid = @ /\ ~rready,
                          !.aw_seen = @ \/ (AWREADY /\ AWVALID),
                          !.w_seen = @ \/ (WREADY /\ WVALID),
                          !.addr = IF AWREADY /\ AWVALID THEN ps.addr ELSE @]
    <2>1. sampled \in Axi
      BY <1>1 DEF TypeOK, Axi, Ps
    <2>2. ps.addr \in Addrs
      BY <1>1 DEF TypeOK, Ps
    <2>3. \/ axi' = [sampled EXCEPT !.st = "READ", !.addr = ps.addr]
          \/ axi' = [sampled EXCEPT !.st = "WRITE", !.addr = IF ~axi.aw_seen THEN ps.addr ELSE @]
          \/ axi' = [sampled EXCEPT !.st = "IDLE", !.aw_seen = FALSE, !.w_seen = FALSE,
                                 !.bvalid = TRUE]
          \/ axi' = [sampled EXCEPT !.st = "IDLE", !.rvalid = TRUE]
          \/ axi' = sampled
      BY Zenon DEF Cycle, AxiStep
    <2> HIDE DEF sampled
    <2> QED BY <2>1, <2>2, <2>3 DEF Axi
  <1>4. core' \in CoreAccess \cup {NoCore}
    <2>1. CoreStores \subseteq CoreAccess /\ core \in CoreAccess \cup {NoCore}
      BY <1>1 DEF CoreAccess, TypeOK
    <2>2. core # NoCore => Follows \subseteq CoreAccess
      BY <2>1 DEF Follows
    <2> QED BY <1>1, <2>1, <2>2 DEF Cycle, CoreStep
  <1>5. reset' \in BOOLEAN /\ refill' \in BOOLEAN /\ resp' \in BOOLEAN
    BY <1>1 DEF Cycle, ResetStep, DcacheStep, TypeOK
  <1>6. bus_valid => [for |-> bus_master, addr |-> bus_addr] \in Sample
    <2>1. host_valid => axi.addr \in HostAddrs
      BY DEF SlaveInv, NoneOK, ReadOK, WriteOK, TypeOK, Ps, Axi, host_valid
    <2>2. dmem_valid => core.addr \in CoreAddrs
      BY <1>1 DEF TypeOK, CoreAccess, CoreStores, NoCore, dmem_valid
    <2> QED BY <2>1, <2>2 DEF bus_valid, bus_master, bus_addr, Sample
  <1>7. ASSUME NEW d \in Sample PROVE Forget(d) \in Sample
    BY DEF Forget, Sample
  <1>8. ctrl' \in [valid : BOOLEAN, data : Sample]
    BY <1>1, <1>6, <1>7 DEF Cycle, CtrlStep, TypeOK, ctrl_accept, Selected
  <1>9. ram' \in [valid : BOOLEAN, data : Sample]
    BY <1>1, <1>6, <1>7 DEF Cycle, RamStep, TypeOK, ram_accept, Selected
  <1>10. taken' \in SUBSET Masters
    BY <1>1 DEF Cycle, TakenStep, TypeOK, Masters, bus_master
  <1> QED BY <1>2, <1>3, <1>4, <1>5, <1>8, <1>9, <1>10 DEF TypeOK

\* What one clock edge does to the slave, field by field.
LEMMA AxiFields ==
    ASSUME TypeOK, NEW bready \in BOOLEAN, NEW rready \in BOOLEAN, AxiStep(bready, rready)
    PROVE  \/ /\ ARREADY /\ ARVALID
              /\ axi'.st = "READ" /\ axi'.addr = ps.addr
              /\ axi'.aw_seen <=> (axi.aw_seen \/ (AWREADY /\ AWVALID))
              /\ axi'.w_seen <=> (axi.w_seen \/ (WREADY /\ WVALID))
              /\ (axi'.bvalid <=> (axi.bvalid /\ ~bready)) /\ (axi'.rvalid <=> (axi.rvalid /\ ~rready))
           \/ /\ ~(ARREADY /\ ARVALID)
              /\ axi.st = "IDLE" /\ (axi.aw_seen \/ AWVALID) /\ (axi.w_seen \/ WVALID)
              /\ axi'.st = "WRITE"
              /\ axi'.addr = IF ~axi.aw_seen \/ (AWREADY /\ AWVALID) THEN ps.addr ELSE axi.addr
              /\ axi'.aw_seen <=> (axi.aw_seen \/ (AWREADY /\ AWVALID))
              /\ axi'.w_seen <=> (axi.w_seen \/ (WREADY /\ WVALID))
              /\ (axi'.bvalid <=> (axi.bvalid /\ ~bready)) /\ (axi'.rvalid <=> (axi.rvalid /\ ~rready))
           \/ /\ axi.st = "WRITE" /\ host_ready
              /\ axi'.st = "IDLE" /\ ~axi'.aw_seen /\ ~axi'.w_seen /\ axi'.bvalid
              /\ axi'.rvalid <=> (axi.rvalid /\ ~rready)
           \/ /\ axi.st = "READ" /\ host_ready
              /\ axi'.st = "IDLE" /\ axi'.rvalid
              /\ (axi'.aw_seen <=> axi.aw_seen) /\ (axi'.w_seen <=> axi.w_seen)
              /\ axi'.bvalid <=> (axi.bvalid /\ ~bready)
           \/ /\ ~(ARREADY /\ ARVALID)
              /\ ~(axi.st = "IDLE" /\ (axi.aw_seen \/ AWVALID) /\ (axi.w_seen \/ WVALID))
              /\ ~(axi.st # "IDLE" /\ host_ready)
              /\ axi'.st = axi.st
              /\ axi'.addr = IF AWREADY /\ AWVALID THEN ps.addr ELSE axi.addr
              /\ axi'.aw_seen <=> (axi.aw_seen \/ (AWREADY /\ AWVALID))
              /\ axi'.w_seen <=> (axi.w_seen \/ (WREADY /\ WVALID))
              /\ (axi'.bvalid <=> (axi.bvalid /\ ~bready)) /\ (axi'.rvalid <=> (axi.rvalid /\ ~rready))
  <1>1. axi \in Axi
    BY DEF TypeOK
  <1> DEFINE sampled == [axi EXCEPT
                        !.bvalid = @ /\ ~bready,
                        !.rvalid = @ /\ ~rready,
                        !.aw_seen = @ \/ (AWREADY /\ AWVALID),
                        !.w_seen = @ \/ (WREADY /\ WVALID),
                        !.addr = IF AWREADY /\ AWVALID THEN ps.addr ELSE @]
  <1>2. /\ sampled \in Axi /\ sampled.st = axi.st
        /\ sampled.addr = IF AWREADY /\ AWVALID THEN ps.addr ELSE axi.addr
        /\ sampled.aw_seen <=> (axi.aw_seen \/ (AWREADY /\ AWVALID))
        /\ sampled.w_seen <=> (axi.w_seen \/ (WREADY /\ WVALID))
        /\ (sampled.bvalid <=> (axi.bvalid /\ ~bready)) /\ (sampled.rvalid <=> (axi.rvalid /\ ~rready))
    BY <1>1 DEF Axi, TypeOK, Ps
  <1>3. axi.st # "IDLE" => ~AWREADY /\ ~WREADY /\ ~ARREADY
    BY DEF AWREADY, WREADY, ARREADY
  <1>4. axi.st \in {"IDLE", "WRITE", "READ"}
    BY <1>1 DEF Axi
  <1>5. axi' = IF ARREADY /\ ARVALID
               THEN [sampled EXCEPT !.st = "READ", !.addr = ps.addr]
               ELSE IF /\ axi.st = "IDLE"
                       /\ axi.aw_seen \/ AWVALID
                       /\ axi.w_seen \/ WVALID
               THEN [sampled EXCEPT !.st = "WRITE", !.addr = IF ~axi.aw_seen THEN ps.addr ELSE @]
               ELSE IF axi.st = "WRITE" /\ host_ready
               THEN [sampled EXCEPT !.st = "IDLE", !.aw_seen = FALSE, !.w_seen = FALSE,
                                 !.bvalid = TRUE]
               ELSE IF axi.st = "READ" /\ host_ready
               THEN [sampled EXCEPT !.st = "IDLE", !.rvalid = TRUE]
               ELSE sampled
    BY DEF AxiStep
  <1> HIDE DEF sampled
  <1>6. CASE ARREADY /\ ARVALID
    BY <1>2, <1>5, <1>6 DEF Axi
  <1> DEFINE starts == axi.st = "IDLE" /\ (axi.aw_seen \/ AWVALID) /\ (axi.w_seen \/ WVALID)
  <1>7. CASE ~(ARREADY /\ ARVALID) /\ starts
    BY <1>2, <1>5, <1>7 DEF Axi
  <1>8. CASE axi.st = "WRITE" /\ host_ready
    BY <1>2, <1>3, <1>5, <1>8 DEF Axi
  <1>9. CASE axi.st = "READ" /\ host_ready
    BY <1>2, <1>3, <1>5, <1>9 DEF Axi
  <1>10. CASE ~(ARREADY /\ ARVALID) /\ ~starts /\ ~(axi.st # "IDLE" /\ host_ready)
    BY <1>2, <1>4, <1>5, <1>10 DEF Axi
  <1> QED BY <1>3, <1>4, <1>6, <1>7, <1>8, <1>9, <1>10

LEMMA SlaveStep ==
    ASSUME SlaveInv, NEW hit \in BOOLEAN, NEW done \in BOOLEAN,
           NEW bready \in BOOLEAN, NEW rready \in BOOLEAN,
           Cycle(hit, done, bready, rready)
    PROVE  SlaveInv'
  <1> USE DEF AWREADY, WREADY, ARREADY, AWVALID, WVALID, ARVALID
  <1>1. TypeOK /\ NoneOK /\ ReadOK /\ WriteOK /\ AxiStep(bready, rready)
    BY DEF SlaveInv, Cycle
  <1>2. TypeOK'
    BY TypeStep
  <1>3. ps \in Ps /\ axi \in Axi
    BY <1>1 DEF TypeOK
  <1>4. CASE PsStart
    <2>1. /\ axi'.st = "IDLE" /\ ~axi'.aw_seen /\ ~axi'.w_seen
          /\ ~axi'.bvalid /\ ~axi'.rvalid
      BY <1>1, <1>3, <1>4, AxiFields DEF NoneOK, PsStart
    <2>2. ps' \in Accesses \cup {NoAccess}
      BY <1>4 DEF PsStart
    <2> QED BY <1>2, <2>1, <2>2 DEF SlaveInv, NoneOK, ReadOK, WriteOK, Accesses, NoAccess
  <1>5. CASE PsEnds(bready, rready)
    <2>1. /\ axi'.st = "IDLE" /\ ~axi'.aw_seen /\ ~axi'.w_seen
          /\ ~axi'.bvalid /\ ~axi'.rvalid
      <3>1. (bready /\ axi.bvalid) \/ (rready /\ axi.rvalid)
        BY <1>5 DEF PsEnds
      <3>2. CASE ps.op = "read"
        <4>1. /\ axi.rvalid /\ rready /\ axi.st = "IDLE" /\ ~axi.aw_seen /\ ~axi.w_seen
              /\ ~axi.bvalid /\ ps.aw = "off" /\ ps.w = "off" /\ ps.ar = "off"
          BY <1>1, <1>3, <3>1, <3>2 DEF ReadOK, Axi
        <4> QED BY <1>1, <4>1, AxiFields
      <3>3. CASE ps.op = "write"
        <4>1. /\ axi.bvalid /\ bready /\ axi.st = "IDLE" /\ ~axi.aw_seen /\ ~axi.w_seen
              /\ ~axi.rvalid /\ ps.aw = "off" /\ ps.w = "off" /\ ps.ar = "off"
          BY <1>1, <3>1, <3>3 DEF WriteOK
        <4> QED BY <1>1, <4>1, AxiFields
      <3> QED BY <1>3, <1>5, <3>2, <3>3 DEF Ps, PsEnds
    <2>2. ps' \in Accesses \cup {NoAccess}
      BY <1>5 DEF PsEnds
    <2> QED BY <1>2, <2>1, <2>2 DEF SlaveInv, NoneOK, ReadOK, WriteOK, Accesses, NoAccess
  <1>6. CASE PsWaits(bready, rready)
    <2>1. /\ ps'.op = ps.op /\ ps'.addr = ps.addr
          /\ ps'.aw \in IF AWVALID /\ AWREADY THEN {"off"} ELSE Raise(ps.aw)
          /\ ps'.w \in IF WVALID /\ WREADY THEN {"off"} ELSE Raise(ps.w)
          /\ ps'.ar = IF ARVALID /\ ARREADY THEN "off" ELSE ps.ar
          /\ ~(bready /\ axi.bvalid) /\ ~(rready /\ axi.rvalid)
          /\ ps.op # "none"
      BY <1>3, <1>6 DEF PsWaits, Ps
    <2>2. CASE ps.op = "read"
      <3>1. ReadOK'
        BY <1>1, <1>3, <2>1, <2>2, AxiFields DEF ReadOK, Raise, Axi
      <3> QED BY <1>2, <2>1, <2>2, <3>1 DEF SlaveInv, NoneOK, WriteOK
    <2>3. CASE ps.op = "write"
      <3>1. WriteOK'
        BY <1>1, <1>3, <2>1, <2>3, AxiFields DEF WriteOK, Raise, Ps, Channel
      <3> QED BY <1>2, <2>1, <2>3, <3>1 DEF SlaveInv, NoneOK, ReadOK
    <2> QED BY <1>3, <2>1, <2>2, <2>3 DEF Ps
  <1> QED BY <1>4, <1>5, <1>6 DEF Cycle, PsStep

LEMMA SlaveStutter == SlaveInv /\ UNCHANGED vars => SlaveInv'
  BY DEF SlaveInv, vars, TypeOK, NoneOK, ReadOK, WriteOK

(* For any sets of addresses the registers of the bus keep their types,    *)
(* and the channels that the PS still drives are those the AXI-Lite slave  *)
(* has not taken (zx32_soc_bd.v).                                          *)
THEOREM SlaveInvariance == Spec => []SlaveInv
  <1>1. SlaveInv /\ [Next]_vars => SlaveInv'
    BY SlaveStep, SlaveStutter DEF Next
  <1> QED BY <1>1, InitSlave, PTL DEF Spec

(* The slave runs the access the PS is waiting for, with its address and   *)
(* its direction, and responds to it once.                                 *)
THEOREM SlaveAnswersPs == Spec => []AnswersPs
  <1>1. SlaveInv => AnswersPs
    BY DEF SlaveInv, AnswersPs, TypeOK, NoneOK, ReadOK, WriteOK, Ps, Axi, host_valid, host_we
  <1> QED BY <1>1, SlaveInvariance, PTL

\* When a host access ends its response is pending, and a cycle that begins with a
\* response pending neither is nor is followed by one of a host access.
TwoCyclesFree ==
  /\ (host_valid /\ ~host_valid') => (axi'.bvalid \/ axi'.rvalid)
  /\ (axi.bvalid \/ axi.rvalid) => (~host_valid /\ ~host_valid')

(***************************************************************************)
(* After every access of a PS that never pauses, to whatever addresses, the *)
(* AXI-Lite slave leaves the bus to the core for two cycles in a row, which *)
(* is what a device with a registered ready needs: the safety half of the   *)
(* core's part of NobodyStarves.                                           *)
(***************************************************************************)
THEOREM CoreGetsTwoCycles == Spec => [][TwoCyclesFree]_vars
  <1>1. ASSUME SlaveInv, Next
        PROVE  TwoCyclesFree
    <2> PICK hit, done, bready, rready \in BOOLEAN : Cycle(hit, done, bready, rready)
      BY <1>1 DEF Next
    <2>1. AxiStep(bready, rready) /\ TypeOK /\ axi \in Axi /\ ps \in Ps
      BY <1>1 DEF Cycle, SlaveInv, TypeOK
    <2>2. (host_valid /\ ~host_valid') => (axi'.bvalid \/ axi'.rvalid)
      BY <2>1, AxiFields DEF Axi, host_valid, AWREADY, WREADY, ARREADY
    <2>3. (axi.bvalid \/ axi.rvalid) => (~host_valid /\ ps.aw = "off" /\ ps.w = "off"
                                         /\ ps.ar = "off" /\ ~axi.aw_seen /\ ~axi.w_seen)
      BY <1>1, <2>1 DEF SlaveInv, NoneOK, ReadOK, WriteOK, Axi, Ps, host_valid
    <2>4. (axi.bvalid \/ axi.rvalid) => ~host_valid'
      BY <2>1, <2>3, AxiFields
         DEF Axi, host_valid, AWREADY, WREADY, ARREADY, AWVALID, WVALID, ARVALID
    <2> QED BY <2>2, <2>3, <2>4 DEF TwoCyclesFree
  <1> QED BY <1>1, SlaveInvariance, PTL DEF Spec
-----------------------------------------------------------------------------
(* The devices.                                                            *)

\* Where the masters can be.
LEMMA WhereTheyAre ==
    ASSUME SlaveInv
    PROVE  /\ host_valid => axi.addr \in HostAddrs
           /\ dmem_valid => core.addr \in CoreAddrs /\ core # NoCore
           /\ dmem_valid /\ core.op # "read" => core.op = "write" /\ core.addr[1] # "ddr"
           /\ ~dmem_valid => core = NoCore
  <1>1. host_valid => axi.addr \in HostAddrs
    BY DEF SlaveInv, NoneOK, ReadOK, WriteOK, TypeOK, Ps, Axi, host_valid
  <1>2. core \in CoreAccess \cup {NoCore}
    BY DEF SlaveInv, TypeOK
  <1> QED BY <1>1, <1>2 DEF CoreAccess, CoreStores, NoCore, dmem_valid

\* A host access that is not answered stays as it is; one that is answered is over.
LEMMA HostHolds ==
    ASSUME SlaveInv, host_valid, NEW bready \in BOOLEAN, NEW rready \in BOOLEAN,
           AxiStep(bready, rready)
    PROVE  IF host_ready THEN axi'.st = "IDLE" ELSE axi'.st = axi.st /\ axi'.addr = axi.addr
  <1>1. TypeOK /\ axi.st # "IDLE" /\ axi.st \in {"IDLE", "WRITE", "READ"}
    BY DEF SlaveInv, TypeOK, host_valid, Axi
  <1> QED BY <1>1, AxiFields DEF AWREADY, WREADY, ARREADY, host_ready

LEMMA CoreHolds ==
    ASSUME SlaveInv, dmem_valid, ~dmem_ready, CoreStep
    PROVE  core' = NoCore \/ core' = core
  BY WhereTheyAre DEF CoreStep

LEMMA InitBus == Init => BusInv
  BY InitSlave DEF Init, BusInv, CtrlOK, RamOK

LEMMA CtrlPreserved ==
    ASSUME Separate, BusInv, SlaveInv', NEW hit \in BOOLEAN, NEW done \in BOOLEAN,
           NEW bready \in BOOLEAN, NEW rready \in BOOLEAN,
           Cycle(hit, done, bready, rready)
    PROVE  CtrlOK'
  <1>1. SlaveInv /\ CtrlOK /\ SlaveInv'
    BY DEF BusInv
  <1> SUFFICES ASSUME ctrl'.valid, host_valid', axi'.addr[1] = "ctrl"
               PROVE  /\ ctrl'.data = [for |-> "host", addr |-> axi'.addr]
                      /\ host_we' => "host" \in taken'
    BY DEF CtrlOK, HostOwns
  <1>2. Selected("ctrl")
    BY DEF Cycle, CtrlStep
  <1>3. host_valid /\ axi.addr[1] = "ctrl"
    BY <1>1, <1>2, WhereTheyAre DEF Separate, Selected, bus_addr, bus_valid
  <1>4. ~host_ready /\ axi'.st = axi.st /\ axi'.addr = axi.addr
    BY <1>1, <1>3, HostHolds DEF Cycle, host_valid
  <1>5. ~dmem_ready
    BY <1>3 DEF dmem_ready
  <1>6. Answered = {}
    BY <1>4, <1>5 DEF Answered
  <1>7. CASE ctrl_accept
    <2>1. ctrl'.data = [for |-> "host", addr |-> axi.addr]
      BY <1>3, <1>7 DEF Cycle, CtrlStep, bus_master, bus_addr
    <2>2. host_we => "host" \in taken'
      BY <1>3, <1>6, <1>7 DEF Cycle, TakenStep, Takes, bus_we, bus_master
    <2> QED BY <1>4, <2>1, <2>2 DEF host_we
  <1>8. CASE ~ctrl_accept
    <2>1. ctrl.valid
      BY <1>2, <1>8 DEF ctrl_accept
    <2>2. ctrl'.data = ctrl.data
      BY <1>6, <1>8 DEF Cycle, CtrlStep, Forget
    <2>3. host_we => "host" \in taken'
      BY <1>1, <1>3, <1>6, <2>1 DEF CtrlOK, HostOwns, Cycle, TakenStep
    <2> QED BY <1>1, <1>3, <1>4, <2>1, <2>2, <2>3 DEF CtrlOK, HostOwns, host_we
  <1> QED BY <1>7, <1>8

LEMMA RamPreserved ==
    ASSUME Separate, BusInv, SlaveInv', NEW hit \in BOOLEAN, NEW done \in BOOLEAN,
           NEW bready \in BOOLEAN, NEW rready \in BOOLEAN,
           Cycle(hit, done, bready, rready)
    PROVE  RamOK'
  <1>1. SlaveInv /\ SlaveInv'
    BY DEF BusInv
  <1> SUFFICES ASSUME ram'.valid PROVE RamOK'
    BY DEF RamOK
  <1>2. /\ Selected("bram") /\ ~ram.valid /\ ram_accept
        /\ ram'.data = [for |-> bus_master, addr |-> bus_addr]
    BY DEF Cycle, RamStep, ram_accept
  <1>3. CASE host_valid
    <2>1. axi.addr[1] = "bram" /\ bus_master = "host" /\ bus_addr = axi.addr
      BY <1>2, <1>3 DEF Selected, bus_addr, bus_master
    <2>2. ~host_ready /\ ~dmem_ready
      BY <1>2, <1>3, <2>1 DEF host_ready, dmem_ready, bus_ready, Selected
    <2>3. axi'.st = axi.st /\ axi'.addr = axi.addr
      BY <1>1, <1>3, <2>2, HostHolds DEF Cycle
    <2>4. host_we => "host" \in taken'
      BY <1>2, <1>3, <2>1, <2>2 DEF Cycle, TakenStep, Takes, bus_we, Answered
    <2>5. ~(dmem_valid' /\ core'.addr[1] = "bram")
      <3>1. axi.addr \in HostAddrs
        BY <1>1, <1>3, WhereTheyAre
      <3>2. dmem_valid' => core'.addr \in CoreAddrs
        BY <1>1 DEF SlaveInv, TypeOK, CoreAccess, CoreStores, NoCore, dmem_valid
      <3> QED BY <2>1, <3>1, <3>2 DEF Separate
    <2> QED BY <1>2, <2>1, <2>3, <2>4, <2>5 DEF RamOK, HostOwns, host_we
  <1>4. CASE ~host_valid
    <2>1. dmem_valid /\ core.addr[1] = "bram" /\ bus_master = "core" /\ bus_addr = core.addr
      BY <1>2, <1>4 DEF Selected, bus_addr, bus_master, bus_valid
    <2>2. ~host_ready /\ ~dmem_ready
      BY <1>2, <1>4, <2>1 DEF host_ready, dmem_ready, bus_ready, Selected
    <2>3. core' = NoCore \/ (core' = core /\ ~reset)
      BY <1>1, <2>1, <2>2, WhereTheyAre DEF Cycle, CoreStep
    <2>4. core.op = "write" /\ ~reset => "core" \in taken'
      BY <1>2, <1>4, <2>1, <2>2 DEF Cycle, TakenStep, Takes, bus_we, Answered
    <2>5. ~(host_valid' /\ axi'.addr[1] = "bram")
      <3>1. core.addr \in CoreAddrs
        BY <1>1, <2>1, WhereTheyAre
      <3>2. host_valid' => axi'.addr \in HostAddrs
        BY <1>1 DEF SlaveInv, NoneOK, ReadOK, WriteOK, TypeOK, Ps, Axi, host_valid
      <3> QED BY <2>1, <3>1, <3>2 DEF Separate
    <2> QED BY <1>2, <2>1, <2>3, <2>4, <2>5 DEF RamOK, HostOwns, dmem_valid, NoCore
  <1> QED BY <1>3, <1>4

(* When the PS and the core share no device that answers a cycle after it  *)
(* has accepted, what such a device has sampled when it is ready belongs   *)
(* to the access that is on the bus.                                       *)
THEOREM BusInvariance == ASSUME Separate PROVE Spec => []BusInv
  <1>1. BusInv /\ [Next]_vars => BusInv'
    <2>1. ASSUME BusInv, Next PROVE BusInv'
      <3>1. PICK hit, done, bready, rready \in BOOLEAN : Cycle(hit, done, bready, rready)
        BY <2>1 DEF Next
      <3>2. SlaveInv'
        BY <2>1, <3>1, SlaveStep DEF BusInv
      <3> QED BY <2>1, <3>1, <3>2, CtrlPreserved, RamPreserved DEF BusInv
    <2>2. BusInv /\ UNCHANGED vars => BusInv'
      BY SlaveStutter DEF BusInv, vars, CtrlOK, RamOK, HostOwns, host_valid, host_we, dmem_valid
    <2> QED BY <2>1, <2>2
  <1> QED BY <1>1, InitBus, PTL DEF Spec

(* A read is answered with what the device sampled for this very access.   *)
THEOREM ReadsAreOwn == ASSUME Separate PROVE Spec => []ReadsOwn
  <1>1. ASSUME BusInv PROVE HostReadsOwn
    BY <1>1, WhereTheyAre, BusAssumption
       DEF BusInv, CtrlOK, RamOK, HostOwns, HostReadsOwn, host_ready, bus_ready, bus_rdata,
           Selected, bus_addr, bus_master, host_valid
  <1>2. ASSUME BusInv PROVE CoreReadsOwn
    <2> SUFFICES ASSUME dmem_ready PROVE bus_rdata = [for |-> "core", addr |-> core.addr]
      BY DEF CoreReadsOwn
    <2>1. ~host_valid /\ dmem_valid /\ bus_ready /\ core.addr[1] # "ctrl"
      BY <1>2, WhereTheyAre DEF dmem_ready, Separate, BusInv
    <2>2. CASE core.addr[1] = "bram"
      BY <1>2, <2>1, <2>2 DEF BusInv, RamOK, bus_ready, bus_rdata, Selected, bus_addr, bus_valid
    <2>3. CASE core.addr[1] # "bram"
      BY <2>1, <2>3 DEF bus_rdata, Selected, bus_addr, bus_master
    <2> QED BY <2>2, <2>3
  <1> QED BY <1>1, <1>2, BusInvariance, PTL DEF ReadsOwn

(* A write that is acknowledged has been taken by its device.              *)
THEOREM WritesAreTaken == ASSUME Separate PROVE Spec => []WritesTaken
  <1>1. ASSUME BusInv PROVE HostWritesTaken
    <2> SUFFICES ASSUME host_ready, host_we PROVE "host" \in taken \/ Takes
      BY DEF HostWritesTaken
    <2>1. host_valid /\ bus_ready /\ bus_addr = axi.addr /\ bus_we
      BY DEF host_ready, bus_addr, bus_we
    <2>2. CASE Selected("tx")
      BY <2>1, <2>2 DEF Takes
    <2>3. CASE Selected("ctrl") /\ ctrl.valid
      BY <1>1, <2>1, <2>3 DEF BusInv, CtrlOK, HostOwns, Selected
    <2>4. CASE Selected("bram") /\ ram.valid
      BY <1>1, <2>1, <2>4 DEF BusInv, RamOK, HostOwns, Selected
    <2> QED BY <2>1, <2>2, <2>3, <2>4 DEF bus_ready
  <1>2. ASSUME BusInv PROVE CoreWritesTaken
    <2> SUFFICES ASSUME dmem_ready, core.op = "write" PROVE "core" \in taken \/ Takes
      BY DEF CoreWritesTaken
    <2>1. ~host_valid /\ dmem_valid /\ bus_ready /\ bus_addr = core.addr /\ bus_we /\ bus_valid
      BY DEF dmem_ready, bus_addr, bus_we, bus_valid
    <2>2. core.addr[1] \in {"bram", "tx"}
      BY <1>2, <2>1, WhereTheyAre, BusAssumption DEF BusInv, Separate, Devices
    <2>3. CASE core.addr[1] = "tx"
      BY <2>1, <2>3 DEF Takes, Selected
    <2>4. CASE core.addr[1] = "bram"
      BY <1>2, <2>1, <2>4 DEF BusInv, RamOK, bus_ready, Selected
    <2> QED BY <2>2, <2>3, <2>4
  <1> QED BY <1>1, <1>2, BusInvariance, PTL DEF WritesTaken
-----------------------------------------------------------------------------
(***************************************************************************)
(* The probe, for any bound of its waits.  Everything it concludes rests   *)
(* on the words a test looks at being its own, and that is a property of   *)
(* the 21 tests' clear lists, buffers, vectors and guards together: the    *)
(* table below, a row per phase of a test, says what of them the argument  *)
(* uses, and the inductive invariant ProbeInv follows one test through it. *)
(***************************************************************************)

\* The words a verdict rests on, and the buffers that are ready before the hold:
\* its own, and for the second transfer the buffer that the first one was given.
Looked(p) == p.checked \cup ({p.status} \ {0})
Prepared(id, p) == p.early \cup (IF id = <<1, 2>> THEN {dma_dst} ELSE {})

\* Phase a is run before phase b.
Before(a, b) == a[1] < b[1] \/ (a[1] = b[1] /\ a[2] < b[2])

\* What a test waits for: a PASS ends the wait; the status is cleared and is no
\* result; a test without a status has a result that it did not clear to what it
\* expects.
Stands(p) ==
    /\ p.guarded \in {"no", "fail", "skip"}
    /\ "good" \in p.stops
    /\ p.status \notin p.checked
    /\ p.status # 0 => p.status \in p.cleared
    /\ p.status = 0 => \E l \in p.checked : l \notin p.blank

\* How its program is started: from DDR with the vector on the code it has just
\* written, or from the IMEM, where only the third test trusts the vector it finds.
Boots(id, p) ==
    /\ p.vector \in Places \cup {0}
    /\ Imem(0) \notin p.early
    /\ p.hold <=> id[1] >= 3
    /\ ~p.hold => ~p.verify
    /\ p.hold /\ p.load = "none" => p.vector \in p.early /\ p.vector \in CodeAreas
    /\ p.hold /\ p.load # "none" => p.vector \in {0, Imem(0)}
    /\ p.hold /\ p.vector = 0 => id[1] = 3
    /\ id[1] = 3 => p.vector = 0 /\ p.load # "none"
    /\ id[1] <= 3 => p.guarded = "no" /\ p.early \cap CodeAreas = {}

\* Which buffers in DDR it writes early, and which its program may still store into
\* when it is left running: cpu_dma_dst is the only one with two users.
Buffers(id, p) ==
    /\ p.checked \subseteq Prepared(id, p) \cup p.cleared \cup p.after
    /\ ~p.hold => p.after = {}
    /\ \A l \in p.early :
        /\ l \in Nat /\ l >= \h3000
        /\ l = dma_dst => id[1] = 1
        /\ l = cpu_dma_dst => id[1] \in {2, 11}
        /\ l = cpu_ddr_probe => id[1] = 12
        /\ l = DdrHighData => id[1] = 14
        /\ l = DdrHighAmo => id[1] = 16
    /\ \A l \in p.checked \cup {p.status} :
        \/ l < \h3000
        \/ l = dma_dst /\ id = <<1, 2>>
        \/ l = cpu_dma_dst /\ id[1] \in {2, 11}
        \/ l = cpu_ddr_probe /\ id[1] = 12
        \/ l = DdrHighData /\ id[1] = 14
        \/ l = DdrHighAmo /\ id[1] = 16
    /\ id[1] = 1 => p.checked \subseteq {dma_dst} /\ p.status = DmaStatus
    /\ id[1] = 2 => DmaStatus \notin p.checked \cup {p.status}
    /\ id = <<1, 1>> => p.checked = {} /\ dma_dst \in p.early

Row(id, p) == Stands(p) /\ Boots(id, p) /\ Buffers(id, p)

\* The test's own program runs: during the wait and after it, and at a verdict that
\* rests on a PASS.
Waiting == {"poll", "reread", "collect", "judge"}
Own == at \in Waiting \/ (at = "judged" /\ seen = "good")

\* Whose program runs: this test's or an earlier one's, none between hold and release,
\* none older than the third test once that has held the CPU, and in the second
\* transfer one that is done.
Order ==
    /\ agent = test \/ Before(agent, test)
    /\ at \in {"prepare", "hold", "clear", "load", "vector", "verify", "release"} => agent # test
    /\ at \in {"hold", "load", "vector", "verify", "release"} => P.hold
    /\ at \in {"load", "vector", "verify", "release"} \/ (at = "clear" /\ P.hold)
          => held /\ agent = Nobody /\ ~wild
    /\ at = "start" => IF P.hold THEN agent = test /\ ~held /\ answered = "no" ELSE agent # test
    /\ test[1] <= 2 => ~held /\ ~wild
    /\ at = "start" => ~wild
    /\ test[1] > 3 \/ (test[1] = 3 /\ at \notin {"prepare", "hold"})
          => agent = Nobody \/ agent[1] >= 3
    /\ test = <<1, 2>> /\ agent # test => agent = <<1, 1>> /\ answered = "done"
    /\ Own => agent = test /\ ~held /\ ~wild

\* What it runs from: the vector points at this test's image when the CPU is released,
\* and a wrong word of it is known where it is read back.
Image ==
    /\ test[1] <= 3 => vector = Imem(0)
    /\ at \in {"hold", "clear", "load", "vector", "verify", "release"} =>
          \A a \in Places : a \in P.early => code[a] = test
    /\ at = "load" => P.load # "none"
    /\ at = "vector" /\ P.load # "none" => code[Imem(0)] = test
    /\ at \in {"verify", "release"} => code[vector] = test
    /\ at \in {"release", "start"} \/ Own => (P.verify /\ fault => errors)

\* The words it will look at: cleared when the program starts (those in the IMEM only
\* after the image is loaded), and from then on changed by that program only, the
\* results before the status.
Memory ==
    /\ at \in {"hold", "clear"} => \A l \in Prepared(test, P) : mem[l] = "clear"
    /\ test = <<1, 1>> /\ at # "prepare" => mem[dma_dst] = "clear"
    /\ test = <<1, 2>> /\ at = "prepare" => mem[dma_dst] = "clear"
    /\ at \in {"load", "vector", "verify"} => \A l \in Looked(P) \ P.after : mem[l] = "clear"
    /\ at \in {"release", "start"} => \A l \in Looked(P) : mem[l] = "clear"
    /\ Own => /\ \A l \in Looked(P) : mem[l] # "old"
              /\ answered = "no" => \A l \in Looked(P) : mem[l] = "clear"
              /\ P.status # 0 /\ mem[P.status] # "clear" => answered = "done"

\* What the PS has made of them: a PASS that was read is still there, with the last
\* store of the program behind it, so the results do not change after they are judged.
AllExpected == \A l \in P.checked : Expected(l)
Verdict ==
    /\ seen = "none" \/ at \in Waiting \cup {"judged"}
    /\ seen = "good" => IF P.status = 0 THEN answered # "no"
                        ELSE answered = "done" /\ mem[P.status] = "good"
    /\ at = "judge" /\ seen = "good" => ok = AllExpected
    /\ at = "judged" /\ verdict = "pass" => ~errors /\ seen = "good" /\ AllExpected
    /\ at = "judged" /\ verdict = "fail" /\ seen = "good" => errors \/ ~AllExpected

ProbeInv == ProbeTypeOK /\ Order /\ Image /\ Memory /\ Verdict

\* How far main has come.
Stage ==
    [prepare |-> 0, hold |-> 1, clear |-> 2, load |-> 3, vector |-> 4, verify |-> 5, release |-> 6,
     start |-> 7, poll |-> 8, reread |-> 9, collect |-> 10, judge |-> 11, judged |-> 12]

\* A step leads to a later phase, to a later place in the same phase, or to one more
\* read of a wait that has not come to its bound.
Further ==
    \/ Before(test, test')
    \/ test' = test /\ Stage[at] < Stage[at']
    \/ test' = test /\ at = "poll" /\ at' = "poll" /\ polls < polls' /\ polls' <= Polls

\* No step of the PS goes back, whatever the core does.
MovesOn == MainStep => Further
-----------------------------------------------------------------------------
(* The table.                                                              *)

USE DEF CPU_MAIL_START, CPU_MAIL_STATUS, CPU_MAIL_COPIED, Imem, DmaStatus, dma_dst, cpu_dma_dst,
         cpu_ddr_probe, cpu_ddr_exec, cpu_sbi_payload, cpu_linux_contract, DdrHighExec,
         DdrHighData, DdrHighAmo

\* The rows, from the records of the tests.
LEMMA Row1 == Row(<<1, 1>>, run_datamover_loopback[1])
<1>. DEFINE p == run_datamover_loopback[1]
<1>1. p =
          [[Phase EXCEPT !.hold = FALSE, !.load = "none", !.verify = FALSE, !.vector = 0,
                         !.start = TRUE, !.status = DmaStatus, !.cleared = {DmaStatus},
                         !.late = "abort"]
              EXCEPT !.early = {dma_dst}]
  BY DEF run_datamover_loopback
<1>2. p.hold = FALSE /\ p.verify = FALSE
  BY <1>1 DEF Phase
<1>3. /\ p.guarded = "no" /\ p.load = "none" /\ p.vector = 0
      /\ p.early = {dma_dst} /\ p.cleared = {DmaStatus} /\ p.after = {}
      /\ p.checked = {} /\ p.blank = {}
      /\ p.status = DmaStatus /\ p.stops = {"good", "bad"}
  BY <1>1 DEF Phase
<1>. QED
  BY <1>2, <1>3 DEF Row, Stands, Boots, Buffers, Prepared, Places, CodeAreas

LEMMA Row1b == Row(<<1, 2>>, run_datamover_loopback[2])
<1>. DEFINE p == run_datamover_loopback[2]
<1>1. p =
          [[Phase EXCEPT !.hold = FALSE, !.load = "none", !.verify = FALSE, !.vector = 0,
                         !.start = TRUE, !.status = DmaStatus, !.cleared = {DmaStatus},
                         !.late = "abort"]
              EXCEPT !.checked = {dma_dst}]
  BY DEF run_datamover_loopback
<1>2. p.hold = FALSE /\ p.verify = FALSE
  BY <1>1 DEF Phase
<1>3. /\ p.guarded = "no" /\ p.load = "none" /\ p.vector = 0
      /\ p.early = {} /\ p.cleared = {DmaStatus} /\ p.after = {}
      /\ p.checked = {dma_dst} /\ p.blank = {}
      /\ p.status = DmaStatus /\ p.stops = {"good", "bad"}
  BY <1>1 DEF Phase
<1>. QED
  BY <1>2, <1>3 DEF Row, Stands, Boots, Buffers, Prepared, Places, CodeAreas

LEMMA Row2 == Row(<<2, 1>>, run_cpu_datamover_loopback[1])
<1>. DEFINE p == run_cpu_datamover_loopback[1]
            c == Words(CPU_MAIL_START, CPU_MAIL_COPIED)
<1>1. CPU_MAIL_STATUS \in c /\ CPU_MAIL_COPIED \in c
  BY DEF Words
<1>2. p =
          [[Phase EXCEPT !.early = {cpu_dma_dst}, !.start = TRUE, !.late = "abort",
                        !.cleared = c, !.checked = {CPU_MAIL_COPIED, cpu_dma_dst}]
              EXCEPT !.hold = FALSE, !.load = "none", !.verify = FALSE, !.vector = 0]
  BY DEF run_cpu_datamover_loopback, CpuDatamover
<1>. HIDE DEF c
<1>3. p.hold = FALSE /\ p.verify = FALSE
  BY <1>2 DEF Phase
<1>4. /\ p.guarded = "no" /\ p.load = "none" /\ p.vector = 0
      /\ p.early = {cpu_dma_dst} /\ p.cleared = c /\ p.after = {}
      /\ p.checked = {CPU_MAIL_COPIED, cpu_dma_dst} /\ p.blank = {}
      /\ p.status = CPU_MAIL_STATUS /\ p.stops = {"good", "bad"}
  BY <1>2 DEF Phase
<1>. QED
  BY <1>1, <1>3, <1>4 DEF Row, Stands, Boots, Buffers, Prepared, Places, CodeAreas

LEMMA Row3 == Row(<<3, 1>>, run_cpu_bram_load_test[1])
<1>. DEFINE p == run_cpu_bram_load_test[1]
<1>1. p = [UntilLoaded EXCEPT !.load = "words", !.vector = 0]
  BY DEF run_cpu_bram_load_test
<1>2. p.hold = TRUE /\ p.verify = TRUE
  BY <1>1 DEF Phase, UntilLoaded
<1>3. /\ p.guarded = "no" /\ p.load = "words" /\ p.vector = 0
      /\ p.early = {} /\ p.cleared = {CPU_MAIL_STATUS}
      /\ p.checked = {} /\ p.blank = {}
      /\ p.status = CPU_MAIL_STATUS /\ p.stops = {"good"}
  BY <1>1 DEF Phase, UntilLoaded
<1>. QED
  BY <1>2, <1>3 DEF Row, Stands, Boots, Buffers, Prepared, Places, CodeAreas

LEMMA Row3b == Row(<<3, 2>>, run_cpu_bram_load_test[2])
<1>. DEFINE p == run_cpu_bram_load_test[2]
<1>1. p =
          [[UntilLoaded EXCEPT !.load = "words", !.vector = 0]
              EXCEPT !.verify = FALSE, !.after = {Imem(17)}, !.checked = {Imem(17)}]
  BY DEF run_cpu_bram_load_test
<1>2. p.hold = TRUE /\ p.verify = FALSE
  BY <1>1 DEF Phase, UntilLoaded
<1>3. /\ p.guarded = "no" /\ p.load = "words" /\ p.vector = 0
      /\ p.early = {} /\ p.cleared = {CPU_MAIL_STATUS} /\ p.after = {Imem(17)}
      /\ p.checked = {Imem(17)} /\ p.blank = {}
      /\ p.status = CPU_MAIL_STATUS /\ p.stops = {"good"}
  BY <1>1 DEF Phase, UntilLoaded
<1>. QED
  BY <1>2, <1>3 DEF Row, Stands, Boots, Buffers, Prepared, Places, CodeAreas

LEMMA Row4 == Row(<<4, 1>>, run_cpu_elf_load_test[1])
<1>. DEFINE p == run_cpu_elf_load_test[1]
<1>1. p = [UntilLoaded EXCEPT !.after = {Imem(17)}]
  BY DEF run_cpu_elf_load_test
<1>2. p.hold = TRUE /\ p.verify = TRUE
  BY <1>1 DEF Phase, UntilLoaded
<1>3. /\ p.guarded = "no" /\ p.load = "elf" /\ p.vector = Imem(0)
      /\ p.early = {} /\ p.cleared = {CPU_MAIL_STATUS} /\ p.after = {Imem(17)}
      /\ p.checked = {} /\ p.blank = {}
      /\ p.status = CPU_MAIL_STATUS /\ p.stops = {"good"}
  BY <1>1 DEF Phase, UntilLoaded
<1>. QED
  BY <1>2, <1>3 DEF Row, Stands, Boots, Buffers, Prepared, Places, CodeAreas

LEMMA Row5 == Row(<<5, 1>>, run_cpu_entry_smoke_test[1])
<1>. DEFINE p == run_cpu_entry_smoke_test[1]
<1>1. p = UntilLoaded
  BY DEF run_cpu_entry_smoke_test
<1>2. p.hold = TRUE /\ p.verify = TRUE
  BY <1>1 DEF Phase, UntilLoaded
<1>3. /\ p.guarded = "no" /\ p.load = "elf" /\ p.vector = Imem(0)
      /\ p.early = {} /\ p.cleared = {CPU_MAIL_STATUS}
      /\ p.checked = {} /\ p.blank = {}
      /\ p.status = CPU_MAIL_STATUS /\ p.stops = {"good"}
  BY <1>1 DEF Phase, UntilLoaded
<1>. QED
  BY <1>2, <1>3 DEF Row, Stands, Boots, Buffers, Prepared, Places, CodeAreas

LEMMA Row6 == Row(<<6, 1>>, run_cpu_trap_smoke_test[1])
<1>. DEFINE p == run_cpu_trap_smoke_test[1]
            d == {Imem(i) : i \in 20 .. 22}
<1>1. 0 \notin d /\ Imem(20) \in d /\ (\A l \in d : l < \h3000)
  BY DEF Words
<1>2. p =
          [[Phase EXCEPT !.stops = {"good"}] EXCEPT !.after = d, !.status = 0, !.checked = d]
  BY DEF run_cpu_trap_smoke_test, UntilLoaded
<1>. HIDE DEF d
<1>3. p.hold = TRUE /\ p.verify = TRUE
  BY <1>2 DEF Phase
<1>4. /\ p.guarded = "no" /\ p.load = "elf" /\ p.vector = Imem(0)
      /\ p.early = {} /\ p.cleared = {CPU_MAIL_STATUS} /\ p.after = d
      /\ p.checked = d /\ p.blank = {}
      /\ p.status = 0 /\ p.stops = {"good"}
  BY <1>2 DEF Phase
<1>. QED
  BY <1>1, <1>3, <1>4 DEF Row, Stands, Boots, Buffers, Prepared, Places, CodeAreas

LEMMA Row7 == Row(<<7, 1>>, run_cpu_supervisor_smoke_test[1])
<1>. DEFINE p == run_cpu_supervisor_smoke_test[1]
            c == {CPU_MAIL_STATUS} \cup Words(\h3E0, \h3E8)
            d == Words(\h3E4, \h3E8)
<1>1. /\ CPU_MAIL_STATUS \in c /\ CPU_MAIL_STATUS \notin d
      /\ \A l \in d : l \in c /\ l < \h3000
  BY DEF Words
<1>2. p =
          [Phase EXCEPT !.cleared = c, !.checked = d]
  BY DEF run_cpu_supervisor_smoke_test
<1>. HIDE DEF c, d
<1>3. p.hold = TRUE /\ p.verify = TRUE
  BY <1>2 DEF Phase
<1>4. /\ p.guarded = "no" /\ p.load = "elf" /\ p.vector = Imem(0)
      /\ p.early = {} /\ p.cleared = c
      /\ p.checked = d /\ p.blank = {}
      /\ p.status = CPU_MAIL_STATUS /\ p.stops = {"good", "bad"}
  BY <1>2 DEF Phase
<1>. QED
  BY <1>1, <1>3, <1>4 DEF Row, Stands, Boots, Buffers, Prepared, Places, CodeAreas

LEMMA Row8 == Row(<<8, 1>>, run_cpu_supervisor_timer_smoke_test[1])
<1>. DEFINE p == run_cpu_supervisor_timer_smoke_test[1]
            c == {CPU_MAIL_STATUS} \cup Words(\h3E0, \h3E8)
            d == Words(\h3E4, \h3E8)
<1>1. /\ CPU_MAIL_STATUS \in c /\ CPU_MAIL_STATUS \notin d
      /\ \A l \in d : l \in c /\ l < \h3000
  BY DEF Words
<1>2. p =
          [Phase EXCEPT !.cleared = c, !.checked = d]
  BY DEF run_cpu_supervisor_timer_smoke_test
<1>. HIDE DEF c, d
<1>3. p.hold = TRUE /\ p.verify = TRUE
  BY <1>2 DEF Phase
<1>4. /\ p.guarded = "no" /\ p.load = "elf" /\ p.vector = Imem(0)
      /\ p.early = {} /\ p.cleared = c
      /\ p.checked = d /\ p.blank = {}
      /\ p.status = CPU_MAIL_STATUS /\ p.stops = {"good", "bad"}
  BY <1>2 DEF Phase
<1>. QED
  BY <1>1, <1>3, <1>4 DEF Row, Stands, Boots, Buffers, Prepared, Places, CodeAreas

LEMMA Row9 == Row(<<9, 1>>, run_cpu_boot_payload_smoke_test[1])
<1>. DEFINE p == run_cpu_boot_payload_smoke_test[1]
            c == {CPU_MAIL_STATUS} \cup Words(\h3C0, \h3D0) \cup Words(\h3E0, \h3E8)
            d == Words(\h3C0, \h3C4) \cup Words(\h3E4, \h3E8)
<1>1. /\ CPU_MAIL_STATUS \in c /\ CPU_MAIL_STATUS \notin d
      /\ \A l \in d : l \in c /\ l < \h3000
  BY DEF Words
<1>2. p =
          [Phase EXCEPT !.cleared = c, !.checked = d]
  BY DEF run_cpu_boot_payload_smoke_test
<1>. HIDE DEF c, d
<1>3. p.hold = TRUE /\ p.verify = TRUE
  BY <1>2 DEF Phase
<1>4. /\ p.guarded = "no" /\ p.load = "elf" /\ p.vector = Imem(0)
      /\ p.early = {} /\ p.cleared = c
      /\ p.checked = d /\ p.blank = {}
      /\ p.status = CPU_MAIL_STATUS /\ p.stops = {"good", "bad"}
  BY <1>2 DEF Phase
<1>. QED
  BY <1>1, <1>3, <1>4 DEF Row, Stands, Boots, Buffers, Prepared, Places, CodeAreas

LEMMA Row10 == Row(<<10, 1>>, run_cpu_supervisor_counter_smoke_test[1])
<1>. DEFINE p == run_cpu_supervisor_counter_smoke_test[1]
            c == {CPU_MAIL_STATUS} \cup Words(\h3C8, \h3D0)
            d == Words(\h3C8, \h3D0)
<1>1. /\ CPU_MAIL_STATUS \in c /\ CPU_MAIL_STATUS \notin d
      /\ \A l \in d : l \in c /\ l < \h3000
  BY DEF Words
<1>2. p =
          [Phase EXCEPT !.cleared = c, !.checked = d]
  BY DEF run_cpu_supervisor_counter_smoke_test
<1>. HIDE DEF c, d
<1>3. p.hold = TRUE /\ p.verify = TRUE
  BY <1>2 DEF Phase
<1>4. /\ p.guarded = "no" /\ p.load = "elf" /\ p.vector = Imem(0)
      /\ p.early = {} /\ p.cleared = c
      /\ p.checked = d /\ p.blank = {}
      /\ p.status = CPU_MAIL_STATUS /\ p.stops = {"good", "bad"}
  BY <1>2 DEF Phase
<1>. QED
  BY <1>1, <1>3, <1>4 DEF Row, Stands, Boots, Buffers, Prepared, Places, CodeAreas

LEMMA Row11 == Row(<<11, 1>>, run_cpu_custom_datamover_test[1])
<1>. DEFINE p == run_cpu_custom_datamover_test[1]
            c == Words(CPU_MAIL_START, CPU_MAIL_COPIED)
<1>1. CPU_MAIL_STATUS \in c /\ CPU_MAIL_COPIED \in c
  BY DEF Words
<1>2. p =
          [Phase EXCEPT !.early = {cpu_dma_dst}, !.start = TRUE, !.late = "abort",
                        !.cleared = c, !.checked = {CPU_MAIL_COPIED, cpu_dma_dst}]
  BY DEF run_cpu_custom_datamover_test, CpuDatamover
<1>. HIDE DEF c
<1>3. p.hold = TRUE /\ p.verify = TRUE
  BY <1>2 DEF Phase
<1>4. /\ p.guarded = "no" /\ p.load = "elf" /\ p.vector = Imem(0)
      /\ p.early = {cpu_dma_dst} /\ p.cleared = c
      /\ p.checked = {CPU_MAIL_COPIED, cpu_dma_dst} /\ p.blank = {}
      /\ p.status = CPU_MAIL_STATUS /\ p.stops = {"good", "bad"}
  BY <1>2 DEF Phase
<1>. QED
  BY <1>1, <1>3, <1>4 DEF Row, Stands, Boots, Buffers, Prepared, Places, CodeAreas

LEMMA Row12 == Row(<<12, 1>>, run_cpu_ddr_access_smoke_test[1])
<1>. DEFINE p == run_cpu_ddr_access_smoke_test[1]
            c == Words(CPU_MAIL_START, CPU_MAIL_STATUS)
<1>1. CPU_MAIL_STATUS \in c
  BY DEF Words
<1>2. p =
          [Phase EXCEPT !.early = {cpu_ddr_probe},
                        !.late = "abort", !.cleared = c, !.checked = {cpu_ddr_probe}]
  BY DEF run_cpu_ddr_access_smoke_test
<1>. HIDE DEF c
<1>3. p.hold = TRUE /\ p.verify = TRUE
  BY <1>2 DEF Phase
<1>4. /\ p.guarded = "no" /\ p.load = "elf" /\ p.vector = Imem(0)
      /\ p.early = {cpu_ddr_probe} /\ p.cleared = c
      /\ p.checked = {cpu_ddr_probe} /\ p.blank = {}
      /\ p.status = CPU_MAIL_STATUS /\ p.stops = {"good", "bad"}
  BY <1>2 DEF Phase
<1>. QED
  BY <1>1, <1>3, <1>4 DEF Row, Stands, Boots, Buffers, Prepared, Places, CodeAreas

LEMMA Row13 == Row(<<13, 1>>, run_cpu_ddr_exec_smoke_test[1])
<1>. DEFINE p == run_cpu_ddr_exec_smoke_test[1]
            c == {CPU_MAIL_STATUS} \cup Words(\h3C0, \h3C8)
            d == Words(\h3C0, \h3C8)
<1>1. /\ CPU_MAIL_STATUS \in c /\ CPU_MAIL_STATUS \notin d
      /\ \A l \in d : l \in c /\ l < \h3000
  BY DEF Words
<1>2. p =
          [[Phase EXCEPT !.load = "none", !.verify = FALSE,
                        !.late = "abort", !.cleared = c, !.checked = d]
              EXCEPT !.early = {cpu_ddr_exec}, !.guarded = "fail", !.vector = cpu_ddr_exec]
  BY DEF run_cpu_ddr_exec_smoke_test, DdrExec
<1>. HIDE DEF c, d
<1>3. p.hold = TRUE /\ p.verify = FALSE
  BY <1>2 DEF Phase
<1>4. /\ p.guarded = "fail" /\ p.load = "none" /\ p.vector = cpu_ddr_exec
      /\ p.early = {cpu_ddr_exec} /\ p.cleared = c
      /\ p.checked = d /\ p.blank = {}
      /\ p.status = CPU_MAIL_STATUS /\ p.stops = {"good", "bad"}
  BY <1>2 DEF Phase
<1>. QED
  BY <1>1, <1>3, <1>4 DEF Row, Stands, Boots, Buffers, Prepared, Places, CodeAreas

LEMMA Row14 == Row(<<14, 1>>, run_cpu_ddr_high_access_smoke_test[1])
<1>. DEFINE p == run_cpu_ddr_high_access_smoke_test[1]
            c == Words(CPU_MAIL_START, CPU_MAIL_STATUS)
<1>1. CPU_MAIL_STATUS \in c
  BY DEF Words
<1>2. p =
          [Phase EXCEPT !.early = {DdrHighData},
                        !.late = "abort", !.cleared = c, !.checked = {DdrHighData}]
  BY DEF run_cpu_ddr_high_access_smoke_test
<1>. HIDE DEF c
<1>3. p.hold = TRUE /\ p.verify = TRUE
  BY <1>2 DEF Phase
<1>4. /\ p.guarded = "no" /\ p.load = "elf" /\ p.vector = Imem(0)
      /\ p.early = {DdrHighData} /\ p.cleared = c
      /\ p.checked = {DdrHighData} /\ p.blank = {}
      /\ p.status = CPU_MAIL_STATUS /\ p.stops = {"good", "bad"}
  BY <1>2 DEF Phase
<1>. QED
  BY <1>1, <1>3, <1>4 DEF Row, Stands, Boots, Buffers, Prepared, Places, CodeAreas

LEMMA Row15 == Row(<<15, 1>>, run_cpu_ddr_high_exec_smoke_test[1])
<1>. DEFINE p == run_cpu_ddr_high_exec_smoke_test[1]
            c == {CPU_MAIL_STATUS} \cup Words(\h3C0, \h3C8)
            d == Words(\h3C0, \h3C8)
<1>1. /\ CPU_MAIL_STATUS \in c /\ CPU_MAIL_STATUS \notin d
      /\ \A l \in d : l \in c /\ l < \h3000
  BY DEF Words
<1>2. p =
          [[Phase EXCEPT !.load = "none", !.verify = FALSE,
                        !.late = "abort", !.cleared = c, !.checked = d]
              EXCEPT !.early = {DdrHighExec}, !.vector = DdrHighExec]
  BY DEF run_cpu_ddr_high_exec_smoke_test, DdrExec
<1>. HIDE DEF c, d
<1>3. p.hold = TRUE /\ p.verify = FALSE
  BY <1>2 DEF Phase
<1>4. /\ p.guarded = "no" /\ p.load = "none" /\ p.vector = DdrHighExec
      /\ p.early = {DdrHighExec} /\ p.cleared = c
      /\ p.checked = d /\ p.blank = {}
      /\ p.status = CPU_MAIL_STATUS /\ p.stops = {"good", "bad"}
  BY <1>2 DEF Phase
<1>. QED
  BY <1>1, <1>3, <1>4 DEF Row, Stands, Boots, Buffers, Prepared, Places, CodeAreas

LEMMA Row16 == Row(<<16, 1>>, run_cpu_ddr_high_amo_smoke_test[1])
<1>. DEFINE p == run_cpu_ddr_high_amo_smoke_test[1]
            c == Words(CPU_MAIL_START, CPU_MAIL_STATUS)
            d == {DdrHighAmo} \cup Words(\h3E0, \h3EC)
<1>1. /\ CPU_MAIL_STATUS \in c /\ CPU_MAIL_STATUS \notin d
      /\ \A l \in d : l = DdrHighAmo \/ (l \in c /\ l < \h3000)
  BY DEF Words
<1>2. p =
          [Phase EXCEPT !.early = {DdrHighAmo}, !.late = "abort", !.cleared = c, !.checked = d,
                        !.blank = {\h3E0}]
  BY DEF run_cpu_ddr_high_amo_smoke_test
<1>. HIDE DEF c, d
<1>3. p.hold = TRUE /\ p.verify = TRUE
  BY <1>2 DEF Phase
<1>4. /\ p.guarded = "no" /\ p.load = "elf" /\ p.vector = Imem(0)
      /\ p.early = {DdrHighAmo} /\ p.cleared = c
      /\ p.checked = d /\ p.blank = {\h3E0}
      /\ p.status = CPU_MAIL_STATUS /\ p.stops = {"good", "bad"}
  BY <1>2 DEF Phase
<1>. QED
  BY <1>1, <1>3, <1>4 DEF Row, Stands, Boots, Buffers, Prepared, Places, CodeAreas

LEMMA Row17 == Row(<<17, 1>>, run_cpu_sbi_smoke_test[1])
<1>. DEFINE p == run_cpu_sbi_smoke_test[1]
            c == {CPU_MAIL_STATUS} \cup Words(\h380, \h384) \cup Words(\h38C, \h3A8)
            d == Words(\h38C, \h3A8)
<1>1. /\ CPU_MAIL_STATUS \in c /\ CPU_MAIL_STATUS \notin d
      /\ \A l \in d : l \in c /\ l < \h3000
  BY DEF Words
<1>2. p =
          [Phase EXCEPT !.early = {cpu_sbi_payload}, !.guarded = "fail", !.late = "abort",
                        !.cleared = c, !.checked = d]
  BY DEF run_cpu_sbi_smoke_test
<1>. HIDE DEF c, d
<1>3. p.hold = TRUE /\ p.verify = TRUE
  BY <1>2 DEF Phase
<1>4. /\ p.guarded = "fail" /\ p.load = "elf" /\ p.vector = Imem(0)
      /\ p.early = {cpu_sbi_payload} /\ p.cleared = c
      /\ p.checked = d /\ p.blank = {}
      /\ p.status = CPU_MAIL_STATUS /\ p.stops = {"good", "bad"}
  BY <1>2 DEF Phase
<1>. QED
  BY <1>1, <1>3, <1>4 DEF Row, Stands, Boots, Buffers, Prepared, Places, CodeAreas

LEMMA Row18 == Row(<<18, 1>>, run_cpu_sbi_timer_smoke_test[1])
<1>. DEFINE p == run_cpu_sbi_timer_smoke_test[1]
            c == {CPU_MAIL_STATUS} \cup Words(\h340, \h344) \cup Words(\h34C, \h364) \cup Words(\h380, \h3A4)
            d == {\h34C, \h354, \h358, \h380, \h384, \h388, \h38C}
<1>1. /\ CPU_MAIL_STATUS \in c /\ CPU_MAIL_STATUS \notin d
      /\ \A l \in d : l \in c /\ l < \h3000
  BY DEF Words
<1>2. p =
          [Phase EXCEPT !.early = {cpu_sbi_payload}, !.guarded = "fail", !.late = "reread",
                        !.cleared = c, !.checked = d]
  BY DEF run_cpu_sbi_timer_smoke_test
<1>. HIDE DEF c, d
<1>3. p.hold = TRUE /\ p.verify = TRUE
  BY <1>2 DEF Phase
<1>4. /\ p.guarded = "fail" /\ p.load = "elf" /\ p.vector = Imem(0)
      /\ p.early = {cpu_sbi_payload} /\ p.cleared = c
      /\ p.checked = d /\ p.blank = {}
      /\ p.status = CPU_MAIL_STATUS /\ p.stops = {"good", "bad"}
  BY <1>2 DEF Phase
<1>. QED
  BY <1>1, <1>3, <1>4 DEF Row, Stands, Boots, Buffers, Prepared, Places, CodeAreas

LEMMA Row19 == Row(<<19, 1>>, run_cpu_linux_contract_smoke_test[1])
<1>. DEFINE p == run_cpu_linux_contract_smoke_test[1]
            c == {CPU_MAIL_STATUS} \cup Words(\h300, \h368)
            d == {\h308, \h310, \h314, \h31C} \cup Words(\h328, \h338) \cup Words(\h348, \h368)
<1>1. /\ CPU_MAIL_STATUS \in c /\ CPU_MAIL_STATUS \notin d
      /\ \A l \in d : l \in c /\ l < \h3000
  BY DEF Words
<1>2. p =
          [Phase EXCEPT !.early = {cpu_linux_contract}, !.guarded = "fail", !.late = "reread",
                        !.cleared = c, !.checked = d]
  BY DEF run_cpu_linux_contract_smoke_test
<1>. HIDE DEF c, d
<1>3. p.hold = TRUE /\ p.verify = TRUE
  BY <1>2 DEF Phase
<1>4. /\ p.guarded = "fail" /\ p.load = "elf" /\ p.vector = Imem(0)
      /\ p.early = {cpu_linux_contract} /\ p.cleared = c
      /\ p.checked = d /\ p.blank = {}
      /\ p.status = CPU_MAIL_STATUS /\ p.stops = {"good", "bad"}
  BY <1>2 DEF Phase
<1>. QED
  BY <1>1, <1>3, <1>4 DEF Row, Stands, Boots, Buffers, Prepared, Places, CodeAreas

LEMMA Row20 == Row(<<20, 1>>, run_cpu_linux_sbi_smoke_test[1])
<1>. DEFINE p == run_cpu_linux_sbi_smoke_test[1]
            c == {CPU_MAIL_STATUS} \cup Words(\h280, \h2E8)
            d == {\h288, \h290, \h294} \cup Words(\h29C, \h2D8) \cup Words(\h2E4, \h2E8)
<1>1. /\ CPU_MAIL_STATUS \in c /\ CPU_MAIL_STATUS \notin d
      /\ \A l \in d : l \in c /\ l < \h3000
  BY DEF Words
<1>2. p =
          [Phase EXCEPT !.early = {cpu_sbi_payload}, !.guarded = "fail", !.late = "reread",
                        !.cleared = c, !.checked = d, !.blank = {\h2CC}]
  BY DEF run_cpu_linux_sbi_smoke_test
<1>. HIDE DEF c, d
<1>3. p.hold = TRUE /\ p.verify = TRUE
  BY <1>2 DEF Phase
<1>4. /\ p.guarded = "fail" /\ p.load = "elf" /\ p.vector = Imem(0)
      /\ p.early = {cpu_sbi_payload} /\ p.cleared = c
      /\ p.checked = d /\ p.blank = {\h2CC}
      /\ p.status = CPU_MAIL_STATUS /\ p.stops = {"good", "bad"}
  BY <1>2 DEF Phase
<1>. QED
  BY <1>1, <1>3, <1>4 DEF Row, Stands, Boots, Buffers, Prepared, Places, CodeAreas

LEMMA Row21 == Row(<<21, 1>>, run_cpu_linux_image_layout_smoke_test[1])
<1>. DEFINE p == run_cpu_linux_image_layout_smoke_test[1]
            c == {CPU_MAIL_STATUS} \cup Words(\h300, \h304) \cup {\h330} \cup Words(\h36C, \h3A4)
            d == {\h330} \cup Words(\h36C, \h388)
<1>1. /\ CPU_MAIL_STATUS \in c /\ CPU_MAIL_STATUS \notin d
      /\ \A l \in d : l \in c /\ l < \h3000
  BY DEF Words
<1>2. p =
          [Phase EXCEPT !.guarded = "skip", !.late = "reread", !.cleared = c, !.checked = d,
                        !.blank = {\h374, \h37C}]
  BY DEF run_cpu_linux_image_layout_smoke_test
<1>. HIDE DEF c, d
<1>3. p.hold = TRUE /\ p.verify = TRUE
  BY <1>2 DEF Phase
<1>4. /\ p.guarded = "skip" /\ p.load = "elf" /\ p.vector = Imem(0)
      /\ p.early = {} /\ p.cleared = c
      /\ p.checked = d /\ p.blank = {\h374, \h37C}
      /\ p.status = CPU_MAIL_STATUS /\ p.stops = {"good", "bad"}
  BY <1>2 DEF Phase
<1>. QED
  BY <1>1, <1>3, <1>4 DEF Row, Stands, Boots, Buffers, Prepared, Places, CodeAreas

HIDE DEF CPU_MAIL_START, CPU_MAIL_STATUS, CPU_MAIL_COPIED, Imem, DmaStatus, dma_dst, cpu_dma_dst,
         cpu_ddr_probe, cpu_ddr_exec, cpu_sbi_payload, cpu_linux_contract, DdrHighExec,
         DdrHighData, DdrHighAmo

\* The list of main.
LEMMA TestsAre ==
    /\ Len(Tests) = 21
    /\ Tests[1] = run_datamover_loopback
    /\ Tests[2] = run_cpu_datamover_loopback
    /\ Tests[3] = run_cpu_bram_load_test
    /\ Tests[4] = run_cpu_elf_load_test
    /\ Tests[5] = run_cpu_entry_smoke_test
    /\ Tests[6] = run_cpu_trap_smoke_test
    /\ Tests[7] = run_cpu_supervisor_smoke_test
    /\ Tests[8] = run_cpu_supervisor_timer_smoke_test
    /\ Tests[9] = run_cpu_boot_payload_smoke_test
    /\ Tests[10] = run_cpu_supervisor_counter_smoke_test
    /\ Tests[11] = run_cpu_custom_datamover_test
    /\ Tests[12] = run_cpu_ddr_access_smoke_test
    /\ Tests[13] = run_cpu_ddr_exec_smoke_test
    /\ Tests[14] = run_cpu_ddr_high_access_smoke_test
    /\ Tests[15] = run_cpu_ddr_high_exec_smoke_test
    /\ Tests[16] = run_cpu_ddr_high_amo_smoke_test
    /\ Tests[17] = run_cpu_sbi_smoke_test
    /\ Tests[18] = run_cpu_sbi_timer_smoke_test
    /\ Tests[19] = run_cpu_linux_contract_smoke_test
    /\ Tests[20] = run_cpu_linux_sbi_smoke_test
    /\ Tests[21] = run_cpu_linux_image_layout_smoke_test
  BY DEF Tests

\* How many phases each test has.
LEMMA Lengths ==
    /\ Len(run_datamover_loopback) = 2
    /\ Len(run_cpu_datamover_loopback) = 1
    /\ Len(run_cpu_bram_load_test) = 2
    /\ Len(run_cpu_elf_load_test) = 1
    /\ Len(run_cpu_entry_smoke_test) = 1
    /\ Len(run_cpu_trap_smoke_test) = 1
    /\ Len(run_cpu_supervisor_smoke_test) = 1
    /\ Len(run_cpu_supervisor_timer_smoke_test) = 1
    /\ Len(run_cpu_boot_payload_smoke_test) = 1
    /\ Len(run_cpu_supervisor_counter_smoke_test) = 1
    /\ Len(run_cpu_custom_datamover_test) = 1
    /\ Len(run_cpu_ddr_access_smoke_test) = 1
    /\ Len(run_cpu_ddr_exec_smoke_test) = 1
    /\ Len(run_cpu_ddr_high_access_smoke_test) = 1
    /\ Len(run_cpu_ddr_high_exec_smoke_test) = 1
    /\ Len(run_cpu_ddr_high_amo_smoke_test) = 1
    /\ Len(run_cpu_sbi_smoke_test) = 1
    /\ Len(run_cpu_sbi_timer_smoke_test) = 1
    /\ Len(run_cpu_linux_contract_smoke_test) = 1
    /\ Len(run_cpu_linux_sbi_smoke_test) = 1
    /\ Len(run_cpu_linux_image_layout_smoke_test) = 1
  BY DEF run_datamover_loopback, run_cpu_datamover_loopback,
     run_cpu_bram_load_test, run_cpu_elf_load_test, run_cpu_entry_smoke_test,
     run_cpu_trap_smoke_test, run_cpu_supervisor_smoke_test,
     run_cpu_supervisor_timer_smoke_test, run_cpu_boot_payload_smoke_test,
     run_cpu_supervisor_counter_smoke_test, run_cpu_custom_datamover_test,
     run_cpu_ddr_access_smoke_test, run_cpu_ddr_exec_smoke_test,
     run_cpu_ddr_high_access_smoke_test, run_cpu_ddr_high_exec_smoke_test,
     run_cpu_ddr_high_amo_smoke_test, run_cpu_sbi_smoke_test,
     run_cpu_sbi_timer_smoke_test, run_cpu_linux_contract_smoke_test,
     run_cpu_linux_sbi_smoke_test, run_cpu_linux_image_layout_smoke_test

\* Two of the tests have a second phase.
LEMMA LengthOf ==
    ASSUME NEW i \in 1 .. 21
    PROVE  (i \in {1, 3} /\ Len(Tests[i]) = 2) \/ (i \notin {1, 3} /\ Len(Tests[i]) = 1)
<1>1. CASE i \in 1 .. 7
  BY <1>1, TestsAre, Lengths
<1>2. CASE i \in 8 .. 14
  BY <1>2, TestsAre, Lengths
<1>3. CASE i \in 15 .. 21
  BY <1>3, TestsAre, Lengths
<1>. QED
  BY <1>1, <1>2, <1>3

\* The phases that main goes through, in order of test and phase.
LEMMA IdsAre ==
    ASSUME NEW id
    PROVE  id \in Ids <=>
             \E i \in 1 .. 21 : \E j \in 1 .. 2 : id = <<i, j>> /\ (j = 1 \/ i \in {1, 3})
<1>1. id \in Ids <=> \E i \in 1 .. 21 : \E j \in 1 .. Len(Tests[i]) : id = <<i, j>>
  BY TestsAre DEF Ids
<1>2. ASSUME NEW i \in 1 .. 21, NEW j
      PROVE  j \in 1 .. Len(Tests[i]) <=> j \in 1 .. 2 /\ (j = 1 \/ i \in {1, 3})
  <2>1. PICK n : n = Len(Tests[i])
    OBVIOUS
  <2>2. (n = 2 /\ i \in {1, 3}) \/ (n = 1 /\ i \notin {1, 3})
    BY <2>1, LengthOf
  <2>3. j \in 1 .. n <=> j \in 1 .. 2 /\ (j = 1 \/ i \in {1, 3})
    BY <2>2
  <2>. QED
    BY <2>1, <2>3
<1>. QED
  BY <1>1, <1>2

\* Every phase has its row.
LEMMA TableRow ==
    ASSUME NEW id \in Ids
    PROVE  Row(id, PhaseOf(id))
<1>1. PICK i \in 1 .. 21, j \in 1 .. 2 : id = <<i, j>> /\ (j = 1 \/ i \in {1, 3})
  BY IdsAre
<1>2. PhaseOf(id) = Tests[i][j]
  BY <1>1 DEF PhaseOf
<1>3. CASE i = 1
  BY <1>1, <1>2, <1>3, TestsAre, Row1, Row1b
<1>4. CASE i = 2
  BY <1>1, <1>2, <1>4, TestsAre, Row2
<1>5. CASE i = 3
  BY <1>1, <1>2, <1>5, TestsAre, Row3, Row3b
<1>6. CASE i = 4
  BY <1>1, <1>2, <1>6, TestsAre, Row4
<1>7. CASE i = 5
  BY <1>1, <1>2, <1>7, TestsAre, Row5
<1>8. CASE i = 6
  BY <1>1, <1>2, <1>8, TestsAre, Row6
<1>9. CASE i = 7
  BY <1>1, <1>2, <1>9, TestsAre, Row7
<1>10. CASE i = 8
  BY <1>1, <1>2, <1>10, TestsAre, Row8
<1>11. CASE i = 9
  BY <1>1, <1>2, <1>11, TestsAre, Row9
<1>12. CASE i = 10
  BY <1>1, <1>2, <1>12, TestsAre, Row10
<1>13. CASE i = 11
  BY <1>1, <1>2, <1>13, TestsAre, Row11
<1>14. CASE i = 12
  BY <1>1, <1>2, <1>14, TestsAre, Row12
<1>15. CASE i = 13
  BY <1>1, <1>2, <1>15, TestsAre, Row13
<1>16. CASE i = 14
  BY <1>1, <1>2, <1>16, TestsAre, Row14
<1>17. CASE i = 15
  BY <1>1, <1>2, <1>17, TestsAre, Row15
<1>18. CASE i = 16
  BY <1>1, <1>2, <1>18, TestsAre, Row16
<1>19. CASE i = 17
  BY <1>1, <1>2, <1>19, TestsAre, Row17
<1>20. CASE i = 18
  BY <1>1, <1>2, <1>20, TestsAre, Row18
<1>21. CASE i = 19
  BY <1>1, <1>2, <1>21, TestsAre, Row19
<1>22. CASE i = 20
  BY <1>1, <1>2, <1>22, TestsAre, Row20
<1>23. CASE i = 21
  BY <1>1, <1>2, <1>23, TestsAre, Row21
<1>. QED
  BY <1>3, <1>4, <1>5, <1>6, <1>7, <1>8, <1>9, <1>10, <1>11, <1>12, <1>13, <1>14,
     <1>15, <1>16, <1>17, <1>18, <1>19, <1>20, <1>21, <1>22, <1>23
-----------------------------------------------------------------------------
(* The invariant.                                                          *)

\* The words of a phase are words of the model.
LEMMA PhaseSets ==
    ASSUME NEW id \in Ids, NEW p, p = PhaseOf(id)
    PROVE  /\ p.early \subseteq Locations /\ p.cleared \subseteq Locations
           /\ p.checked \subseteq Locations /\ Looked(p) \subseteq Locations
<1>1. p.early \subseteq Locations /\ p.cleared \subseteq Locations /\ p.checked \subseteq Locations
  <2>1. p.early \cup p.cleared \cup p.after \cup p.checked
            \in {PhaseOf(i).early \cup PhaseOf(i).cleared \cup PhaseOf(i).after
                      \cup PhaseOf(i).checked : i \in Ids}
    OBVIOUS
  <2>. QED
    BY <2>1 DEF Locations
<1>2. p.status # 0 => p.status \in Locations
  BY <1>1, TableRow DEF Row, Stands
<1>. QED
  BY <1>1, <1>2 DEF Looked

\* The numbers of a phase.
LEMMA IdFacts ==
    ASSUME NEW id \in Ids
    PROVE  /\ id = <<id[1], id[2]>> /\ id[1] \in 1 .. 21 /\ id[2] \in 1 .. 2
           /\ id[2] = 1 \/ id[1] \in {1, 3}
           /\ id # Nobody /\ Before(Nobody, id)
<1>1. PICK i \in 1 .. 21, j \in 1 .. 2 : id = <<i, j>> /\ (j = 1 \/ i \in {1, 3})
  BY IdsAre
<1>. QED
  BY <1>1 DEF Nobody, Before

\* A memory word that is assigned keeps the memory a memory.
LEMMA SetType ==
    ASSUME mem \in [Locations -> {"old", "clear", "good", "bad"}],
           NEW v \in {"old", "clear", "good", "bad"}, NEW locs
    PROVE  Set(locs, v) \in [Locations -> {"old", "clear", "good", "bad"}]
  BY DEF Set

\* What the table says of the test in progress.
LEMMA MyPhase ==
    ASSUME ProbeTypeOK
    PROVE  /\ Stands(P) /\ Boots(test, P) /\ Buffers(test, P)
           /\ P.early \subseteq Locations /\ P.cleared \subseteq Locations
           /\ P.checked \subseteq Locations /\ Looked(P) \subseteq Locations
<1>1. test \in Ids
  BY DEF ProbeTypeOK
<1>. QED
  BY <1>1, TableRow, PhaseSets DEF P, Row

\* The phase main is in is one of the table.
LEMMA MyId ==
    ASSUME ProbeTypeOK
    PROVE  /\ test = <<test[1], test[2]>> /\ test[1] \in 1 .. 21 /\ test[2] \in 1 .. 2
           /\ test[2] = 1 \/ test[1] \in {1, 3}
           /\ test # Nobody /\ Before(Nobody, test)
  BY IdFacts DEF ProbeTypeOK

LEMMA DmaDst == dma_dst \in Locations
<1>1. <<1, 1>> \in Ids
  BY IdsAre
<1>2. dma_dst \in PhaseOf(<<1, 1>>).early
  BY <1>1, TableRow DEF Row, Buffers
<1>. QED
  BY <1>1, <1>2, PhaseSets

LEMMA PlaceLocs == Imem(0) \in Places /\ Imem(0) # 0
  BY DEF Places, Imem


\* What the PS can read as a status.
LEMMA StatusType ==
    ASSUME ProbeTypeOK
    PROVE  Status \in {"clear", "good", "bad"}
<1>1. CASE P.status = 0
  BY <1>1 DEF Status
<1>2. CASE P.status # 0
  <2>1. P.status \in Locations
    BY <1>2, MyPhase DEF Looked
  <2>. QED
    BY <1>2, <2>1 DEF Status, ProbeTypeOK
<1>. QED
  BY <1>1, <1>2

\* A PASS that is read is the program's own: nothing it will store is outstanding.
LEMMA StatusGood ==
    ASSUME ProbeInv, Own, Status = "good"
    PROVE  IF P.status = 0 THEN answered # "no" ELSE answered = "done" /\ mem[P.status] = "good"
<1>1. CASE P.status = 0
  <2>1. \A l \in P.checked : Expected(l)
    BY <1>1 DEF Status
  <2>2. PICK l \in P.checked : l \notin P.blank
    BY <1>1, MyPhase DEF ProbeInv, Stands
  <2>3. mem[l] = "good"
    BY <2>1, <2>2 DEF ProbeInv, Memory, Looked, Expected
  <2>. QED
    BY <1>1, <2>2, <2>3 DEF ProbeInv, Memory, Looked
<1>2. CASE P.status # 0
  <2>1. mem[P.status] # "old"
    BY <1>2 DEF ProbeInv, Memory, Looked
  <2>2. mem[P.status] = "good"
    BY <1>2, <2>1 DEF Status
  <2>. QED
    BY <1>2, <2>2 DEF ProbeInv, Memory
<1>. QED
  BY <1>1, <1>2

\* What can follow a wait.
LEMMA AfterWaitDoes ==
    ASSUME NEW s, AfterWait(s)
    PROVE  \/ at' \in {"collect", "reread"} /\ verdict' = verdict
           \/ at' = "judged" /\ verdict' = "fail" /\ s # "good"
  BY DEF AfterWait, Return


\* The steps of the PS preserve the invariant.
LEMMA GuardReturns_Inv == ASSUME ProbeInv, GuardReturns PROVE ProbeInv'
<1>. USE DEF ProbeInv, GuardReturns, cpu, results, Return
<1>1. P' = P
  BY DEF P
<1>0. seen = "none"
  BY DEF Verdict, Waiting
<1>2. ProbeTypeOK'
  BY MyPhase DEF ProbeTypeOK, Stands, Boots
<1>3. Order'
  BY <1>1, <1>0, MyPhase, MyId DEF Order, Own, Waiting, Boots
<1>4. Image'
  BY <1>1, <1>0, MyPhase DEF Image, Own, Waiting, Boots
<1>5. Memory'
  BY <1>1, <1>0, MyId, MyPhase DEF Memory, Own, Waiting, Boots
<1>6. Verdict'
  BY <1>1, <1>0, MyPhase DEF Verdict, Waiting, AllExpected, Expected, Stands
<1>. QED
  BY <1>2, <1>3, <1>4, <1>5, <1>6

LEMMA Hold_Inv == ASSUME ProbeInv, Hold PROVE ProbeInv'
<1>. USE DEF ProbeInv, Hold, cpu, results
<1>1. P' = P
  BY DEF P
<1>2. ProbeTypeOK'
  BY MyPhase DEF ProbeTypeOK, Stands, Boots
<1>3. Order'
  BY <1>1, MyPhase, MyId DEF Order, Own, Waiting, Boots
<1>4. Image'
  BY <1>1, MyPhase DEF Image, Own, Waiting, Boots
<1>5. Memory'
  BY <1>1, MyPhase DEF Memory, Own, Waiting
<1>6. Verdict'
  BY <1>1, MyPhase DEF Verdict, Waiting, AllExpected, Expected
<1>. QED
  BY <1>2, <1>3, <1>4, <1>5, <1>6

LEMMA Load_Inv == ASSUME ProbeInv, Load PROVE ProbeInv'
<1>. USE DEF ProbeInv, Load, cpu, results
<1>1. P' = P
  BY DEF P
<1>2. ProbeTypeOK'
  BY SetType, MyPhase DEF ProbeTypeOK, Stands, Boots
<1>3. Order'
  BY <1>1, MyPhase, MyId DEF Order, Own, Waiting, Boots
<1>4. Image'
  BY <1>1, PlaceLocs, MyPhase DEF Image, Own, Waiting, Boots, ProbeTypeOK
<1>5. Memory'
  <2>1. test # <<1, 1>> /\ test # <<1, 2>> /\ ~ Own'
    BY MyId, MyPhase DEF Order, Boots, Own, Waiting
  <2>2. ASSUME NEW l \in Looked(P) \ P.after
        PROVE  mem'[l] = "clear"
    BY MyPhase DEF Set, Memory
  <2>. QED
    BY <1>1, <2>1, <2>2 DEF Memory
<1>6. Verdict'
  BY <1>1, MyPhase DEF Verdict, Waiting, AllExpected, Expected
<1>. QED
  BY <1>2, <1>3, <1>4, <1>5, <1>6

LEMMA LoadFails_Inv == ASSUME ProbeInv, LoadFails PROVE ProbeInv'
<1>. USE DEF ProbeInv, LoadFails, cpu, results, Return
<1>1. P' = P
  BY DEF P
<1>0. seen = "none"
  BY DEF Verdict, Waiting
<1>2. ProbeTypeOK'
  BY MyPhase DEF ProbeTypeOK, Stands, Boots
<1>3. Order'
  BY <1>1, <1>0, MyPhase, MyId DEF Order, Own, Waiting, Boots
<1>4. Image'
  BY <1>1, <1>0, MyPhase DEF Image, Own, Waiting, Boots
<1>5. Memory'
  BY <1>1, <1>0, MyId, MyPhase DEF Memory, Own, Waiting, Order, Boots
<1>6. Verdict'
  BY <1>1, <1>0, MyPhase DEF Verdict, Waiting, AllExpected, Expected
<1>. QED
  BY <1>2, <1>3, <1>4, <1>5, <1>6

LEMMA SetVector_Inv == ASSUME ProbeInv, SetVector PROVE ProbeInv'
<1>. USE DEF ProbeInv, SetVector, cpu, results
<1>1. P' = P
  BY DEF P
<1>2. ProbeTypeOK'
  BY MyPhase DEF ProbeTypeOK, Stands, Boots, NewVector
<1>3. Order'
  BY <1>1, MyPhase, MyId DEF Order, Own, Waiting, Boots
<1>4. Image'
  <2>1. vector' \in Places /\ code[vector'] = test
    BY MyPhase, PlaceLocs, MyId DEF Image, Order, NewVector, Boots, Places, ProbeTypeOK
  <2>2. test[1] <= 3 => vector' = Imem(0)
    BY MyPhase, MyId DEF Image, Order, NewVector, Boots
  <2>. QED
    BY <1>1, <2>1, <2>2 DEF Image, Own, Waiting
<1>5. Memory'
  BY <1>1, MyPhase DEF Memory, Own, Waiting
<1>6. Verdict'
  BY <1>1, MyPhase DEF Verdict, Waiting, AllExpected, Expected
<1>. QED
  BY <1>2, <1>3, <1>4, <1>5, <1>6

LEMMA Verify_Inv == ASSUME ProbeInv, Verify PROVE ProbeInv'
<1>. USE DEF ProbeInv, Verify, cpu, results
<1>1. P' = P
  BY DEF P
<1>2. ProbeTypeOK'
  BY SetType, MyPhase DEF ProbeTypeOK, Stands, Boots
<1>3. Order'
  BY <1>1, MyPhase, MyId DEF Order, Own, Waiting, Boots
<1>4. Image'
  BY <1>1, MyPhase DEF Image, Own, Waiting, Boots
<1>5. Memory'
  <2>1. test # <<1, 1>> /\ test # <<1, 2>> /\ ~ Own'
    BY MyId, MyPhase DEF Order, Boots, Own, Waiting
  <2>2. ASSUME NEW l \in Looked(P)
        PROVE  mem'[l] = "clear"
    BY MyPhase DEF Set, Memory
  <2>. QED
    BY <1>1, <2>1, <2>2 DEF Memory
<1>6. Verdict'
  BY <1>1, MyPhase DEF Verdict, Waiting, AllExpected, Expected
<1>. QED
  BY <1>2, <1>3, <1>4, <1>5, <1>6

LEMMA Release_Inv == ASSUME ProbeInv, Release PROVE ProbeInv'
<1>. USE DEF ProbeInv, Release, cpu, results
<1>1. P' = P
  BY DEF P
<1>2. ProbeTypeOK'
  BY MyPhase DEF ProbeTypeOK, Stands, Boots
<1>3. Order'
  <2>1. agent' = test
    BY DEF Image
  <2>. QED
    BY <1>1, <2>1, MyPhase, MyId DEF Order, Own, Waiting, Boots
<1>4. Image'
  BY <1>1, MyPhase DEF Image, Own, Waiting, Boots
<1>5. Memory'
  BY <1>1, MyPhase DEF Memory, Own, Waiting, Looked
<1>6. Verdict'
  BY <1>1, MyPhase DEF Verdict, Waiting, AllExpected, Expected
<1>. QED
  BY <1>2, <1>3, <1>4, <1>5, <1>6

LEMMA Start_Inv == ASSUME ProbeInv, Start PROVE ProbeInv'
<1>. USE DEF ProbeInv, Start, cpu, results
<1>1. P' = P
  BY DEF P
<1>2. ProbeTypeOK'
  BY MyPhase DEF ProbeTypeOK, Stands, Boots
<1>3. Order'
  BY <1>1, MyPhase, MyId DEF Order, Own, Waiting, Boots
<1>4. Image'
  BY <1>1, MyPhase DEF Image, Own, Waiting, Boots
<1>5. Memory'
  BY <1>1, MyPhase DEF Memory, Own, Waiting, Looked, Order
<1>6. Verdict'
  BY <1>1, MyPhase DEF Verdict, Waiting, AllExpected, Expected
<1>. QED
  BY <1>2, <1>3, <1>4, <1>5, <1>6

LEMMA Poll_Inv == ASSUME ProbeInv, Poll PROVE ProbeInv'
<1>. USE DEF ProbeInv, Poll, cpu, results
<1>1. P' = P
  BY DEF P
<1>2. ProbeTypeOK'
  BY StatusType, AfterWaitDoes, PollsAssumption, MyPhase DEF ProbeTypeOK, Stands, Boots, TimedOut
<1>3. Order'
  BY <1>1, AfterWaitDoes, MyPhase, MyId DEF Order, Own, Waiting, Boots
<1>4. Image'
  BY <1>1, AfterWaitDoes, MyPhase DEF Image, Own, Waiting, Boots
<1>5. Memory'
  BY <1>1, AfterWaitDoes, MyPhase DEF Memory, Own, Waiting
<1>6. Verdict'
  BY <1>1, AfterWaitDoes, StatusGood, MyPhase DEF Verdict, Waiting, AllExpected, Expected, Own
<1>. QED
  BY <1>2, <1>3, <1>4, <1>5, <1>6

LEMMA Timeout_Inv == ASSUME ProbeInv, Timeout PROVE ProbeInv'
<1>. USE DEF ProbeInv, Timeout, cpu, results, TimedOut
<1>1. P' = P
  BY DEF P
<1>2. ProbeTypeOK'
  BY AfterWaitDoes, MyPhase DEF ProbeTypeOK, Stands, Boots
<1>3. Order'
  BY <1>1, AfterWaitDoes, MyPhase, MyId DEF Order, Own, Waiting, Boots
<1>4. Image'
  BY <1>1, AfterWaitDoes, MyPhase DEF Image, Own, Waiting, Boots
<1>5. Memory'
  BY <1>1, AfterWaitDoes, MyPhase DEF Memory, Own, Waiting
<1>6. Verdict'
  BY <1>1, AfterWaitDoes, MyPhase DEF Verdict, Waiting, AllExpected, Expected, Own
<1>. QED
  BY <1>2, <1>3, <1>4, <1>5, <1>6

LEMMA Reread_Inv == ASSUME ProbeInv, Reread PROVE ProbeInv'
<1>. USE DEF ProbeInv, Reread, cpu, results
<1>1. P' = P
  BY DEF P
<1>2. ProbeTypeOK'
  BY StatusType, MyPhase DEF ProbeTypeOK, Stands, Boots
<1>3. Order'
  BY <1>1, MyPhase, MyId DEF Order, Own, Waiting, Boots
<1>4. Image'
  BY <1>1, MyPhase DEF Image, Own, Waiting, Boots
<1>5. Memory'
  BY <1>1, MyPhase DEF Memory, Own, Waiting
<1>6. Verdict'
  BY <1>1, StatusGood, MyPhase DEF Verdict, Waiting, AllExpected, Expected, Own
<1>. QED
  BY <1>2, <1>3, <1>4, <1>5, <1>6

LEMMA Collect_Inv == ASSUME ProbeInv, Collect PROVE ProbeInv'
<1>. USE DEF ProbeInv, Collect, cpu, results
<1>1. P' = P
  BY DEF P
<1>2. ProbeTypeOK'
  BY MyPhase DEF ProbeTypeOK, Stands, Boots
<1>3. Order'
  BY <1>1, MyPhase, MyId DEF Order, Own, Waiting, Boots
<1>4. Image'
  BY <1>1, MyPhase DEF Image, Own, Waiting, Boots
<1>5. Memory'
  BY <1>1, MyPhase DEF Memory, Own, Waiting
<1>6. Verdict'
  BY <1>1, MyPhase DEF Verdict, Waiting, AllExpected, Expected
<1>. QED
  BY <1>2, <1>3, <1>4, <1>5, <1>6

LEMMA Judge_Inv == ASSUME ProbeInv, Judge PROVE ProbeInv'
<1>. USE DEF ProbeInv, Judge, cpu, results, Return
<1>1. P' = P
  BY DEF P
<1>2. ProbeTypeOK'
  BY MyPhase DEF ProbeTypeOK, Stands, Boots
<1>3. Order'
  BY <1>1, MyPhase, MyId DEF Order, Own, Waiting, Boots
<1>4. Image'
  BY <1>1, MyPhase DEF Image, Own, Waiting, Boots
<1>5. Memory'
  BY <1>1, MyPhase DEF Memory, Own, Waiting
<1>6. Verdict'
  BY <1>1, MyPhase DEF Verdict, Waiting, AllExpected, Expected
<1>. QED
  BY <1>2, <1>3, <1>4, <1>5, <1>6

LEMMA Prepare_Inv == ASSUME ProbeInv, Prepare PROVE ProbeInv'
<1>. USE DEF ProbeInv, Prepare, cpu, results
<1>1. P' = P
  BY DEF P
<1>2. ProbeTypeOK'
  BY SetType, MyPhase DEF ProbeTypeOK, Stands, Boots
<1>3. Order'
  <2>1. at' = IF test[1] >= 3 THEN "hold" ELSE "clear"
    BY MyPhase DEF Boots
  <2>2. test[1] <= 2 => ~wild'
    <3>1. test[1] <= 2 => PhaseOf(agent).early \cap P.early \cap CodeAreas = {}
      BY MyPhase, MyId DEF Boots
    <3>. QED
      BY <3>1 DEF Order
  <2>. QED
    BY <1>1, <2>1, <2>2, MyPhase, MyId DEF Order, Own, Waiting, Boots
<1>4. Image'
  BY <1>1, MyPhase DEF Image, Own, Waiting, Boots
<1>5. Memory'
  <2>1. at' \in {"hold", "clear"} /\ ~ Own'
    BY DEF Own, Waiting
  <2>2. ASSUME NEW l \in Prepared(test, P)
        PROVE  mem'[l] = "clear"
    BY MyPhase, DmaDst DEF Set, Prepared, Memory
  <2>3. test = <<1, 1>> => mem'[dma_dst] = "clear"
    BY MyPhase, DmaDst DEF Buffers, Set
  <2>. QED
    BY <1>1, <2>1, <2>2, <2>3 DEF Memory
<1>6. Verdict'
  BY <1>1, MyPhase DEF Verdict, Waiting, AllExpected, Expected
<1>. QED
  BY <1>2, <1>3, <1>4, <1>5, <1>6

LEMMA Clear_Inv == ASSUME ProbeInv, Clear PROVE ProbeInv'
<1>. USE DEF ProbeInv, Clear, cpu, results
<1>1. P' = P
  BY DEF P
<1>2. ProbeTypeOK'
  BY SetType, MyPhase DEF ProbeTypeOK, Stands, Boots
<1>3. Order'
  BY <1>1, MyPhase, MyId DEF Order, Own, Waiting, Boots
<1>4. Image'
  BY <1>1, MyPhase DEF Image, Own, Waiting, Boots
<1>5. Memory'
  <2>1. /\ at' \in {"load", "vector", "start"} /\ ~ Own'
        /\ at' = "start" => P.after = {}
    BY MyPhase DEF Own, Waiting, Buffers
  <2>2. ASSUME NEW l \in Looked(P) \ P.after
        PROVE  mem'[l] = "clear"
    <3>1. l \in Locations /\ (l \in P.cleared \/ l \in Prepared(test, P))
      BY MyPhase DEF Looked, Stands, Buffers
    <3>. QED
      BY <3>1 DEF Set, Cleared, Memory
  <2>3. test = <<1, 1>> => mem'[dma_dst] = "clear"
    BY DmaDst DEF Set, Memory
  <2>. QED
    BY <1>1, <2>1, <2>2, <2>3 DEF Memory
<1>6. Verdict'
  BY <1>1, MyPhase DEF Verdict, Waiting, AllExpected, Expected
<1>. QED
  BY <1>2, <1>3, <1>4, <1>5, <1>6

\* The steps of the PL preserve it too: the test's own program stores only before a
\* PASS has been read.
LEMMA StoreResults_Inv == ASSUME ProbeInv, StoreResults PROVE ProbeInv'
<1>. USE DEF ProbeInv, StoreResults, OwnRuns, results
<1>1. P' = P
  BY DEF P
<1>2. PICK wrong \in {{}} \cup {{l} : l \in P.checked} :
          mem' = [l \in Locations |->
                      IF l \in wrong THEN "bad"
                      ELSE IF l \in P.checked \ P.blank THEN "good" ELSE mem[l]]
  OBVIOUS
<1>3. /\ \A l \in Locations \ P.checked : mem'[l] = mem[l]
      /\ \A l \in P.checked : mem'[l] \in {"good", "bad", mem[l]}
  BY <1>2, MyPhase
<1>4. at \in Waiting \cup {"judged"} /\ seen # "good"
  BY <1>1, MyPhase DEF Order, Verdict, Own, Waiting, ProbeTypeOK
<1>5. ProbeTypeOK'
  BY <1>2 DEF ProbeTypeOK
<1>6. Order'
  BY <1>1, MyPhase, MyId DEF Order, Own, Waiting
<1>7. Image'
  BY <1>1 DEF Image, Own, Waiting
<1>8. Memory'
  BY <1>1, <1>3, <1>4, MyPhase, DmaDst DEF Memory, Own, Waiting, Looked, Stands, Buffers
<1>9. Verdict'
  BY <1>1, <1>4 DEF Verdict, Waiting
<1>. QED
  BY <1>5, <1>6, <1>7, <1>8, <1>9

LEMMA StoreStatus_Inv == ASSUME ProbeInv, StoreStatus PROVE ProbeInv'
<1>. USE DEF ProbeInv, StoreStatus, OwnRuns, results
<1>1. P' = P
  BY DEF P
<1>2. PICK s \in {"good", "bad"} : mem' = Set({P.status}, s)
  OBVIOUS
<1>3. /\ P.status \in Locations /\ P.status \notin P.checked
      /\ \A l \in Locations : mem'[l] = IF l = P.status THEN s ELSE mem[l]
  BY <1>2, MyPhase DEF Looked, Stands, Set
<1>4. at \in Waiting \cup {"judged"} /\ seen # "good"
  BY <1>1, MyPhase DEF Order, Verdict, Own, Waiting, ProbeTypeOK
<1>5. ProbeTypeOK'
  BY <1>2, SetType DEF ProbeTypeOK
<1>6. Order'
  BY <1>1, MyPhase, MyId DEF Order, Own, Waiting
<1>7. Image'
  BY <1>1 DEF Image, Own, Waiting
<1>8. Memory'
  <2>1. test = <<1, 1>> => P.status # dma_dst
    BY MyPhase, MyId DEF Buffers, DmaStatus, dma_dst
  <2>. QED
    BY <1>1, <1>3, <1>4, <2>1, MyPhase, DmaDst DEF Memory, Own, Waiting, Looked
<1>9. Verdict'
  BY <1>1, <1>4 DEF Verdict, Waiting
<1>. QED
  BY <1>5, <1>6, <1>7, <1>8, <1>9

\* A program that was left running stores nothing that the test in progress has
\* prepared: its results are in the mailbox, which is cleared under reset, or in a
\* buffer of its own.  The exception, cpu_dma_dst of tests 2 and 11, is harmless since
\* test 3 has held the CPU in between.
LEMMA LateElsewhere ==
    ASSUME ProbeInv, StoreLate
    PROVE  /\ at \in {"hold", "clear"} => LateTouches \cap Prepared(test, P) = {}
           /\ at = "start" => LateTouches \cap Looked(P) = {}
           /\ test[1] # 1
<1>. USE DEF ProbeInv, StoreLate
<1>1. agent \in Ids /\ agent # test /\ Before(agent, test)
  BY DEF Order, ProbeTypeOK
<1>2. PICK i \in 1 .. 21, j \in 1 .. 2 : agent = <<i, j>> /\ (j = 1 \/ i \in {1, 3})
  BY <1>1, IdsAre
<1>3. PICK k \in 1 .. 21, m \in 1 .. 2 : test = <<k, m>> /\ (m = 1 \/ k \in {1, 3})
  BY IdsAre DEF ProbeTypeOK
<1>4. i < k \/ (i = k /\ j < m)
  BY <1>1, <1>2, <1>3 DEF Before
<1>5. PICK q : q = PhaseOf(agent)
  OBVIOUS
<1>6. Boots(agent, q) /\ Buffers(agent, q)
  BY <1>1, <1>5, TableRow DEF Row
<1>7. k # 1
  <2>1. SUFFICES ASSUME k = 1 PROVE FALSE
    OBVIOUS
  <2>2. i = 1 /\ j = 1 /\ m = 2
    BY <1>4, <2>1
  <2>3. answered = "done"
    BY <1>1, <1>2, <1>3, <2>1, <2>2 DEF Order
  <2>4. ~ q.hold
    BY <1>2, <1>6, <2>2 DEF Boots
  <2>. QED
    BY <1>5, <2>3, <2>4
<1>8. ASSUME at \in {"hold", "clear"}, NEW l \in LateTouches, l \in Prepared(test, P)
      PROVE  FALSE
  <2>1. l \in P.early /\ l \in Nat /\ l >= \h3000
    BY <1>3, <1>7, <1>8, MyPhase DEF Prepared, Buffers
  <2>2. CASE wild
    BY <2>1, <2>2 DEF LateTouches, Scratch, Words
  <2>3. CASE ~ wild
    <3>1. l \in q.checked \cup {q.status}
      BY <1>5, <1>8, <2>3 DEF LateTouches
    <3>2. \/ l = dma_dst /\ i = 1
          \/ l = cpu_dma_dst /\ i \in {2, 11}
          \/ l = cpu_ddr_probe /\ i = 12
          \/ l = DdrHighData /\ i = 14
          \/ l = DdrHighAmo /\ i = 16
      BY <1>2, <1>6, <2>1, <3>1 DEF Buffers
    <3>3. /\ l = dma_dst => k = 1
          /\ l = cpu_dma_dst => k \in {2, 11}
          /\ l = cpu_ddr_probe => k = 12
          /\ l = DdrHighData => k = 14
          /\ l = DdrHighAmo => k = 16
      BY <1>3, <2>1, MyPhase DEF Buffers
    <3>4. i = 2 /\ k = 11
      BY <1>3, <1>4, <1>7, <3>2, <3>3
    <3>. QED
      BY <1>1, <1>2, <1>3, <3>4, IdFacts DEF Order
  <2>. QED
    BY <2>2, <2>3
<1>9. ASSUME at = "start", NEW l \in LateTouches, l \in Looked(P)
      PROVE  FALSE
  <2>1. k = 2 /\ i = 1 /\ ~ wild
    BY <1>1, <1>3, <1>4, <1>7, <1>9, MyPhase DEF Order, Boots
  <2>2. l \in {dma_dst, DmaStatus}
    BY <1>2, <1>5, <1>6, <1>9, <2>1 DEF LateTouches, Buffers
  <2>3. l \in P.checked \cup {P.status} /\ l # DmaStatus
    BY <1>3, <1>9, <2>1, MyPhase DEF Looked, Buffers
  <2>4. l # dma_dst
    BY <1>3, <2>1, <2>3, MyPhase
       DEF Buffers, dma_dst, cpu_dma_dst, cpu_ddr_probe, DdrHighData, DdrHighAmo
  <2>. QED
    BY <2>2, <2>3, <2>4
<1>. QED
  BY <1>3, <1>7, <1>8, <1>9

LEMMA StoreLate_Inv == ASSUME ProbeInv, StoreLate PROVE ProbeInv'
<1>. USE DEF ProbeInv, StoreLate, cpu, results
<1>1. P' = P
  BY DEF P
<1>2. \A l \in Locations : l \notin LateTouches => mem'[l] = mem[l]
  BY DEF Set
<1>3. at \in {"prepare", "hold", "clear", "start", "judged"} /\ seen # "good"
  BY DEF Order, Verdict, Own, Waiting, ProbeTypeOK
<1>4. ProbeTypeOK'
  BY SetType DEF ProbeTypeOK
<1>5. Order'
  BY <1>1 DEF Order, Own, Waiting
<1>6. Image'
  BY <1>1 DEF Image, Own, Waiting
<1>7. Memory'
  BY <1>1, <1>2, <1>3, LateElsewhere, MyPhase, MyId, DmaDst DEF Memory, Own, Waiting, Prepared
<1>8. Verdict'
  BY <1>1, <1>3 DEF Verdict, Waiting
<1>. QED
  BY <1>4, <1>5, <1>6, <1>7, <1>8

\* The next phase is a later one.
LEMMA AdvanceForward == ASSUME ProbeTypeOK, Advance PROVE Before(test, test')
<1>1. PICK i \in 1 .. 21, j \in 1 .. 2 : test = <<i, j>>
  BY IdsAre DEF ProbeTypeOK
<1>. QED
  BY <1>1 DEF Advance, Before

LEMMA Advance_Inv == ASSUME ProbeInv, Advance PROVE ProbeInv'
<1>. USE DEF ProbeInv
<1>0. /\ at = "judged" /\ at' = "prepare" /\ fault' = FALSE
      /\ polls' = 0 /\ seen' = "none" /\ errors' = FALSE /\ ok' = FALSE /\ verdict' = "none"
      /\ code' = code /\ held' = held /\ vector' = vector
      /\ agent' = agent /\ wild' = wild /\ answered' = answered
  BY DEF Advance, cpu
<1>1. PICK i \in 1 .. 21, j \in 1 .. 2 : test = <<i, j>> /\ (j = 1 \/ i \in {1, 3})
  BY IdsAre DEF ProbeTypeOK
<1>2. PICK n : n = Len(Tests[test[1]])
  OBVIOUS
<1>3. (i \in {1, 3} /\ n = 2) \/ (i \notin {1, 3} /\ n = 1)
  BY <1>1, <1>2, LengthOf
<1>4. PICK k \in 1 .. 21, m \in 1 .. 2 :
          /\ test' = <<k, m>> /\ (m = 1 \/ k \in {1, 3})
          /\ \/ verdict = "pass" /\ k = i /\ m = 2 /\ j = 1
             \/ k = i + 1 /\ m = 1
  <2>1. CASE verdict = "pass" /\ test[2] < Len(Tests[test[1]]) /\ test' = <<test[1], test[2] + 1>>
    <3>1. j < n
      BY <1>1, <1>2, <2>1
    <3>2. i \in {1, 3} /\ j = 1
      BY <1>3, <3>1
    <3>. QED
      BY <1>1, <2>1, <3>2
  <2>2. CASE test[1] < Len(Tests) /\ test' = <<test[1] + 1, 1>>
    <3>1. i < 21
      BY <1>1, <2>2, TestsAre
    <3>. QED
      BY <1>1, <2>2, <3>1
  <2>. QED
    BY <2>1, <2>2 DEF Advance
<1>5. test' \in Ids /\ test' # test
  BY <1>1, <1>4, IdsAre
<1>6. ProbeTypeOK'
  <2>1. mem' \in [Locations -> {"old", "clear", "good", "bad"}]
    BY DEF ProbeTypeOK, Advance
  <2>2. polls' \in 0 .. Polls
    BY <1>0, PollsAssumption
  <2>. QED
    BY <1>0, <1>5, <2>1, <2>2 DEF ProbeTypeOK
<1>7. Order'
  <2>1. Before(agent, test') /\ agent # test'
    <3>1. Before(test, test')
      BY AdvanceForward
    <3>2. CASE agent = test
      BY <1>5, <3>1, <3>2
    <3>3. CASE Before(agent, test) /\ agent = Nobody
      BY <1>5, <3>3, IdFacts
    <3>4. CASE Before(agent, test) /\ agent \in Ids
      <4>1. PICK a \in 1 .. 21, b \in 1 .. 2 : agent = <<a, b>>
        BY <3>4, IdsAre
      <4>2. a < i \/ (a = i /\ b < j)
        BY <1>1, <3>4, <4>1 DEF Before
      <4>. QED
        BY <1>4, <4>1, <4>2 DEF Before
    <3>. QED
      BY <3>2, <3>3, <3>4 DEF Order, ProbeTypeOK
  <2>2. test'[1] <= 2 => ~held /\ ~wild
    BY <1>1, <1>4 DEF Order
  <2>3. test'[1] > 3 => agent = Nobody \/ agent[1] >= 3
    BY <1>0, <1>1, <1>4 DEF Order
  <2>4. test' = <<1, 2>> => agent = <<1, 1>> /\ answered = "done"
    <3>1. SUFFICES ASSUME test' = <<1, 2>>
                   PROVE  agent = <<1, 1>> /\ answered = "done"
      OBVIOUS
    <3>2. test = <<1, 1>> /\ verdict = "pass"
      BY <1>1, <1>4, <3>1
    <3>3. seen = "good" /\ agent = test
      BY <1>0, <3>2 DEF Order, Own, Verdict
    <3>4. P.status # 0
      BY <3>2, MyPhase DEF Buffers, DmaStatus
    <3>. QED
      BY <3>2, <3>3, <3>4 DEF Verdict
  <2>. QED
    BY <1>0, <1>4, <2>1, <2>2, <2>3, <2>4 DEF Order, Own, Waiting
<1>8. Image'
  BY <1>0, <1>1, <1>4 DEF Image, Own, Waiting
<1>9. Memory'
  <2>1. test' = <<1, 2>> => mem'[dma_dst] = "clear"
    BY <1>0, <1>1, <1>4, DmaDst DEF Memory, Advance
  <2>. QED
    BY <1>0, <1>1, <1>4, <2>1 DEF Memory, Own, Waiting
<1>10. Verdict'
  BY <1>0 DEF Verdict, Waiting
<1>. QED
  BY <1>6, <1>7, <1>8, <1>9, <1>10

-----------------------------------------------------------------------------
(* The theorems.                                                           *)

\* The probe starts with nothing of its own running.
LEMMA ProbeInit_Inv == ASSUME ProbeInit PROVE ProbeInv
<1>. USE DEF ProbeInit
<1>1. test \in Ids /\ test[1] = 1 /\ test # <<1, 2>> /\ agent # test /\ Before(agent, test)
  BY IdsAre DEF Nobody, Before
<1>2. ProbeTypeOK
  <2>1. polls \in 0 .. Polls
    BY PollsAssumption
  <2>2. mem \in [Locations -> {"old", "clear", "good", "bad"}] /\ code \in [Places -> Ids \cup {Nobody}]
    OBVIOUS
  <2>. QED
    BY <1>1, <2>1, <2>2, PlaceLocs DEF ProbeTypeOK
<1>3. Order
  BY <1>1 DEF Order, Own, Waiting
<1>4. Image
  BY DEF Image, Own, Waiting
<1>5. Memory
  BY <1>1 DEF Memory, Own, Waiting
<1>6. Verdict
  BY DEF Verdict, Waiting
<1>. QED
  BY <1>2, <1>3, <1>4, <1>5, <1>6 DEF ProbeInv

LEMMA ProbeStutter_Inv == ASSUME ProbeInv, UNCHANGED probe_vars PROVE ProbeInv'
<1>. USE DEF ProbeInv, probe_vars, cpu, results
<1>1. P' = P
  BY DEF P
<1>2. ProbeTypeOK'
  BY DEF ProbeTypeOK
<1>3. Order'
  BY <1>1 DEF Order, Own, Waiting
<1>4. Image'
  BY <1>1 DEF Image, Own, Waiting
<1>5. Memory'
  BY <1>1 DEF Memory, Own, Waiting
<1>6. Verdict'
  BY <1>1 DEF Verdict, Waiting, AllExpected, Expected
<1>. QED
  BY <1>2, <1>3, <1>4, <1>5, <1>6

\* Whatever the core does, the words the test in progress looks at are its own, and
\* what the PS has made of them still holds.
THEOREM ProbeInvariant == ProbeSpec => []ProbeInv
<1>1. ProbeInit => ProbeInv
  BY ProbeInit_Inv
<1>2. ProbeInv /\ [ProbeNext]_probe_vars => ProbeInv'
  <2>1. SUFFICES ASSUME ProbeInv, [ProbeNext]_probe_vars PROVE ProbeInv'
    OBVIOUS
  <2>2. CASE MainStep
    BY <2>1, <2>2, GuardReturns_Inv, Prepare_Inv, Hold_Inv, Clear_Inv, Load_Inv, LoadFails_Inv,
       SetVector_Inv, Verify_Inv, Release_Inv, Start_Inv, Poll_Inv, Timeout_Inv, Reread_Inv,
       Collect_Inv, Judge_Inv, Advance_Inv DEF MainStep
  <2>3. CASE PlStep
    BY <2>1, <2>3, StoreResults_Inv, StoreStatus_Inv, StoreLate_Inv DEF PlStep
  <2>4. CASE Idle \/ UNCHANGED probe_vars
    BY <2>1, <2>4, ProbeStutter_Inv DEF Idle
  <2>. QED
    BY <2>1, <2>2, <2>3, <2>4 DEF ProbeNext
<1>. QED
  BY <1>1, <1>2, PTL DEF ProbeSpec

\* No test passes on a word of another test or of a program that was left running, for
\* any bound of the waits.
THEOREM PassesAreEarned == ProbeSpec => []PassIsEarned
<1>1. ProbeInv => PassIsEarned
  <2>1. SUFFICES ASSUME ProbeInv, at = "judged", verdict = "pass"
                 PROVE  /\ agent = test /\ ~wild
                        /\ \A l \in P.checked \ P.blank : mem[l] = "good"
                        /\ P.status # 0 => mem[P.status] = "good"
                        /\ P.verify => ~fault
    BY DEF PassIsEarned
  <2>2. ~errors /\ seen = "good" /\ AllExpected /\ Own
    BY <2>1 DEF ProbeInv, Verdict, Own
  <2>3. agent = test /\ ~wild
    BY <2>1, <2>2 DEF ProbeInv, Order
  <2>4. ASSUME NEW l \in P.checked \ P.blank
        PROVE  mem[l] = "good"
    BY <2>1, <2>2 DEF ProbeInv, Memory, Looked, AllExpected, Expected
  <2>5. P.status # 0 => mem[P.status] = "good"
    BY <2>1, <2>2 DEF ProbeInv, Verdict
  <2>6. P.verify => ~fault
    BY <2>1, <2>2 DEF ProbeInv, Image
  <2>. QED
    BY <2>3, <2>4, <2>5, <2>6
<1>. QED
  BY <1>1, ProbeInvariant, PTL

\* A test whose program has answered PASS, in time or at the second look, fails only
\* if a result is wrong.
THEOREM FailsAreDeserved == ProbeSpec => []FailIsDeserved
<1>1. ProbeInv => FailIsDeserved
  BY DEF ProbeInv, Verdict, AllExpected, FailIsDeserved
<1>. QED
  BY <1>1, ProbeInvariant, PTL

\* After any mixture of failed loads and of programs in IMEM and DDR a test waits for
\* its own program.
THEOREM TestsWaitForThemselves == ProbeSpec => []WaitsForItself
<1>1. ProbeInv => WaitsForItself
  BY DEF ProbeInv, Order, Own, Waiting, WaitsForItself
<1>. QED
  BY <1>1, ProbeInvariant, PTL

\* The safety half of ProbeEnds: main comes to its end in a bounded number of steps of
\* the PS, since none of them goes back and a wait has at most Polls reads.
THEOREM MainMovesOn == ProbeSpec => [][MovesOn]_probe_vars
<1>1. ProbeInv /\ [ProbeNext]_probe_vars => [MovesOn]_probe_vars
  <2>1. SUFFICES ASSUME ProbeInv, MainStep PROVE Further
    BY DEF MovesOn
  <2>2. ProbeTypeOK
    BY <2>1 DEF ProbeInv
  <2>3. CASE GuardReturns \/ Prepare \/ Hold \/ Clear \/ Load \/ LoadFails \/ SetVector
    BY <2>3 DEF GuardReturns, Prepare, Hold, Clear, Load, LoadFails, SetVector,
       Return, Further, Stage
  <2>4. CASE Verify \/ Release \/ Start \/ Reread \/ Collect \/ Judge
    <3>1. CASE Verify \/ Release \/ Start
      BY <3>1 DEF Verify, Release, Start, Further, Stage
    <3>2. CASE Reread
      BY <3>2 DEF Reread, Further, Stage
    <3>4. CASE Collect
      <4>1. test' = test /\ at = "collect" /\ at' = "judge"
        BY <3>4 DEF Collect
      <4>. QED
        BY <4>1 DEF Further, Stage
    <3>3. CASE Judge
      BY <3>3 DEF Judge, Return, Further, Stage
    <3>. QED
      BY <2>4, <3>1, <3>2, <3>3, <3>4
  <2>5. CASE Poll
    <3>1. polls + 1 \in 0 .. Polls /\ polls < polls + 1
      BY <2>2, <2>5, PollsAssumption DEF Poll, TimedOut, ProbeTypeOK
    <3>. QED
      BY <2>5, <3>1, AfterWaitDoes DEF Poll, Further, Stage
  <2>6. CASE Timeout
    BY <2>6, AfterWaitDoes DEF Timeout, Further, Stage
  <2>7. CASE Advance
    BY <2>2, <2>7, AdvanceForward DEF Further
  <2>. QED
    BY <2>1, <2>3, <2>4, <2>5, <2>6, <2>7 DEF MainStep
<1>. QED
  BY <1>1, ProbeInvariant, PTL DEF ProbeSpec
=============================================================================
