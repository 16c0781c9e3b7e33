---------------------------- MODULE DdrFrontEnd ----------------------------
(***************************************************************************)
(* The DDR memory front end of the SoC (rtl/soc/zx32_soc.sv): the shared   *)
(* data bus on which the PS host preempts the core, the direct-mapped      *)
(* instruction and data caches, the next-line prefetcher, the owner        *)
(* register that attributes the bridge's answers, and the GPU port.        *)
(*                                                                         *)
(* The model is cycle accurate: one step is one clock edge, the            *)
(* definitions below "Combinational signals" are the RTL's assigns, and    *)
(* each action after them is the next value of one register.               *)
(*                                                                         *)
(* A cache is the set of the word addresses it holds (valid bit, tag and   *)
(* index together) and the subset whose data is not the DDR's any more.    *)
(***************************************************************************)
EXTENDS AxiBridge

CONSTANTS
  ISets, DSets,      \* lines of the I-cache and of the D-cache
  VramLine,          \* first line of the uncached VRAM window
  FetchWords,        \* words the core may fetch,
  LoadWords,         \*   load
  StoreWords,        \*   and store
  GpuReads, GpuWrites,  \* words the GPU may read and write
  HostMax,           \* bound on the number of host accesses
  ResetAnytime       \* may the PS assert cpu_reset_req while DDR is busy?

ASSUME FrontEndAssumption ==
  /\ ISets \in Nat \ {0} /\ DSets \in Nat \ {0}
  /\ VramLine \in 1 .. NLines - 1
  /\ FetchWords \subseteq Words /\ LoadWords \subseteq Words
  /\ StoreWords \subseteq Words
  /\ GpuReads \subseteq Words /\ GpuWrites \subseteq Words
  /\ HostMax \in Nat
  /\ ResetAnytime \in BOOLEAN

VARIABLES
  core,      \* the core's outstanding request
  reply,     \* what the last clock edge gave the core
  host,      \* the PS access on the shared bus
  hostLeft,  \* accesses the host may still start
  gpu,       \* the GPU's request port
  reset,     \* cpu_reset_req
  icached, istale, imiss, irefill,
  dcached, dstale, dmiss, drefill, dresp,
  lastLine,  \* dcache_last_read_line_valid and _addr
  pf,        \* dcache_prefetch_valid, _inflight and _addr
  gpuq,      \* gpu_ddr_inflight and the latched GPU request
  owner      \* ddr_owner_valid_q, ddr_owner_q, _addr_q and _we_q

socVars == <<icached, istale, imiss, irefill, dcached, dstale, dmiss, drefill,
             dresp, lastLine, pf, gpuq, owner>>
vars == <<br, core, reply, host, hostLeft, gpu, reset, socVars>>
-----------------------------------------------------------------------------
(* State.                                                                  *)

NoWord == <<0, 0>>
NoLine == NLines

CoreOp  == {"none", "fetch", "load", "store", "mmio"}
Request == [op : CoreOp, word : Words]
NoRequest == [op |-> "none", word |-> NoWord]

Reply == [op : CoreOp, word : Words, data : Data]
NoReply == [op |-> "none", word |-> NoWord, data |-> ZeroData]

(* A host access is to the CTRL block (its accept cycle), to another       *)
(* device, or to the BRAM; the AXI-Lite aperture does not reach DDR.       *)
HostOp == {"none", "ctrl", "mmio", "bram"}

GpuRequest == [valid : BOOLEAN, we : BOOLEAN, word : Words]
NoGpu == [valid |-> FALSE, we |-> FALSE, word |-> NoWord]

IMiss == [valid : BOOLEAN, line : Lines, off : Offsets]
NoIMiss == [valid |-> FALSE, line |-> 0, off |-> 0]
DMiss == [valid : BOOLEAN, line : Lines, off : Offsets, stream : BOOLEAN]
NoDMiss == [valid |-> FALSE, line |-> 0, off |-> 0, stream |-> FALSE]
DResp == [valid : BOOLEAN, data : Data]
NoDResp == [valid |-> FALSE, data |-> ZeroData]
Prefetch == [valid : BOOLEAN, inflight : BOOLEAN, line : Lines]
NoPrefetch == [valid |-> FALSE, inflight |-> FALSE, line |-> 0]
GpuInflight == [inflight : BOOLEAN, we : BOOLEAN, word : Words]
NoGpuInflight == [inflight |-> FALSE, we |-> FALSE, word |-> NoWord]

OwnerName == {"NONE", "GPU", "DCACHE", "DMEM", "ICACHE", "PREFETCH"}
Owner == [valid : BOOLEAN, who : OwnerName, word : Words, we : BOOLEAN]
NoOwner == [valid |-> FALSE, who |-> "NONE", word |-> NoWord, we |-> FALSE]

TypeOK ==
  /\ br \in Bridge
  /\ core \in Request /\ reply \in Reply
  /\ host \in HostOp /\ hostLeft \in 0 .. HostMax
  /\ gpu \in GpuRequest
  /\ reset \in BOOLEAN
  /\ icached \subseteq Words /\ istale \subseteq Words
  /\ dcached \subseteq Words /\ dstale \subseteq Words
  /\ imiss \in IMiss /\ irefill \in Data
  /\ dmiss \in DMiss /\ drefill \in Data /\ dresp \in DResp
  /\ lastLine \in Lines \cup {NoLine}
  /\ pf \in Prefetch
  /\ gpuq \in GpuInflight
  /\ owner \in Owner

SocInit ==
  /\ icached = {} /\ istale = {} /\ imiss = NoIMiss /\ irefill = ZeroData
  /\ dcached = {} /\ dstale = {} /\ dmiss = NoDMiss /\ drefill = ZeroData
  /\ dresp = NoDResp
  /\ lastLine = NoLine
  /\ pf = NoPrefetch
  /\ gpuq = NoGpuInflight
  /\ owner = NoOwner

Init ==
  /\ br = IdleBridge
  /\ core = NoRequest /\ reply = NoReply
  /\ host = "none" /\ hostLeft = HostMax
  /\ gpu = NoGpu
  /\ reset = FALSE
  /\ SocInit
-----------------------------------------------------------------------------
(* Combinational signals.                                                  *)

host_valid == host # "none"
Vram(w) == w[1] >= VramLine

(* The host preempts the core's data access on the shared bus.             *)
bus_ddr_raw_selected == ~host_valid /\ core.op \in {"load", "store"}
dmem_ddr_read_selected == bus_ddr_raw_selected /\ core.op = "load"
dmem_ddr_cacheable_read == dmem_ddr_read_selected /\ ~Vram(core.word)

dcache_check_active == dmem_ddr_cacheable_read /\ ~dresp.valid /\ ~dmiss.valid
dcache_lookup_hit == dcache_check_active /\ core.word \in dcached
dcache_lookup_miss == dcache_check_active /\ core.word \notin dcached
dcache_stream_miss == lastLine # NoLine /\ core.word[1] = lastLine + 1

ddr_valid ==
  \/ dmiss.valid
  \/ /\ bus_ddr_raw_selected
     /\ ~dcache_check_active
     /\ ~(dmem_ddr_read_selected /\ dresp.valid)

imem_ddr_raw_selected ==
  ~bus_ddr_raw_selected /\ ~imiss.valid /\ core.op = "fetch"
icache_hit == imem_ddr_raw_selected /\ core.word \in icached
icache_miss_start == imem_ddr_raw_selected /\ core.word \notin icached
imem_ddr_selected == imiss.valid \/ icache_miss_start

dcache_prefetch_hit == pf.valid /\ <<pf.line, 0>> \in dcached
dcache_prefetch_active ==
  /\ pf.valid /\ ~dcache_prefetch_hit /\ ~pf.inflight
  /\ ~dmiss.valid /\ ~ddr_valid /\ ~imem_ddr_selected

(* Mutant: the GPU does not wait for the transaction in flight.            *)
gpu_ddr_start_ignores_owner ==
  /\ gpu.valid /\ ~gpuq.inflight
  /\ ~dmiss.valid /\ ~ddr_valid /\ ~imem_ddr_selected
  /\ ~dcache_prefetch_active /\ ~pf.inflight

gpu_ddr_start ==
  /\ gpu.valid /\ ~gpuq.inflight /\ ~owner.valid
  /\ ~dmiss.valid /\ ~ddr_valid /\ ~imem_ddr_selected
  /\ ~dcache_prefetch_active /\ ~pf.inflight
gpu_ddr_active == gpuq.inflight \/ gpu_ddr_start

ddr_req_valid ==
  \/ owner.valid \/ gpu_ddr_active \/ ddr_valid \/ imem_ddr_selected
  \/ dcache_prefetch_active \/ pf.inflight

ddr_owner_next ==
  CASE gpu_ddr_active    -> "GPU"
    [] ~gpu_ddr_active /\ dmiss.valid -> "DCACHE"
    [] ~gpu_ddr_active /\ ~dmiss.valid /\ ddr_valid -> "DMEM"
    [] ~gpu_ddr_active /\ ~ddr_valid /\ imem_ddr_selected -> "ICACHE"
    [] ~gpu_ddr_active /\ ~ddr_valid /\ ~imem_ddr_selected
         /\ (dcache_prefetch_active \/ pf.inflight) -> "PREFETCH"
    [] OTHER -> "NONE"

ddr_req_we ==
  IF gpu_ddr_active
  THEN IF gpuq.inflight THEN gpuq.we ELSE gpu.we
  ELSE ~dmiss.valid /\ ddr_valid /\ core.op = "store"

(* Mutant: a fetch miss is not aligned to its line.                        *)
ddr_req_word_unaligned ==
  CASE gpuq.inflight -> gpuq.word
    [] ~gpuq.inflight /\ gpu_ddr_start -> gpu.word
    [] ~gpu_ddr_active /\ dmiss.valid -> <<dmiss.line, 0>>
    [] ~gpu_ddr_active /\ ~dmiss.valid /\ ddr_valid -> core.word
    [] ~gpu_ddr_active /\ ~ddr_valid /\ imem_ddr_selected -> core.word
    [] OTHER -> <<pf.line, 0>>

ddr_req_word ==
  CASE gpuq.inflight -> gpuq.word
    [] ~gpuq.inflight /\ gpu_ddr_start -> gpu.word
    [] ~gpu_ddr_active /\ dmiss.valid -> <<dmiss.line, 0>>
    [] ~gpu_ddr_active /\ ~dmiss.valid /\ ddr_valid -> core.word
    [] ~gpu_ddr_active /\ ~ddr_valid /\ imiss.valid -> <<imiss.line, 0>>
    [] ~gpu_ddr_active /\ ~ddr_valid /\ ~imiss.valid /\ imem_ddr_selected
         -> <<core.word[1], 0>>
    [] OTHER -> <<pf.line, 0>>

ddr_req_read_beats ==
  IF /\ ~gpu_ddr_active
     /\ dmiss.valid \/ imiss.valid \/ icache_miss_start \/ dcache_prefetch_active
  THEN LineWords ELSE 1

ddr_req == [valid |-> ddr_req_valid, we |-> ddr_req_we,
            word |-> ddr_req_word, beats |-> ddr_req_read_beats]

(* Mutants: the core takes the end of a prefetch, or of a GPU transaction, *)
(* for its own.                                                            *)
ddr_ready_for_demand_with_prefetch ==
  ddr_ready /\ ~(owner.valid /\ owner.who = "GPU") /\ ~gpuq.inflight
ddr_ready_for_demand_with_gpu == ddr_ready /\ ~pf.inflight

ddr_ready_for_demand ==
  /\ ddr_ready
  /\ ~(owner.valid /\ owner.who = "GPU")
  /\ ~pf.inflight /\ ~gpuq.inflight

From(who) == owner.valid /\ owner.who = who
(* Mutant: the GPU takes any answer of the bridge.                         *)
gpu_ddr_ready_any == ddr_ready

gpu_ddr_ready == ddr_ready /\ gpuq.inflight

(* The transaction of this owner ends in this cycle.                       *)
Completes(who) == ddr_req_valid /\ ddr_ready /\ From(who)
(* Mutant: the GPU's writes do not invalidate.                             *)
WriteCompletes_dmem_only ==
  ddr_req_valid /\ ddr_ready /\ From("DMEM") /\ owner.we

WriteCompletes ==
  ddr_req_valid /\ ddr_ready /\ (From("DMEM") \/ From("GPU")) /\ owner.we
-----------------------------------------------------------------------------
(* The answers the three masters see in this cycle; dev is the ready of    *)
(* the device a non-DDR access selects.                                    *)

FetchAck == core.op = "fetch" /\ (icache_hit \/ (imem_ddr_selected /\ ddr_ready_for_demand))
FetchData == IF icache_hit
             THEN [from |-> core.word, stale |-> core.word \in istale]
             ELSE irefill

DmemAck(dev) ==
  /\ ~host_valid
  /\ \/ core.op \in {"load", "store", "mmio"} /\ dresp.valid
     \/ core.op = "mmio" /\ ~dresp.valid /\ ~dmiss.valid /\ dev
     \/ /\ core.op \in {"load", "store"} /\ ~dresp.valid
        /\ ~dcache_check_active /\ ~dmiss.valid
        /\ ddr_ready_for_demand
DmemData == IF dresp.valid THEN dresp.data ELSE br.data

CoreAck(dev) == FetchAck \/ DmemAck(dev)
CoreData == IF core.op = "fetch" THEN FetchData ELSE DmemData

HostAck(dev) ==
  /\ dev
  /\ \/ host = "bram"
     \/ host = "mmio" /\ ~dmiss.valid
-----------------------------------------------------------------------------
(* The masters.                                                            *)

CoreRequests ==
  [op : {"fetch"}, word : FetchWords] \cup [op : {"load"}, word : LoadWords]
    \cup [op : {"store"}, word : StoreWords] \cup {[op |-> "mmio", word |-> NoWord]}

(* The core holds a request until it is answered and issues one at a time. *)
(* What may follow without a gap: the store of sc.w or xcpyw its load; any *)
(* access the store of a page-table entry's A/D bits, for which it was     *)
(* translated; and the DataMover instructions chain their accesses.        *)
Follows(op) ==
  CASE op = "fetch" -> {}
    [] op = "load"  -> {r \in CoreRequests : r.op \in {"store", "mmio"}}
    [] OTHER        -> CoreRequests

CoreStep(dev) ==
  \/ /\ reset
     /\ core' = NoRequest /\ reply' = NoReply
  \/ /\ ~reset /\ core.op = "none"
     /\ core' \in {NoRequest} \cup CoreRequests
     /\ reply' = NoReply
  \/ /\ ~reset /\ core.op # "none" /\ ~CoreAck(dev)
     /\ UNCHANGED core
     /\ reply' = NoReply
  \/ /\ ~reset /\ core.op # "none" /\ CoreAck(dev)
     /\ core' \in {NoRequest} \cup Follows(core.op)
     /\ reply' = [op |-> core.op, word |-> core.word, data |-> CoreData]

(* A host access holds the bus until it is ready; a CTRL write takes       *)
(* effect in the first cycle of its access and is ready in the next.       *)
HostStep(dev) ==
  \/ /\ host = "none" /\ UNCHANGED <<host, hostLeft, reset>>
  \/ /\ host = "none" /\ hostLeft > 0
     /\ host' \in {"ctrl", "mmio", "bram"}
     /\ hostLeft' = hostLeft - 1
     /\ UNCHANGED reset
  \/ /\ host = "ctrl" /\ host' = "mmio"
     /\ reset' \in BOOLEAN
     /\ UNCHANGED hostLeft
  \/ /\ host \in {"mmio", "bram"} /\ ~HostAck(dev)
     /\ UNCHANGED <<host, hostLeft, reset>>
  \/ /\ host \in {"mmio", "bram"} /\ HostAck(dev)
     /\ host' = "none"
     /\ UNCHANGED <<hostLeft, reset>>

(* The GPU holds a request until it is answered, and may have the next one *)
(* ready at once.                                                          *)
GpuRequests ==
  [valid : {TRUE}, we : {FALSE}, word : GpuReads] \cup
  [valid : {TRUE}, we : {TRUE}, word : GpuWrites]
GpuStep ==
  \/ /\ gpu.valid /\ ~gpu_ddr_ready
     /\ UNCHANGED gpu
  \/ /\ ~gpu.valid \/ gpu_ddr_ready
     /\ gpu' \in {NoGpu} \cup GpuRequests

(* Unless ResetAnytime, the PS holds the CPU in reset only once it is      *)
(* parked in a BRAM loop and the GPU has drained.                          *)
ResetDiscipline ==
  ~ResetAnytime /\ reset' =>
    br'.st = "IDLE" /\ core'.op = "none" /\ ~gpu'.valid /\ ~pf'.valid
-----------------------------------------------------------------------------
(* The registers of the front end.                                         *)

SameSet(a, b, sets) == a[1] % sets = b[1] % sets /\ a[2] = b[2]
Evicted(cached, w, sets) == {x \in cached : SameSet(x, w, sets)}

(* The word the front end files a beat under: the line it is refilling and *)
(* the beat's index.                                                       *)
FillWord(line) == <<line, br.beat>>

(* A fill replaces the word of the same index.                             *)
Filled(cached, w, sets) == (cached \ Evicted(cached, w, sets)) \cup {w}

(* Copies of a word that the DDR is overwriting in this cycle are out of   *)
(* date from here on.                                                      *)
Touch(d, wr) == [d EXCEPT !.stale = @ \/ (wr /\ d.from = br.word)]

(* Staleness of the cached data: fills bring in the sampled word (out of   *)
(* date at once if it is filed under another address), writes outdate.     *)
NextStale(stale, fill, w, wr) ==
  {x \in Words : IF fill /\ x = w THEN BeatWord # w
                 ELSE x \in stale \/ (wr /\ x = br.word)}

icache_refill(go) == ReadBeatValid(go) /\ From("ICACHE")
dcache_refill(go) == ReadBeatValid(go) /\ (From("DCACHE") \/ From("PREFETCH"))
dcache_fill_line == IF From("DCACHE") THEN dmiss.line ELSE pf.line

IcacheStep(go, wr) ==
  LET w == FillWord(imiss.line)
      filled == IF icache_refill(go) THEN Filled(icached, w, ISets) ELSE icached
  IN  /\ icached' = IF WriteCompletes
                    THEN filled \ Evicted(filled, owner.word, ISets)
                    ELSE filled
      /\ istale' = icached' \cap NextStale(istale, icache_refill(go), w, wr)

DcacheStep(go, wr) ==
  LET w == FillWord(dcache_fill_line)
      filled == IF dcache_refill(go) THEN Filled(dcached, w, DSets) ELSE dcached
  IN  /\ dcached' = IF WriteCompletes
                    THEN filled \ Evicted(filled, owner.word, DSets)
                    ELSE filled
      /\ dstale' = dcached' \cap NextStale(dstale, dcache_refill(go), w, wr)

(* icache_miss_*: the start of a miss, its end, and a write, which makes   *)
(* the fetch look the cache up again.                                      *)
ImissStep ==
  imiss' = IF WriteCompletes \/ Completes("ICACHE") THEN NoIMiss
           ELSE IF icache_miss_start
           THEN [valid |-> TRUE, line |-> core.word[1], off |-> core.word[2]]
           ELSE imiss

IrefillStep(go, wr) ==
  irefill' = IF icache_refill(go) /\ br.beat = imiss.off THEN Sampled(BeatWord)
             ELSE IF icache_miss_start THEN ZeroData
             ELSE Touch(irefill, wr)

(* Mutant: the end of a refill does not clear the miss.                    *)
DmissStep_sticky ==
  dmiss' = IF WriteCompletes THEN NoDMiss
           ELSE IF dcache_lookup_miss
           THEN [valid |-> TRUE, line |-> core.word[1], off |-> core.word[2],
                 stream |-> dcache_stream_miss]
           ELSE dmiss

DmissStep ==
  dmiss' = IF WriteCompletes \/ Completes("DCACHE") THEN NoDMiss
           ELSE IF dcache_lookup_miss
           THEN [valid |-> TRUE, line |-> core.word[1], off |-> core.word[2],
                 stream |-> dcache_stream_miss]
           ELSE dmiss

DrefillStep(go, wr) ==
  drefill' = IF /\ ReadBeatValid(go) /\ From("DCACHE")
                /\ br.beat = dmiss.off
             THEN Sampled(BeatWord)
             ELSE IF dcache_lookup_miss THEN ZeroData
             ELSE Touch(drefill, wr)

(* dcache_resp_*: set by a hit and by the end of a refill, taken by the    *)
(* core, dropped when a write completes.                                   *)
DrespStep(wr) ==
  dresp' = IF WriteCompletes THEN NoDResp
           ELSE IF Completes("DCACHE") THEN [valid |-> TRUE, data |-> drefill]
           ELSE IF dcache_lookup_hit
           THEN [valid |-> TRUE,
                 data |-> Touch([from |-> core.word, stale |-> core.word \in dstale], wr)]
           ELSE IF ~host_valid /\ core.op \in {"load", "store", "mmio"} /\ ~dcache_check_active
           THEN NoDResp
           ELSE [dresp EXCEPT !.data = Touch(@, wr)]

LastLineStep ==
  lastLine' = IF dcache_check_active THEN core.word[1] ELSE lastLine

(* Mutant: the end of a prefetch does not clear dcache_prefetch_inflight.  *)
PrefetchStep_sticky ==
  LET dropped == dcache_lookup_miss \/ dcache_prefetch_hit
      next ==
        IF WriteCompletes THEN NoPrefetch
        ELSE IF Completes("DCACHE") /\ dmiss.stream /\ dmiss.line < VramLine
             THEN [valid |-> TRUE, inflight |-> FALSE, line |-> dmiss.line + 1]
        ELSE [pf EXCEPT !.valid = @ /\ ~dropped,
                        !.inflight = @ \/ (~(ddr_req_valid /\ ddr_ready)
                                           /\ dcache_prefetch_active)]
  IN  pf' = IF next.valid \/ next.inflight THEN next ELSE NoPrefetch

(* dcache_prefetch_*: armed at the end of a sequential refill outside VRAM.*)
PrefetchStep ==
  LET dropped == dcache_lookup_miss \/ dcache_prefetch_hit
      next ==
        IF WriteCompletes \/ Completes("PREFETCH") THEN NoPrefetch
        ELSE IF Completes("DCACHE") /\ dmiss.stream /\ dmiss.line < VramLine
             THEN [valid |-> TRUE, inflight |-> FALSE, line |-> dmiss.line + 1]
        ELSE [pf EXCEPT !.valid = @ /\ ~dropped,
                        !.inflight = @ \/ (~(ddr_req_valid /\ ddr_ready)
                                           /\ dcache_prefetch_active)]
  IN  pf' = IF next.valid \/ next.inflight THEN next ELSE NoPrefetch

(* Mutant: the answer does not clear gpu_ddr_inflight.                     *)
GpuqStep_sticky ==
  gpuq' = IF gpu_ddr_start
          THEN [inflight |-> TRUE, we |-> gpu.we, word |-> gpu.word]
          ELSE gpuq

GpuqStep ==
  gpuq' = IF gpuq.inflight /\ ddr_ready THEN NoGpuInflight
          ELSE IF gpu_ddr_start
          THEN [inflight |-> TRUE, we |-> gpu.we, word |-> gpu.word]
          ELSE gpuq

OwnerStep ==
  owner' = IF owner.valid /\ ddr_ready THEN NoOwner
           ELSE IF ~owner.valid /\ ddr_req_valid
           THEN [valid |-> TRUE, who |-> ddr_owner_next,
                 word |-> ddr_req_word, we |-> ddr_req_we]
           ELSE owner

(* cpu_reset_req clears the front end but not the bridge.                  *)
SocReset ==
  /\ icached' = {} /\ istale' = {} /\ imiss' = NoIMiss /\ irefill' = ZeroData
  /\ dcached' = {} /\ dstale' = {} /\ dmiss' = NoDMiss /\ drefill' = ZeroData
  /\ dresp' = NoDResp
  /\ lastLine' = NoLine
  /\ pf' = NoPrefetch
  /\ gpuq' = NoGpuInflight
  /\ owner' = NoOwner

SocStep(go, wr) ==
  \/ reset /\ SocReset
  \/ /\ ~reset
     /\ IcacheStep(go, wr) /\ ImissStep /\ IrefillStep(go, wr)
     /\ DcacheStep(go, wr) /\ DmissStep /\ DrefillStep(go, wr) /\ DrespStep(wr)
     /\ LastLineStep /\ PrefetchStep
     /\ GpuqStep /\ OwnerStep
-----------------------------------------------------------------------------
(* One clock cycle.                                                        *)
Cycle(go, go2, dev) ==
  /\ BridgeStep(ddr_req, go, go2)
  /\ SocStep(go, Commits(go, go2))
  /\ CoreStep(dev)
  /\ HostStep(dev)
  /\ GpuStep
  /\ ResetDiscipline

Next == \E go, go2, dev \in BOOLEAN : Cycle(go, go2, dev)

Spec == Init /\ [][Next]_vars

(* The clock runs, the DDR answers, and so do the devices.                 *)
FairSpec ==
  /\ Spec
  /\ WF_vars(\E dev \in BOOLEAN : Cycle(TRUE, TRUE, dev))
  /\ WF_vars(\E go, go2 \in BOOLEAN : Cycle(go, go2, TRUE))
-----------------------------------------------------------------------------
(* Properties.                                                             *)

OverwriteInFlight(w) == br.we /\ br.st \in {"WAIT_B", "DONE"} /\ br.word = w

(* A cached word differs from DDR only while the write that changed DDR is *)
(* still being acknowledged: the invalidation of zx32_soc.sv:876-888 comes *)
(* before the writer sees ready, whoever wrote and whatever was refilled   *)
(* or prefetched in between.                                               *)
Coherent == \A w \in icached \cup dcached :
              w \in istale \cup dstale => OverwriteInFlight(w)

(* The owner register names the transaction the bridge is running, with    *)
(* its address and direction, so that beats and completions are filed      *)
(* under the line that was asked for.                                      *)
Attributed ==
  /\ owner.valid <=> br.st # "IDLE"
  /\ owner.valid => owner.word = br.word /\ owner.we = br.we
  /\ pf.inflight <=> From("PREFETCH")
  /\ gpuq.inflight <=> From("GPU")
  /\ From("DCACHE") => dmiss.valid /\ br.word = <<dmiss.line, 0>>
  /\ From("ICACHE") => imiss.valid /\ br.word = <<imiss.line, 0>>
  /\ From("PREFETCH") => br.word = <<pf.line, 0>>
  /\ From("DMEM") => ~dmiss.valid /\ core.word = br.word

(* Every fetch and load the core is given is the word it asked for, and    *)
(* its current value unless a write to it is being acknowledged in this    *)
(* very cycle.                                                             *)
ReadsSeeDdr ==
  [][reply'.op \in {"fetch", "load"} =>
       /\ reply'.data.from = reply'.word
       /\ reply'.data.stale => OverwriteInFlight(reply'.word)]_vars

(* A fetch delivers the word at the fetched address, also when the CPU     *)
(* comes out of reset with its vector in DDR.                              *)
FetchesAreFetched ==
  [][reply'.op = "fetch" => reply'.data.from = reply'.word]_vars

(* A store is acknowledged only when the DDR has taken it.                 *)
StoresReachDdr ==
  [][reply'.op = "store" => br.st = "DONE" /\ br.we /\ br.word = reply'.word]_vars

(* The answer the GPU takes is the answer to the request it is holding.    *)
GpuAnswersMatch ==
  gpu_ddr_ready =>
    /\ gpu.valid /\ br.word = gpu.word /\ br.we = gpu.we
    /\ ~br.we => br.data = Sampled(gpu.word)

(* Whatever the prefetcher, the invalidations and the host's preemption    *)
(* make start over, every access of the core is answered as long as the    *)
(* GPU now and then has no pixel to write.                                 *)
Served == core.op = "none" \/ reply.op # "none"
CoreServed == []<>(~gpu.valid) => (core.op # "none" ~> Served)

(***************************************************************************)
(* The inductive invariant.  Attributed and Coherent are not inductive by  *)
(* themselves: they need what the bridge has latched, why a miss register  *)
(* is set and which data a refill has captured.                            *)
(***************************************************************************)

(* The bridge goes through a transaction of the latched direction, and a   *)
(* burst stays within its line.                                            *)
BridgeOK ==
  /\ br.st \in {"WAIT_AW_W", "WAIT_B"} => br.we
  /\ br.st \in {"WAIT_AR", "WAIT_R"} => ~br.we
  /\ br.beat < br.beats /\ (br.st # "WAIT_R" => br.beat = 0)
  /\ br.beats = 1 \/ br.word[2] = 0
  /\ br.st = "DONE" /\ ~br.we /\ br.beats = 1 => br.data = Sampled(br.word)

(* Which transactions an owner runs.                                       *)
OwnerOK ==
  /\ owner.valid => owner.who # "NONE"
  /\ From("DCACHE") \/ From("ICACHE") \/ From("PREFETCH") =>
       ~br.we /\ br.beats = LineWords
  /\ From("DMEM") =>
       /\ br.beats = 1
       /\ core.op \in {"load", "store"} /\ (br.we <=> core.op = "store")
       /\ core.op = "load" => Vram(core.word)
  /\ From("GPU") =>
       br.beats = 1 /\ gpu.valid /\ br.word = gpu.word /\ (br.we <=> gpu.we)

(* The miss and response registers belong to the access the core waits for.*)
DemandOK ==
  /\ imiss.valid => core.op = "fetch" /\ core.word = <<imiss.line, imiss.off>>
  /\ dmiss.valid => /\ core.op = "load" /\ core.word = <<dmiss.line, dmiss.off>>
                    /\ ~Vram(core.word) /\ ~dresp.valid
  /\ dresp.valid => /\ core.op = "load" /\ ~Vram(core.word)
                    /\ dresp.data.from = core.word
                    /\ dresp.data.stale => OverwriteInFlight(core.word)

(* The critical word of a refill has been captured once it has passed.     *)
Captured(off) == br.st = "DONE" \/ (br.st = "WAIT_R" /\ br.beat > off)
RefillOK ==
  /\ From("ICACHE") /\ Captured(imiss.off) => irefill = Sampled(core.word)
  /\ From("DCACHE") /\ Captured(dmiss.off) => drefill = Sampled(core.word)

(* An armed prefetch starts in the very next cycle.                        *)
PrefetchOK == pf.valid /\ ~pf.inflight => dresp.valid /\ ~owner.valid

ResetOK ==
  reset => br.st = "IDLE" /\ core.op = "none" /\ ~gpu.valid /\ ~pf.valid

IInv ==
  /\ TypeOK /\ BridgeOK /\ Attributed /\ OwnerOK /\ DemandOK /\ RefillOK
  /\ PrefetchOK /\ ResetOK /\ Coherent

(* The host's access ends although a D-cache refill withholds its ready.   *)
HostServed == host # "none" ~> host = "none"

(* The GPU's access ends although it starts only when nobody else wants    *)
(* the DDR, as long as the core now and then does not: at least two cycles *)
(* of every instruction (ST_DECODE and ST_EXECUTE), which CoreStep leaves  *)
(* open.                                                                   *)
GpuServed == []<>(core.op \in {"none", "mmio"}) => (gpu.valid ~> (gpu_ddr_ready \/ reset))

=============================================================================
