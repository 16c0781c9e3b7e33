------------------------ MODULE DdrFrontEnd_proofs ------------------------
(***************************************************************************)
(* Proofs about the DDR front end, for caches, lines and address sets of   *)
(* any size.                                                               *)
(***************************************************************************)
EXTENDS DdrFrontEnd, TLAPS

USE BridgeAssumption, FrontEndAssumption

(* The request the front end presents is a well-formed one.                *)
LEMMA RequestType ==
  ASSUME TypeOK
  PROVE  /\ ddr_req_word \in Words
         /\ ddr_req_read_beats \in 1 .. LineWords
         /\ ddr_req_we \in BOOLEAN /\ ddr_req_valid \in BOOLEAN
         /\ ddr_owner_next \in OwnerName
  <1>1. ddr_req_word \in Words
    BY DEF TypeOK, ddr_req_word, Words, GpuInflight, GpuRequest, DMiss, IMiss,
           Prefetch, Request, Offsets
  <1>2. ddr_req_read_beats \in 1 .. LineWords
    BY DEF ddr_req_read_beats
  <1>3. ddr_owner_next \in OwnerName
    BY DEF ddr_owner_next, OwnerName
  <1>4. ddr_req_we \in BOOLEAN
    BY DEF ddr_req_we, TypeOK, GpuInflight, GpuRequest
  <1>5. ddr_req_valid \in BOOLEAN
    BY DEF ddr_req_valid
  <1> QED BY <1>1, <1>2, <1>3, <1>4, <1>5

(* A beat of a burst is a word of the line that is read.                   *)
LEMMA BeatType ==
  ASSUME TypeOK, BridgeOK
  PROVE  BeatWord \in Words /\ Sampled(BeatWord) \in Data
  BY DEF TypeOK, BridgeOK, BeatWord, Bridge, Words, Offsets, Lines, Sampled, Data

(* The reset values of the bridge's registers have their types.            *)
LEMMA IdleType == IdleBridge \in Bridge
  BY DEF IdleBridge, Bridge, BridgeState, Words, Lines, Offsets, Data, ZeroData, Zero

(* Every step of the bridge keeps the types of its registers.              *)
LEMMA BridgeType ==
  ASSUME TypeOK, BridgeOK, NEW go \in BOOLEAN, NEW go2 \in BOOLEAN,
         BridgeStep(ddr_req, go, go2)
  PROVE  br' \in Bridge
  <1>1. CASE BridgeIdle(ddr_req)
    BY <1>1, RequestType, IdleType DEF BridgeIdle, ddr_req, TypeOK, Bridge, BridgeState
  <1>2. CASE BridgeWrite(go, go2)
    BY <1>2 DEF BridgeWrite, TypeOK, Bridge, BridgeState
  <1>3. CASE BridgeResponse(go)
    BY <1>3 DEF BridgeResponse, TypeOK, Bridge, BridgeState
  <1>4. CASE BridgeReadAddress(go)
    BY <1>4 DEF BridgeReadAddress, TypeOK, Bridge, BridgeState
  <1>5. CASE BridgeRead(go)
    <2>1. br.beat \in Offsets /\ 0 \in Offsets
      BY DEF TypeOK, Bridge, Offsets
    <2>2. br.beat # br.beats - 1 => br.beat + 1 \in Offsets
      BY DEF TypeOK, BridgeOK, Bridge, Offsets
    <2> QED
      BY <1>5, <2>1, <2>2, BeatType DEF BridgeRead, M_AXI_RLAST, read_final_beat, TypeOK, Bridge, BridgeState
  <1>6. CASE BridgeDone(ddr_req)
    BY <1>6, IdleType DEF BridgeDone, TypeOK
  <1> QED BY <1>1, <1>2, <1>3, <1>4, <1>5, <1>6 DEF BridgeStep

-----------------------------------------------------------------------------
(* The bridge keeps its own discipline.                                    *)
LEMMA RequestBurst ==
  ASSUME TypeOK, DemandOK, ddr_req_valid
  PROVE  ddr_req_read_beats = 1 \/ ddr_req_word[2] = 0
  BY DEF TypeOK, DemandOK, ddr_req_read_beats, ddr_req_word, ddr_valid,
         dcache_prefetch_active, icache_miss_start, imem_ddr_raw_selected,
         bus_ddr_raw_selected, imem_ddr_selected, gpu_ddr_active

(* The state, direction and beat counter of the bridge agree after every   *)
(* step.                                                                   *)
LEMMA BridgeInvariant ==
  ASSUME TypeOK, BridgeOK, DemandOK, NEW go \in BOOLEAN, NEW go2 \in BOOLEAN,
         BridgeStep(ddr_req, go, go2)
  PROVE  BridgeOK'
  <1>1. CASE BridgeIdle(ddr_req)
    <2>1. CASE ddr_req_valid
      <3>1. /\ br'.st = (IF ddr_req_we THEN "WAIT_AW_W" ELSE "WAIT_AR")
            /\ br'.we = ddr_req_we /\ br'.word = ddr_req_word
            /\ br'.beats = ddr_req_read_beats /\ br'.beat = 0
        BY <1>1, <2>1 DEF BridgeIdle, ddr_req, IdleBridge
      <3> QED BY <2>1, <3>1, RequestType, RequestBurst DEF BridgeOK
    <2>2. CASE ~ddr_req_valid
      BY <1>1, <2>2 DEF BridgeIdle, ddr_req, BridgeOK
    <2> QED BY <2>1, <2>2
  <1>2. CASE BridgeWrite(go, go2)
    BY <1>2 DEF BridgeWrite, TypeOK, BridgeOK, Bridge
  <1>3. CASE BridgeResponse(go)
    BY <1>3 DEF BridgeResponse, TypeOK, BridgeOK, Bridge
  <1>4. CASE BridgeReadAddress(go)
    BY <1>4 DEF BridgeReadAddress, TypeOK, BridgeOK, Bridge
  <1>5. CASE BridgeRead(go)
    <2>1. CASE ~go
      BY <1>5, <2>1 DEF BridgeRead, BridgeOK
    <2>2. CASE go /\ ~read_final_beat
      <3>1. /\ br.st = "WAIT_R" /\ br'.st = "WAIT_R" /\ br'.we = br.we /\ br'.word = br.word
            /\ br'.beats = br.beats /\ br'.beat = br.beat + 1
        BY <1>5, <2>2 DEF BridgeRead, TypeOK, Bridge
      <3> QED
        BY <2>2, <3>1 DEF M_AXI_RLAST, read_final_beat, TypeOK, BridgeOK, Bridge, Offsets
    <2>3. CASE go /\ read_final_beat
      <3>1. br.beats = 1 => BeatWord = br.word
        BY <2>3 DEF M_AXI_RLAST, read_final_beat, BeatWord, TypeOK, Bridge, Words, Offsets, Lines
      <3>2. /\ br.st = "WAIT_R" /\ br'.st = "DONE" /\ br'.we = br.we /\ br'.word = br.word
            /\ br'.beats = br.beats /\ br'.beat = 0 /\ br'.data = Sampled(BeatWord)
        BY <1>5, <2>3 DEF BridgeRead, TypeOK, Bridge
      <3> QED
        BY <3>1, <3>2 DEF TypeOK, BridgeOK, Bridge
    <2> QED BY <2>1, <2>2, <2>3
  <1>6. CASE BridgeDone(ddr_req)
    BY <1>6 DEF BridgeDone, TypeOK, BridgeOK, Bridge, IdleBridge
  <1> QED BY <1>1, <1>2, <1>3, <1>4, <1>5, <1>6 DEF BridgeStep
-----------------------------------------------------------------------------
(* Arbitration: with no transaction in flight, who is chosen and for what. *)
LEMMA NothingInFlight ==
  ASSUME IInv, ~owner.valid
  PROVE  /\ br.st = "IDLE" /\ ~ddr_ready /\ ~pf.inflight /\ ~gpuq.inflight
         /\ \A who \in OwnerName : ~From(who) /\ ~Completes(who)
         /\ ~WriteCompletes
  BY DEF IInv, Attributed, From, Completes, WriteCompletes, ddr_ready

(* Whoever is chosen presents the address, the direction and the burst     *)
(* length that OwnerOK records for it.                                     *)
LEMMA Arbitration ==
  ASSUME IInv, ~owner.valid, ddr_req_valid
  PROVE  \/ /\ gpu_ddr_start /\ ddr_owner_next = "GPU" /\ ddr_req_word = gpu.word
            /\ (ddr_req_we <=> gpu.we) /\ ddr_req_read_beats = 1 /\ gpu.valid
            /\ ~dmiss.valid /\ ~imem_ddr_selected /\ ~ddr_valid
            /\ ~dcache_prefetch_active
         \/ /\ ~gpu_ddr_start /\ dmiss.valid /\ ddr_owner_next = "DCACHE"
            /\ ddr_req_word = <<dmiss.line, 0>> /\ ~ddr_req_we
            /\ ddr_req_read_beats = LineWords /\ ~dcache_prefetch_active
         \/ /\ ~gpu_ddr_start /\ ~dmiss.valid /\ ddr_owner_next = "DMEM"
            /\ ddr_req_word = core.word /\ (ddr_req_we <=> core.op = "store")
            /\ ddr_req_read_beats = 1 /\ ~dcache_prefetch_active
            /\ core.op \in {"load", "store"} /\ ~dresp.valid
            /\ core.op = "load" => Vram(core.word)
         \/ /\ ~gpu_ddr_start /\ ~dmiss.valid /\ ddr_owner_next = "ICACHE"
            /\ core.op = "fetch"
            /\ ddr_req_word = <<core.word[1], 0>> /\ ~ddr_req_we
            /\ ddr_req_read_beats = LineWords /\ ~dcache_prefetch_active
            /\ imiss.valid \/ icache_miss_start
         \/ /\ ~gpu_ddr_start /\ ~dmiss.valid /\ ddr_owner_next = "PREFETCH"
            /\ ddr_req_word = <<pf.line, 0>> /\ ~ddr_req_we
            /\ ddr_req_read_beats = LineWords /\ dcache_prefetch_active
            /\ ~imem_ddr_selected
  <1> USE NothingInFlight
  <1>1. CASE gpu_ddr_start
    <2>1. ddr_owner_next = "GPU" /\ ddr_req_word = gpu.word /\ ddr_req_read_beats = 1
      BY <1>1 DEF gpu_ddr_active, ddr_owner_next, ddr_req_word, ddr_req_read_beats
    <2>2. ddr_req_we <=> gpu.we
      BY <1>1 DEF gpu_ddr_active, ddr_req_we
    <2>3. /\ gpu.valid /\ ~dmiss.valid /\ ~imem_ddr_selected /\ ~ddr_valid
          /\ ~dcache_prefetch_active
      BY <1>1 DEF gpu_ddr_start
    <2> QED BY <1>1, <2>1, <2>2, <2>3
  <1>2. CASE ~gpu_ddr_start /\ dmiss.valid
    <2>1. ddr_valid
      BY <1>2 DEF ddr_valid
    <2> QED
      BY <1>2, <2>1 DEF gpu_ddr_active, ddr_owner_next, ddr_req_word, ddr_req_we,
         ddr_req_read_beats, dcache_prefetch_active
  <1>3. CASE ~gpu_ddr_start /\ ~dmiss.valid /\ ddr_valid
    <2>1. /\ core.op \in {"load", "store"} /\ ~dresp.valid
          /\ core.op = "load" => Vram(core.word)
      BY <1>3 DEF ddr_valid, bus_ddr_raw_selected, dcache_check_active, IInv, DemandOK,
         dmem_ddr_cacheable_read, dmem_ddr_read_selected
    <2>2. ~imiss.valid /\ ~icache_miss_start
      BY <2>1 DEF IInv, DemandOK, icache_miss_start, imem_ddr_raw_selected
    <2> QED
      BY <1>3, <2>1, <2>2 DEF gpu_ddr_active, ddr_owner_next, ddr_req_word, ddr_req_we,
         ddr_req_read_beats, dcache_prefetch_active
  <1>4. CASE ~gpu_ddr_start /\ ~ddr_valid /\ imem_ddr_selected
    <2>1. ~dmiss.valid
      BY <1>4 DEF ddr_valid
    <2>2. core.op = "fetch" /\ (imiss.valid \/ icache_miss_start)
      BY <1>4 DEF IInv, DemandOK, imem_ddr_selected, icache_miss_start, imem_ddr_raw_selected
    <2>3. imiss.valid => imiss.line = core.word[1]
      BY DEF IInv, DemandOK
    <2> QED
      BY <1>4, <2>1, <2>2, <2>3 DEF gpu_ddr_active, ddr_owner_next, ddr_req_word, ddr_req_we,
         ddr_req_read_beats, dcache_prefetch_active
  <1>5. CASE ~gpu_ddr_start /\ ~ddr_valid /\ ~imem_ddr_selected
    <2>1. dcache_prefetch_active /\ ~dmiss.valid
      BY <1>5 DEF ddr_req_valid, gpu_ddr_active, ddr_valid
    <2>2. ~imiss.valid /\ ~icache_miss_start
      BY <1>5 DEF imem_ddr_selected
    <2> QED
      BY <1>5, <2>1, <2>2 DEF gpu_ddr_active, ddr_owner_next, ddr_req_word, ddr_req_we,
         ddr_req_read_beats
  <1> QED BY <1>1, <1>2, <1>3, <1>4, <1>5 DEF ddr_valid
-----------------------------------------------------------------------------
(* What one clock edge does to the bridge, by state.                       *)
LEMMA BridgeMoves ==
  ASSUME TypeOK, NEW go \in BOOLEAN, NEW go2 \in BOOLEAN,
         BridgeStep(ddr_req, go, go2)
  PROVE  /\ br.st = "IDLE" /\ ~ddr_req_valid => br' = br
         /\ br.st = "IDLE" /\ ddr_req_valid =>
              /\ br'.st = IF ddr_req_we THEN "WAIT_AW_W" ELSE "WAIT_AR"
              /\ br'.word = ddr_req_word /\ br'.we = ddr_req_we
              /\ br'.beats = ddr_req_read_beats
         /\ br.st \notin {"IDLE", "DONE"} =>
              /\ br'.st # "IDLE" /\ br'.word = br.word
              /\ br'.we = br.we /\ br'.beats = br.beats
         /\ br.st = "WAIT_AW_W" => br'.st = IF Commits(go, go2) THEN "WAIT_B" ELSE "WAIT_AW_W"
         /\ br.st = "WAIT_B" => br'.st \in {"WAIT_B", "DONE"}
         /\ br.st = "WAIT_AR" => br'.st \in {"WAIT_AR", "WAIT_R"} /\ br'.beat = br.beat
         /\ br.st = "WAIT_R" /\ ~go => br' = br
         /\ br.st = "WAIT_R" /\ go =>
              \/ br'.st = "WAIT_R" /\ br'.beat = br.beat + 1 /\ ~read_final_beat
              \/ br'.st = "DONE" /\ read_final_beat
         /\ br.st = "DONE" /\ ddr_req_valid => br' = IdleBridge
  <1> USE DEF TypeOK, Bridge
  <1>1. CASE BridgeIdle(ddr_req)
    BY <1>1 DEF BridgeIdle, ddr_req, IdleBridge
  <1>2. CASE BridgeWrite(go, go2)
    BY <1>2 DEF BridgeWrite, Commits
  <1>3. CASE BridgeResponse(go)
    BY <1>3 DEF BridgeResponse
  <1>4. CASE BridgeReadAddress(go)
    BY <1>4 DEF BridgeReadAddress
  <1>5. CASE BridgeRead(go)
    BY <1>5 DEF BridgeRead
  <1>6. CASE BridgeDone(ddr_req)
    BY <1>6 DEF BridgeDone, ddr_req
  <1> QED BY <1>1, <1>2, <1>3, <1>4, <1>5, <1>6 DEF BridgeStep
-----------------------------------------------------------------------------
(* Types of the other registers.                                           *)
LEMMA ResetTypes ==
  /\ NoWord \in Words /\ ZeroData \in Data
  /\ NoRequest \in Request /\ NoReply \in Reply /\ NoGpu \in GpuRequest
  /\ NoIMiss \in IMiss /\ NoDMiss \in DMiss /\ NoDResp \in DResp
  /\ NoPrefetch \in Prefetch /\ NoGpuInflight \in GpuInflight /\ NoOwner \in Owner
  <1>1. NoWord \in Words /\ 0 \in Lines /\ 0 \in Offsets
    BY DEF NoWord, Words, Lines, Offsets
  <1>2. ZeroData \in Data
    BY DEF ZeroData, Zero, Data
  <1>3. NoRequest \in Request /\ NoReply \in Reply /\ NoGpu \in GpuRequest
    BY <1>1, <1>2 DEF NoRequest, NoReply, NoGpu, Request, Reply, GpuRequest, CoreOp
  <1>4. NoIMiss \in IMiss /\ NoDMiss \in DMiss /\ NoDResp \in DResp
    BY <1>1, <1>2 DEF NoIMiss, IMiss, NoDMiss, DMiss, NoDResp, DResp
  <1>5. NoPrefetch \in Prefetch /\ NoGpuInflight \in GpuInflight /\ NoOwner \in Owner
    BY <1>1 DEF NoPrefetch, Prefetch, NoGpuInflight, GpuInflight, NoOwner, Owner, OwnerName
  <1> QED BY <1>1, <1>2, <1>3, <1>4, <1>5

(* The requests of core, host and GPU keep their types.                    *)
LEMMA MasterTypes ==
  ASSUME TypeOK, NEW dev \in BOOLEAN, CoreStep(dev), HostStep(dev), GpuStep
  PROVE  /\ core' \in Request /\ reply' \in Reply
         /\ host' \in HostOp /\ hostLeft' \in 0 .. HostMax /\ reset' \in BOOLEAN
         /\ gpu' \in GpuRequest
  <1>3. CoreRequests \subseteq Request /\ Follows(core.op) \subseteq CoreRequests
    BY ResetTypes DEF CoreRequests, Request, CoreOp, Follows
  <1>4. CoreData \in Data
    <2>1. core.word \in Words
      BY DEF TypeOK, Request
    <2>2. [from |-> core.word, stale |-> core.word \in istale] \in Data
      BY <2>1 DEF Data
    <2> QED
      BY <2>2 DEF CoreData, FetchData, DmemData, TypeOK, DResp, Bridge
  <1>5. core' \in Request
    BY ResetTypes, <1>3 DEF CoreStep, TypeOK
  <1>6. reply' \in Reply
    BY ResetTypes, <1>4 DEF CoreStep, TypeOK, Reply, Request
  <1>7. host' \in HostOp /\ hostLeft' \in 0 .. HostMax /\ reset' \in BOOLEAN
    BY DEF HostStep, TypeOK, HostOp
  <1>8. gpu' \in GpuRequest
    BY ResetTypes DEF GpuStep, GpuRequests, GpuRequest, TypeOK
  <1> QED BY <1>5, <1>6, <1>7, <1>8

(* Without reset, every register of the front end keeps its type.          *)
LEMMA RegisterTypes ==
  ASSUME TypeOK, BridgeOK, NEW go \in BOOLEAN, NEW wr \in BOOLEAN, SocStep(go, wr)
  PROVE  /\ icached' \subseteq Words /\ istale' \subseteq Words
         /\ dcached' \subseteq Words /\ dstale' \subseteq Words
         /\ imiss' \in IMiss /\ irefill' \in Data
         /\ dmiss' \in DMiss /\ drefill' \in Data /\ dresp' \in DResp
         /\ lastLine' \in Lines \cup {NoLine}
         /\ pf' \in Prefetch /\ gpuq' \in GpuInflight /\ owner' \in Owner
  <1>1. /\ core.word \in Words /\ core.word[1] \in Lines /\ core.word[2] \in Offsets
        /\ br.beat \in Offsets
    BY DEF TypeOK, Words, Request, Bridge
  <1>3. CASE reset /\ SocReset
    BY ResetTypes, <1>3 DEF SocReset
  <1>4. CASE ~reset /\ ~(reset /\ SocReset)
    <2> USE <1>1, <1>4, ResetTypes
    <2>0. /\ IcacheStep(go, wr) /\ ImissStep /\ IrefillStep(go, wr)
          /\ DcacheStep(go, wr) /\ DmissStep /\ DrefillStep(go, wr) /\ DrespStep(wr)
          /\ LastLineStep /\ PrefetchStep /\ GpuqStep /\ OwnerStep
      BY DEF SocStep
    <2>t. \A d \in Data : Touch(d, wr) \in Data
      BY DEF Touch, Data
    <2>1. icached' \subseteq Words /\ istale' \subseteq Words
      <3>1. FillWord(imiss.line) \in Words
        BY DEF FillWord, TypeOK, IMiss, Words
      <3> QED
        BY <2>0, <3>1 DEF IcacheStep, Filled, TypeOK, NextStale
    <2>2. dcached' \subseteq Words /\ dstale' \subseteq Words
      <3>1. FillWord(dcache_fill_line) \in Words
        BY DEF FillWord, dcache_fill_line, TypeOK, DMiss, Prefetch, Words
      <3> QED
        BY <2>0, <3>1 DEF DcacheStep, Filled, TypeOK, NextStale
    <2>3. imiss' \in IMiss
      <3>1. [valid |-> TRUE, line |-> core.word[1], off |-> core.word[2]] \in IMiss
        BY DEF IMiss
      <3> QED BY <2>0, <3>1 DEF ImissStep, TypeOK
    <2>4. irefill' \in Data
      BY <2>0, <2>t, BeatType DEF IrefillStep, TypeOK
    <2>5. dmiss' \in DMiss
      <3>1. [valid |-> TRUE, line |-> core.word[1], off |-> core.word[2],
             stream |-> dcache_stream_miss] \in DMiss
        BY DEF DMiss, dcache_stream_miss
      <3> QED BY <2>0, <3>1 DEF DmissStep, TypeOK
    <2>6. drefill' \in Data
      BY <2>0, <2>t, BeatType DEF DrefillStep, TypeOK
    <2>7. dresp' \in DResp
      <3>1. [from |-> core.word, stale |-> core.word \in dstale] \in Data
        BY DEF Data
      <3>2. \A d \in Data : [valid |-> TRUE, data |-> d] \in DResp
        BY DEF DResp
      <3>3. [dresp EXCEPT !.data = Touch(@, wr)] \in DResp
        BY <2>t DEF DResp, TypeOK
      <3> QED
        BY <2>0, <2>t, <3>1, <3>2, <3>3 DEF DrespStep, TypeOK
    <2>8. lastLine' \in Lines \cup {NoLine}
      BY <2>0 DEF LastLineStep, TypeOK
    <2>9. pf' \in Prefetch
      <3>1. dmiss.line < VramLine => dmiss.line + 1 \in Lines
        BY DEF TypeOK, DMiss, Lines
      <3>2. dmiss.line < VramLine =>
              [valid |-> TRUE, inflight |-> FALSE, line |-> dmiss.line + 1] \in Prefetch
        BY <3>1 DEF Prefetch
      <3>3. \A v, i \in BOOLEAN : [pf EXCEPT !.valid = v, !.inflight = i] \in Prefetch
        BY DEF Prefetch, TypeOK
      <3> QED
        BY <2>0, <3>2, <3>3, Zenon DEF PrefetchStep
    <2>10. gpuq' \in GpuInflight
      <3>1. [inflight |-> TRUE, we |-> gpu.we, word |-> gpu.word] \in GpuInflight
        BY DEF TypeOK, GpuInflight, GpuRequest
      <3> QED BY <2>0, <3>1 DEF GpuqStep, TypeOK
    <2>11. owner' \in Owner
      <3>1. [valid |-> TRUE, who |-> ddr_owner_next,
             word |-> ddr_req_word, we |-> ddr_req_we] \in Owner
        BY RequestType DEF Owner
      <3> QED BY <2>0, <3>1 DEF OwnerStep, TypeOK
    <2> QED BY <2>1, <2>2, <2>3, <2>4, <2>5, <2>6, <2>7, <2>8, <2>9, <2>10, <2>11
  <1> QED BY <1>3, <1>4 DEF SocStep
-----------------------------------------------------------------------------
(* The registers of the front end, one step without reset.                 *)
LEMMA Registers ==
  ASSUME ~reset, NEW go, NEW wr, SocStep(go, wr)
  PROVE  /\ IcacheStep(go, wr) /\ ImissStep /\ IrefillStep(go, wr)
         /\ DcacheStep(go, wr) /\ DmissStep /\ DrefillStep(go, wr) /\ DrespStep(wr)
         /\ LastLineStep /\ PrefetchStep /\ GpuqStep /\ OwnerStep
  BY DEF SocStep

(* No transaction is in flight: the next one may be latched.               *)
LEMMA QuietRegisters ==
  ASSUME IInv, NEW go \in BOOLEAN, NEW go2 \in BOOLEAN,
         ~reset, ~owner.valid, SocStep(go, Commits(go, go2))
  PROVE  /\ ~Commits(go, go2)
         /\ owner' = IF ddr_req_valid
                     THEN [valid |-> TRUE, who |-> ddr_owner_next,
                           word |-> ddr_req_word, we |-> ddr_req_we]
                     ELSE owner
         /\ gpuq' = IF gpu_ddr_start
                    THEN [inflight |-> TRUE, we |-> gpu.we, word |-> gpu.word]
                    ELSE gpuq
         /\ imiss' = IF icache_miss_start
                     THEN [valid |-> TRUE, line |-> core.word[1], off |-> core.word[2]]
                     ELSE imiss
         /\ dmiss' = IF dcache_lookup_miss
                     THEN [valid |-> TRUE, line |-> core.word[1], off |-> core.word[2],
                           stream |-> dcache_stream_miss]
                     ELSE dmiss
         /\ icached' = icached /\ istale' \subseteq istale
         /\ dcached' = dcached /\ dstale' \subseteq dstale
  <1> USE NothingInFlight, Registers
  <1>1. ~Commits(go, go2)
    BY DEF Commits
  <1>2. ~ReadBeatValid(go)
    BY DEF ReadBeatValid
  <1>3. ~Completes("ICACHE") /\ ~Completes("DCACHE")
    BY DEF OwnerName
  <1>4. owner' = IF ddr_req_valid
                 THEN [valid |-> TRUE, who |-> ddr_owner_next,
                       word |-> ddr_req_word, we |-> ddr_req_we]
                 ELSE owner
    BY DEF OwnerStep
  <1>5. gpuq' = IF gpu_ddr_start
                THEN [inflight |-> TRUE, we |-> gpu.we, word |-> gpu.word]
                ELSE gpuq
    BY DEF GpuqStep
  <1>6. imiss' = IF icache_miss_start
                 THEN [valid |-> TRUE, line |-> core.word[1], off |-> core.word[2]]
                 ELSE imiss
    BY <1>3 DEF ImissStep
  <1>7. dmiss' = IF dcache_lookup_miss
                 THEN [valid |-> TRUE, line |-> core.word[1], off |-> core.word[2],
                       stream |-> dcache_stream_miss]
                 ELSE dmiss
    BY <1>3 DEF DmissStep
  <1>8. icached' = icached /\ istale' \subseteq istale
    BY <1>1, <1>2 DEF IcacheStep, icache_refill, NextStale
  <1>9. dcached' = dcached /\ dstale' \subseteq dstale
    BY <1>1, <1>2 DEF DcacheStep, dcache_refill, NextStale
  <1> QED BY <1>1, <1>4, <1>5, <1>6, <1>7, <1>8, <1>9

(* An armed prefetch starts in a quiet cycle or is dropped.                *)
LEMMA QuietPrefetch ==
  ASSUME IInv, NEW go \in BOOLEAN, NEW go2 \in BOOLEAN,
         ~reset, ~owner.valid, SocStep(go, Commits(go, go2))
  PROVE  /\ pf'.inflight <=> dcache_prefetch_active
         /\ dcache_prefetch_active => pf'.line = pf.line
         /\ pf'.valid => pf'.inflight
  <1> USE NothingInFlight, Registers
  <1>1. /\ ~Completes("PREFETCH") /\ ~Completes("DCACHE") /\ pf \in Prefetch
    BY DEF OwnerName, IInv, TypeOK
  <1>2. pf.valid => dcache_prefetch_active \/ dcache_prefetch_hit
    BY DEF IInv, PrefetchOK, DemandOK, dcache_prefetch_active, ddr_valid,
           imem_ddr_selected, icache_miss_start, imem_ddr_raw_selected,
           bus_ddr_raw_selected, dmem_ddr_read_selected
  <1>3. dcache_prefetch_active => pf.valid /\ ~dcache_prefetch_hit
    BY DEF dcache_prefetch_active
  <1> DEFINE dropped == dcache_lookup_miss \/ dcache_prefetch_hit
             next == [pf EXCEPT !.valid = @ /\ ~dropped,
                                !.inflight = @ \/ (~(ddr_req_valid /\ ddr_ready)
                                                   /\ dcache_prefetch_active)]
  <1>4. pf' = IF next.valid \/ next.inflight THEN next ELSE NoPrefetch
    BY <1>1 DEF PrefetchStep
  <1>5. /\ next.valid <=> (pf.valid /\ ~dropped)
        /\ next.inflight <=> dcache_prefetch_active
        /\ next.line = pf.line
    BY <1>1 DEF Prefetch
  <1> HIDE DEF next
  <1> HIDE DEF dropped
  <1> QED BY <1>2, <1>3, <1>4, <1>5 DEF NoPrefetch, dropped

(* While the bridge is not ready, only hits, responses and devices answer. *)
LEMMA UnansweredCore ==
  ASSUME IInv, NEW dev \in BOOLEAN, ~reset, ~ddr_ready, CoreStep(dev)
  PROVE  /\ imiss.valid \/ icache_miss_start => core' = core /\ core.op = "fetch"
         /\ dmiss.valid \/ dcache_lookup_miss \/ dcache_lookup_hit =>
              core' = core /\ core.op = "load" /\ ~dresp.valid /\ ~Vram(core.word)
         /\ core.op \in {"load", "store"} /\ ~dresp.valid => core' = core
         /\ dresp.valid /\ host_valid => core' = core
  <1>0. ~ddr_ready_for_demand
    BY DEF ddr_ready_for_demand
  <1>1. core.op # "none" /\ ~CoreAck(dev) => core' = core
    BY DEF CoreStep
  <1>2. ASSUME imiss.valid \/ icache_miss_start
        PROVE  core' = core /\ core.op = "fetch"
    <2>1. core.op = "fetch"
      BY <1>2 DEF IInv, DemandOK, icache_miss_start, imem_ddr_raw_selected
    <2>2. ~icache_hit
      BY <1>2 DEF icache_miss_start, icache_hit, imem_ddr_raw_selected
    <2> QED
      BY <1>0, <1>1, <2>1, <2>2 DEF CoreAck, FetchAck, DmemAck
  <1>3. ASSUME core.op \in {"load", "store"}, ~dresp.valid
        PROVE  core' = core
    BY <1>0, <1>1, <1>3 DEF CoreAck, FetchAck, DmemAck
  <1>4. ASSUME dmiss.valid \/ dcache_lookup_miss \/ dcache_lookup_hit
        PROVE  core.op = "load" /\ ~dresp.valid /\ ~Vram(core.word)
    BY <1>4 DEF IInv, DemandOK, dcache_lookup_hit, dcache_lookup_miss, dcache_check_active,
                dmem_ddr_cacheable_read, dmem_ddr_read_selected
  <1>5. ASSUME dresp.valid, host_valid
        PROVE  core' = core
    BY <1>1, <1>5 DEF IInv, DemandOK, CoreAck, FetchAck, DmemAck
  <1> QED BY <1>2, <1>3, <1>4, <1>5

(* A response that appears in a quiet cycle comes from a hit.              *)
LEMMA QuietResponse ==
  ASSUME IInv, NEW go \in BOOLEAN, NEW go2 \in BOOLEAN, NEW dev \in BOOLEAN,
         ~reset, ~owner.valid, SocStep(go, Commits(go, go2)), CoreStep(dev)
  PROVE  dresp'.valid => /\ core' = core /\ core.op = "load" /\ ~Vram(core.word)
                         /\ dresp'.data.from = core.word /\ ~dresp'.data.stale
                         /\ ~dmiss'.valid
  <1> SUFFICES ASSUME dresp'.valid
               PROVE  /\ core' = core /\ core.op = "load" /\ ~Vram(core.word)
                      /\ dresp'.data.from = core.word /\ ~dresp'.data.stale
                      /\ ~dmiss'.valid
    OBVIOUS
  <1>1. DrespStep(FALSE) /\ ~WriteCompletes /\ ~Completes("DCACHE") /\ br.st = "IDLE"
    BY NothingInFlight, Registers, QuietRegisters DEF OwnerName, DrespStep, Touch
  <1>2. dresp \in DResp
    BY DEF IInv, TypeOK
  <1>3. CASE dcache_lookup_hit
    <2>1. core.word \in dcached /\ ~dmiss.valid /\ ~dcache_lookup_miss
      BY <1>3 DEF dcache_lookup_hit, dcache_lookup_miss, dcache_check_active
    <2>2. core.word \notin dstale
      BY <1>1, <2>1 DEF IInv, Coherent, OverwriteInFlight
    <2>3. dresp'.data.from = core.word /\ ~dresp'.data.stale
      BY <1>1, <1>3, <2>2 DEF DrespStep, Touch
    <2> QED BY <1>3, <2>1, <2>3, UnansweredCore, NothingInFlight, QuietRegisters
  <1>4. CASE ~dcache_lookup_hit
    <2>1. ~(~host_valid /\ core.op \in {"load", "store", "mmio"} /\ ~dcache_check_active)
      BY <1>1, <1>4 DEF DrespStep, NoDResp
    <2>2. dresp' = [dresp EXCEPT !.data = Touch(@, FALSE)]
      BY <1>1, <1>4, <2>1 DEF DrespStep
    <2>3. dresp.valid /\ dresp'.data.from = dresp.data.from
          /\ (dresp'.data.stale <=> dresp.data.stale)
      BY <1>2, <2>2 DEF DResp, Data, Touch
    <2>4. ~dcache_check_active /\ core.op = "load"
      BY <2>3 DEF dcache_check_active, IInv, DemandOK
    <2>5. host_valid
      BY <2>1, <2>4
    <2>6. ~dmiss.valid /\ ~dcache_lookup_miss
      BY <2>3, <2>4 DEF IInv, DemandOK, dcache_lookup_miss
    <2>7. ~dresp.data.stale /\ dresp.data.from = core.word /\ ~Vram(core.word)
      BY <1>1, <2>3 DEF IInv, DemandOK, OverwriteInFlight
    <2> QED BY <2>3, <2>4, <2>5, <2>6, <2>7, UnansweredCore, NothingInFlight, QuietRegisters
  <1> QED BY <1>3, <1>4

(* A quiet cycle preserves the invariant.                                  *)
LEMMA QuietStep ==
  ASSUME IInv, NEW go \in BOOLEAN, NEW go2 \in BOOLEAN, NEW dev \in BOOLEAN,
         ~reset, ~owner.valid, Cycle(go, go2, dev)
  PROVE  /\ Attributed' /\ OwnerOK' /\ DemandOK' /\ RefillOK' /\ PrefetchOK'
         /\ Coherent'
  <1>0. /\ BridgeStep(ddr_req, go, go2) /\ SocStep(go, Commits(go, go2))
        /\ CoreStep(dev) /\ GpuStep /\ TypeOK
    BY DEF Cycle, IInv
  <1> USE <1>0, NothingInFlight
  <1>1. DemandOK'
    <2>1. ASSUME imiss'.valid
          PROVE  core'.op = "fetch" /\ core'.word = <<imiss'.line, imiss'.off>>
      <3>1. imiss.valid \/ icache_miss_start
        BY <2>1, QuietRegisters
      <3>2. core'.op = "fetch" /\ core' = core
        BY <3>1, UnansweredCore, NothingInFlight
      <3>3. core.word = <<core.word[1], core.word[2]>>
        BY DEF TypeOK, Request, Words
      <3> QED BY <3>1, <3>2, <3>3, QuietRegisters DEF IInv, DemandOK
    <2>2. ASSUME dmiss'.valid
          PROVE  /\ core'.op = "load" /\ core'.word = <<dmiss'.line, dmiss'.off>>
                 /\ ~Vram(core'.word) /\ ~dresp'.valid
      <3>1. dmiss.valid \/ dcache_lookup_miss
        BY <2>2, QuietRegisters
      <3>2. core'.op = "load" /\ core' = core /\ ~Vram(core.word)
        BY <3>1, UnansweredCore, NothingInFlight
      <3>3. core.word = <<core.word[1], core.word[2]>>
        BY DEF TypeOK, Request, Words
      <3>4. ~dresp'.valid
        BY <2>2, QuietResponse
      <3> QED BY <3>1, <3>2, <3>3, <3>4, QuietRegisters DEF IInv, DemandOK
    <2>3. ASSUME dresp'.valid
          PROVE  core'.op = "load" /\ ~Vram(core'.word) /\ dresp'.data.from = core'.word
                 /\ ~dresp'.data.stale
      BY <2>3, QuietResponse
    <2> QED BY <2>1, <2>2, <2>3 DEF DemandOK, Vram
  <1>2. PrefetchOK'
    BY QuietPrefetch DEF PrefetchOK
  <1>3. Coherent'
    BY QuietRegisters DEF IInv, Coherent, OverwriteInFlight
  <1>4. CASE ~ddr_req_valid
    <2>1. br' = br /\ owner' = owner /\ gpuq' = gpuq
      BY <1>4, BridgeMoves, QuietRegisters DEF ddr_req_valid, gpu_ddr_active
    <2>2. ~pf'.inflight
      BY <1>4, QuietPrefetch DEF ddr_req_valid
    <2>3. Attributed' /\ OwnerOK' /\ RefillOK'
      BY <2>1, <2>2 DEF Attributed, OwnerOK, RefillOK, From
    <2> QED BY <1>1, <1>2, <1>3, <2>3
  <1>5. CASE ddr_req_valid
    <2>1. /\ br'.st = IF ddr_req_we THEN "WAIT_AW_W" ELSE "WAIT_AR"
          /\ br'.word = ddr_req_word /\ br'.we = ddr_req_we
          /\ br'.beats = ddr_req_read_beats
      BY <1>5, BridgeMoves
    <2>2. /\ owner'.valid /\ owner'.who = ddr_owner_next
          /\ owner'.word = ddr_req_word /\ owner'.we = ddr_req_we
      BY <1>5, QuietRegisters
    <2>3. gpuq'.inflight <=> gpu_ddr_start
      BY QuietRegisters
    <2>4. pf'.inflight <=> dcache_prefetch_active
      BY QuietPrefetch
    <2>5. RefillOK'
      BY <2>1 DEF RefillOK, Captured
    <2>6. CASE ddr_owner_next = "GPU"
      <3>1. gpu' = gpu
        BY <1>5, <2>6, Arbitration DEF GpuStep, gpu_ddr_ready
      <3> QED
        BY <1>1, <1>2, <1>3, <1>5, <2>1, <2>2, <2>3, <2>4, <2>5, <2>6, <3>1, Arbitration
           DEF Attributed, OwnerOK, From
    <2>7. CASE ddr_owner_next = "DCACHE"
      <3>1. dmiss' = dmiss
        BY <1>5, <2>7, Arbitration, QuietRegisters DEF dcache_lookup_miss, dcache_check_active
      <3> QED
        BY <1>1, <1>2, <1>3, <1>5, <2>1, <2>2, <2>3, <2>4, <2>5, <2>7, <3>1, Arbitration
           DEF Attributed, OwnerOK, From
    <2>8. CASE ddr_owner_next = "DMEM"
      <3>1. core' = core
        BY <1>5, <2>8, Arbitration, UnansweredCore, NothingInFlight
      <3>2. ~dmiss'.valid
        BY <1>5, <2>8, Arbitration, QuietRegisters
           DEF dcache_lookup_miss, dcache_check_active, dmem_ddr_cacheable_read,
               dmem_ddr_read_selected
      <3> QED
        BY <1>1, <1>2, <1>3, <1>5, <2>1, <2>2, <2>3, <2>4, <2>5, <2>8, <3>1, <3>2, Arbitration
           DEF Attributed, OwnerOK, From, Vram
    <2>9. CASE ddr_owner_next = "ICACHE"
      <3>1. imiss'.valid /\ imiss'.line = core.word[1]
        BY <1>5, <2>9, Arbitration, QuietRegisters DEF IInv, DemandOK
      <3> QED
        BY <1>1, <1>2, <1>3, <1>5, <2>1, <2>2, <2>3, <2>4, <2>5, <2>9, <3>1, Arbitration
           DEF Attributed, OwnerOK, From
    <2>10. CASE ddr_owner_next = "PREFETCH"
      BY <1>1, <1>2, <1>3, <1>5, <2>1, <2>2, <2>3, <2>4, <2>5, <2>10, Arbitration, QuietPrefetch
         DEF Attributed, OwnerOK, From
    <2> QED BY <1>5, <2>6, <2>7, <2>8, <2>9, <2>10, Arbitration
  <1> QED BY <1>4, <1>5
-----------------------------------------------------------------------------
(* A transaction is in flight and the bridge is not done with it.          *)
LEMMA InFlight ==
  ASSUME IInv, owner.valid
  PROVE  /\ br.st # "IDLE" /\ ddr_req_valid /\ ~gpu_ddr_start
         /\ ~dcache_prefetch_active /\ (pf.valid => pf.inflight)
         /\ pf.inflight <=> From("PREFETCH")
         /\ gpuq.inflight <=> From("GPU")
  BY DEF IInv, Attributed, ddr_req_valid, gpu_ddr_start, PrefetchOK, dcache_prefetch_active

(* A running transaction keeps its owner and GPU registers; the misses only *)
(* register what the core newly asks for.                                  *)
LEMMA BusyRegisters ==
  ASSUME IInv, NEW go \in BOOLEAN, NEW wr,
         ~reset, owner.valid, ~ddr_ready, SocStep(go, wr)
  PROVE  /\ owner' = owner /\ gpuq' = gpuq
         /\ imiss' = IF icache_miss_start
                     THEN [valid |-> TRUE, line |-> core.word[1], off |-> core.word[2]]
                     ELSE imiss
         /\ dmiss' = IF dcache_lookup_miss
                     THEN [valid |-> TRUE, line |-> core.word[1], off |-> core.word[2],
                           stream |-> dcache_stream_miss]
                     ELSE dmiss
         /\ pf'.inflight <=> pf.inflight
         /\ pf.inflight => pf'.line = pf.line
         /\ pf'.valid => pf'.inflight
  <1> USE Registers, InFlight
  <1>1. ~WriteCompletes /\ ~Completes("ICACHE") /\ ~Completes("DCACHE") /\ ~Completes("PREFETCH")
    BY DEF WriteCompletes, Completes
  <1>2. owner' = owner /\ gpuq' = gpuq
    BY DEF OwnerStep, GpuqStep
  <1>3. imiss' = IF icache_miss_start
                 THEN [valid |-> TRUE, line |-> core.word[1], off |-> core.word[2]]
                 ELSE imiss
    BY <1>1 DEF ImissStep
  <1>4. dmiss' = IF dcache_lookup_miss
                 THEN [valid |-> TRUE, line |-> core.word[1], off |-> core.word[2],
                       stream |-> dcache_stream_miss]
                 ELSE dmiss
    BY <1>1 DEF DmissStep
  <1> DEFINE dropped == dcache_lookup_miss \/ dcache_prefetch_hit
             next == [pf EXCEPT !.valid = @ /\ ~dropped,
                                !.inflight = @ \/ (~(ddr_req_valid /\ ddr_ready)
                                                   /\ dcache_prefetch_active)]
  <1>5. pf' = IF next.valid \/ next.inflight THEN next ELSE NoPrefetch
    BY <1>1 DEF PrefetchStep
  <1>6. /\ next.valid => pf.valid
        /\ next.inflight <=> pf.inflight
        /\ next.line = pf.line
    BY DEF Prefetch, IInv, TypeOK
  <1> HIDE DEF next
  <1>7. /\ pf'.inflight <=> pf.inflight
        /\ pf.inflight => pf'.line = pf.line
        /\ pf'.valid => pf'.inflight
    BY <1>5, <1>6 DEF NoPrefetch
  <1> QED BY <1>2, <1>3, <1>4, <1>7

(* A write that the DDR has taken stays in flight until it is answered.    *)
LEMMA BusyOverwrite ==
  ASSUME IInv, NEW go \in BOOLEAN, NEW go2 \in BOOLEAN,
         ~ddr_ready, BridgeStep(ddr_req, go, go2), NEW w
  PROVE  /\ OverwriteInFlight(w) => OverwriteInFlight(w)'
         /\ Commits(go, go2) /\ w = br.word => OverwriteInFlight(w)'
  <1>0. TypeOK /\ BridgeOK /\ br.st # "DONE"
    BY DEF IInv, ddr_ready
  <1>1. OverwriteInFlight(w) => OverwriteInFlight(w)'
    BY <1>0, BridgeMoves DEF OverwriteInFlight
  <1>2. Commits(go, go2) => br.st = "WAIT_AW_W" /\ br.we
    BY <1>0 DEF Commits, BridgeOK
  <1>3. Commits(go, go2) => br'.st = "WAIT_B" /\ br'.we /\ br'.word = br.word
    BY <1>0, <1>2, BridgeMoves
  <1> QED BY <1>1, <1>3 DEF OverwriteInFlight

(* A pending D-cache response can only go stale by the write in flight.    *)
LEMMA BusyResponse ==
  ASSUME IInv, NEW go \in BOOLEAN, NEW go2 \in BOOLEAN, NEW dev \in BOOLEAN,
         ~reset, owner.valid, ~ddr_ready,
         SocStep(go, Commits(go, go2)), CoreStep(dev), BridgeStep(ddr_req, go, go2)
  PROVE  dresp'.valid => /\ core' = core /\ core.op = "load" /\ ~Vram(core.word)
                         /\ dresp'.data.from = core.word
                         /\ dresp'.data.stale => OverwriteInFlight(core.word)'
                         /\ ~dmiss'.valid
  <1> SUFFICES ASSUME dresp'.valid
               PROVE  /\ core' = core /\ core.op = "load" /\ ~Vram(core.word)
                      /\ dresp'.data.from = core.word
                      /\ dresp'.data.stale => OverwriteInFlight(core.word)'
                      /\ ~dmiss'.valid
    OBVIOUS
  <1>1. DrespStep(Commits(go, go2)) /\ ~WriteCompletes /\ ~Completes("DCACHE")
    BY Registers DEF WriteCompletes, Completes
  <1>2. dresp \in DResp
    BY DEF IInv, TypeOK
  <1>3. CASE dcache_lookup_hit
    <2>1. core.word \in dcached /\ ~dmiss.valid /\ ~dcache_lookup_miss
      BY <1>3 DEF dcache_lookup_hit, dcache_lookup_miss, dcache_check_active
    <2>2. core.word \in dstale => OverwriteInFlight(core.word)
      BY <2>1 DEF IInv, Coherent
    <2>3. /\ dresp'.data.from = core.word
          /\ dresp'.data.stale <=> (core.word \in dstale \/ (Commits(go, go2) /\ core.word = br.word))
      BY <1>1, <1>3 DEF DrespStep, Touch
    <2> QED BY <1>3, <2>1, <2>2, <2>3, UnansweredCore, BusyRegisters, BusyOverwrite
  <1>4. CASE ~dcache_lookup_hit
    <2>1. ~(~host_valid /\ core.op \in {"load", "store", "mmio"} /\ ~dcache_check_active)
      BY <1>1, <1>4 DEF DrespStep, NoDResp
    <2>2. dresp' = [dresp EXCEPT !.data = Touch(@, Commits(go, go2))]
      BY <1>1, <1>4, <2>1 DEF DrespStep
    <2>3. /\ dresp.valid /\ dresp'.data.from = dresp.data.from
          /\ dresp'.data.stale <=>
               (dresp.data.stale \/ (Commits(go, go2) /\ dresp.data.from = br.word))
      BY <1>2, <2>2 DEF DResp, Data, Touch
    <2>4. ~dcache_check_active /\ core.op = "load"
      BY <2>3 DEF dcache_check_active, IInv, DemandOK
    <2>5. host_valid
      BY <2>1, <2>4
    <2>6. ~dmiss.valid /\ ~dcache_lookup_miss
      BY <2>3, <2>4 DEF IInv, DemandOK, dcache_lookup_miss
    <2>7. /\ dresp.data.from = core.word /\ ~Vram(core.word)
          /\ dresp.data.stale => OverwriteInFlight(core.word)
      BY <1>1, <2>3 DEF IInv, DemandOK
    <2> QED BY <2>3, <2>4, <2>5, <2>6, <2>7, UnansweredCore, BusyRegisters, BusyOverwrite
  <1> QED BY <1>3, <1>4

(* The beats of a refill are filed under the address they were read from.  *)
LEMMA FillsMatch ==
  ASSUME IInv
  PROVE  /\ From("ICACHE") => BeatWord = FillWord(imiss.line)
         /\ From("DCACHE") \/ From("PREFETCH") => BeatWord = FillWord(dcache_fill_line)
  BY DEF IInv, TypeOK, Bridge, Offsets, Attributed, From, BeatWord, FillWord, dcache_fill_line

(* Beats and committed writes keep the caches coherent.                    *)
LEMMA BusyCoherent ==
  ASSUME IInv, NEW go \in BOOLEAN, NEW go2 \in BOOLEAN,
         ~reset, owner.valid, ~ddr_ready,
         SocStep(go, Commits(go, go2)), BridgeStep(ddr_req, go, go2)
  PROVE  Coherent'
  <1> SUFFICES ASSUME NEW w \in istale' \cup dstale'
               PROVE  OverwriteInFlight(w)'
    BY DEF Coherent
  <1>1. ~WriteCompletes
    BY DEF WriteCompletes
  <1>2. CASE w \in istale'
    <2>1. w \in istale \/ (Commits(go, go2) /\ w = br.word)
      BY <1>1, <1>2, Registers, FillsMatch DEF IcacheStep, NextStale, icache_refill
    <2>2. w \in icached'
      BY <1>2, Registers DEF IcacheStep
    <2>3. w \in istale => w \in icached
      BY <1>1, <1>2, <2>2, Registers, FillsMatch DEF IcacheStep, NextStale, icache_refill, Filled
    <2> QED BY <2>1, <2>3, BusyOverwrite DEF IInv, Coherent
  <1>3. CASE w \in dstale'
    <2>1. w \in dstale \/ (Commits(go, go2) /\ w = br.word)
      BY <1>1, <1>3, Registers, FillsMatch DEF DcacheStep, NextStale, dcache_refill
    <2>2. w \in dcached'
      BY <1>3, Registers DEF DcacheStep
    <2>3. w \in dstale => w \in dcached
      BY <1>1, <1>3, <2>2, Registers, FillsMatch DEF DcacheStep, NextStale, dcache_refill, Filled
    <2> QED BY <2>1, <2>3, BusyOverwrite DEF IInv, Coherent
  <1> QED BY <1>2, <1>3

(* The critical word of a refill is captured as it passes.                 *)
LEMMA BusyRefill ==
  ASSUME IInv, NEW go \in BOOLEAN, NEW go2 \in BOOLEAN, NEW dev \in BOOLEAN,
         ~reset, owner.valid, ~ddr_ready,
         SocStep(go, Commits(go, go2)), CoreStep(dev), BridgeStep(ddr_req, go, go2)
  PROVE  RefillOK'
  <1>0. TypeOK /\ BridgeOK /\ br.st # "DONE"
    BY DEF IInv, ddr_ready
  <1>t. \A d \in Data : Touch(d, FALSE) = d
    BY DEF Data, Touch
  <1>1. ASSUME From("ICACHE")', Captured(imiss.off)'
        PROVE  irefill' = Sampled(core.word)'
    <2>1. /\ From("ICACHE") /\ imiss.valid /\ ~br.we /\ br.beats = LineWords
          /\ br.word = <<imiss.line, 0>> /\ core.word = <<imiss.line, imiss.off>>
      BY <1>1, BusyRegisters DEF IInv, Attributed, OwnerOK, DemandOK, From
    <2>2. imiss' = imiss /\ core' = core /\ ~icache_miss_start /\ ~Commits(go, go2)
      BY <1>0, <2>1, BusyRegisters, UnansweredCore
         DEF icache_miss_start, imem_ddr_raw_selected, Commits, BridgeOK
    <2>3. imiss.off \in Offsets /\ br.beat \in Offsets /\ irefill \in Data
      BY <1>0 DEF TypeOK, IMiss, Bridge
    <2>4. br.st = "WAIT_R"
      BY <1>0, <1>1, <2>1, <2>2, <2>3, BridgeMoves
         DEF Captured, BridgeOK, TypeOK, Bridge, BridgeState, Offsets
    <2>5. CASE go /\ br.beat = imiss.off
      BY <1>0, <2>1, <2>2, <2>3, <2>4, <2>5, Registers, FillsMatch
         DEF IrefillStep, icache_refill, ReadBeatValid, FillWord
    <2>6. CASE ~(go /\ br.beat = imiss.off)
      <3>1. Captured(imiss.off)
        BY <1>0, <1>1, <2>1, <2>2, <2>3, <2>4, <2>6, BridgeMoves
           DEF Captured, M_AXI_RLAST, read_final_beat, Offsets
      <3>2. irefill = Sampled(core.word)
        BY <2>1, <3>1 DEF IInv, RefillOK
      <3>3. irefill' = Touch(irefill, FALSE)
        BY <2>2, <2>6, Registers DEF IrefillStep, icache_refill, ReadBeatValid, Touch
      <3> QED BY <1>t, <2>2, <2>3, <3>2, <3>3 DEF Sampled
    <2> QED BY <2>5, <2>6
  <1>2. ASSUME From("DCACHE")', Captured(dmiss.off)'
        PROVE  drefill' = Sampled(core.word)'
    <2>1. /\ From("DCACHE") /\ dmiss.valid /\ ~br.we /\ br.beats = LineWords
          /\ br.word = <<dmiss.line, 0>> /\ core.word = <<dmiss.line, dmiss.off>>
      BY <1>2, BusyRegisters DEF IInv, Attributed, OwnerOK, DemandOK, From
    <2>2. dmiss' = dmiss /\ core' = core /\ ~dcache_lookup_miss /\ ~Commits(go, go2)
      BY <1>0, <2>1, BusyRegisters, UnansweredCore
         DEF dcache_lookup_miss, dcache_check_active, Commits, BridgeOK
    <2>3. dmiss.off \in Offsets /\ br.beat \in Offsets /\ drefill \in Data
      BY <1>0 DEF TypeOK, DMiss, Bridge
    <2>4. br.st = "WAIT_R"
      BY <1>0, <1>2, <2>1, <2>2, <2>3, BridgeMoves
         DEF Captured, BridgeOK, TypeOK, Bridge, BridgeState, Offsets
    <2>5. CASE go /\ br.beat = dmiss.off
      BY <1>0, <2>1, <2>2, <2>3, <2>4, <2>5, Registers, FillsMatch
         DEF DrefillStep, ReadBeatValid, FillWord, dcache_fill_line
    <2>6. CASE ~(go /\ br.beat = dmiss.off)
      <3>1. Captured(dmiss.off)
        BY <1>0, <1>2, <2>1, <2>2, <2>3, <2>4, <2>6, BridgeMoves
           DEF Captured, M_AXI_RLAST, read_final_beat, Offsets
      <3>2. drefill = Sampled(core.word)
        BY <2>1, <3>1 DEF IInv, RefillOK
      <3>3. drefill' = Touch(drefill, FALSE)
        BY <2>2, <2>6, Registers DEF DrefillStep, ReadBeatValid, Touch
      <3> QED BY <1>t, <2>2, <2>3, <3>2, <3>3 DEF Sampled
    <2> QED BY <2>5, <2>6
  <1> QED BY <1>1, <1>2 DEF RefillOK

(* A cycle of a running transaction preserves the invariant.               *)
LEMMA BusyStep ==
  ASSUME IInv, NEW go \in BOOLEAN, NEW go2 \in BOOLEAN, NEW dev \in BOOLEAN,
         ~reset, owner.valid, ~ddr_ready, Cycle(go, go2, dev)
  PROVE  /\ Attributed' /\ OwnerOK' /\ DemandOK' /\ RefillOK' /\ PrefetchOK'
         /\ Coherent'
  <1>0. /\ BridgeStep(ddr_req, go, go2) /\ SocStep(go, Commits(go, go2))
        /\ CoreStep(dev) /\ GpuStep /\ TypeOK
    BY DEF Cycle, IInv
  <1> USE <1>0, InFlight
  <1>1. /\ br'.st # "IDLE" /\ br'.word = br.word /\ br'.we = br.we /\ br'.beats = br.beats
    BY BridgeMoves DEF ddr_ready
  <1>2. owner' = owner /\ gpuq' = gpuq
    BY BusyRegisters
  <1>3. From("GPU") => gpu' = gpu
    BY DEF GpuStep, gpu_ddr_ready, IInv, OwnerOK
  <1>4. From("DCACHE") => dmiss' = dmiss
    BY BusyRegisters DEF IInv, Attributed, dcache_lookup_miss, dcache_check_active
  <1>5. From("ICACHE") => imiss' = imiss
    BY BusyRegisters DEF IInv, Attributed, icache_miss_start, imem_ddr_raw_selected
  <1>6. From("DMEM") => core' = core /\ ~dmiss'.valid
    <2>1. From("DMEM") => ~dresp.valid /\ core.op \in {"load", "store"}
      BY DEF IInv, OwnerOK, DemandOK
    <2>2. From("DMEM") => ~dcache_lookup_miss
      BY DEF IInv, OwnerOK, dcache_lookup_miss, dcache_check_active, dmem_ddr_cacheable_read,
             dmem_ddr_read_selected
    <2> QED BY <2>1, <2>2, UnansweredCore, BusyRegisters DEF IInv, Attributed
  <1>7. Attributed'
    BY <1>1, <1>2, <1>4, <1>5, <1>6, BusyRegisters DEF IInv, Attributed, From
  <1>8. OwnerOK'
    BY <1>1, <1>2, <1>3, <1>6 DEF IInv, OwnerOK, From, Vram
  <1>9. DemandOK'
    <2>1. ASSUME imiss'.valid
          PROVE  core'.op = "fetch" /\ core'.word = <<imiss'.line, imiss'.off>>
      <3>1. imiss.valid \/ icache_miss_start
        BY <2>1, BusyRegisters
      <3>2. core'.op = "fetch" /\ core' = core
        BY <3>1, UnansweredCore
      <3>3. core.word = <<core.word[1], core.word[2]>>
        BY DEF TypeOK, Request, Words
      <3> QED BY <3>1, <3>2, <3>3, BusyRegisters DEF IInv, DemandOK
    <2>2. ASSUME dmiss'.valid
          PROVE  /\ core'.op = "load" /\ core'.word = <<dmiss'.line, dmiss'.off>>
                 /\ ~Vram(core'.word) /\ ~dresp'.valid
      <3>1. dmiss.valid \/ dcache_lookup_miss
        BY <2>2, BusyRegisters
      <3>2. core'.op = "load" /\ core' = core /\ ~Vram(core.word)
        BY <3>1, UnansweredCore
      <3>3. core.word = <<core.word[1], core.word[2]>>
        BY DEF TypeOK, Request, Words
      <3>4. ~dresp'.valid
        BY <2>2, BusyResponse
      <3> QED BY <3>1, <3>2, <3>3, <3>4, BusyRegisters DEF IInv, DemandOK
    <2>3. ASSUME dresp'.valid
          PROVE  /\ core' = core /\ core'.op = "load" /\ ~Vram(core'.word)
                 /\ dresp'.data.from = core'.word
                 /\ dresp'.data.stale => OverwriteInFlight(core.word)'
      BY <2>3, BusyResponse
    <2> QED BY <2>1, <2>2, <2>3 DEF DemandOK, Vram
  <1>10. PrefetchOK'
    BY BusyRegisters DEF PrefetchOK
  <1> QED BY <1>7, <1>8, <1>9, <1>10, BusyRefill, BusyCoherent
-----------------------------------------------------------------------------
(* The bridge is done: the transaction is answered and its effect applied. *)
LEMMA DoneFacts ==
  ASSUME IInv, owner.valid, ddr_ready
  PROVE  /\ br.st = "DONE"
         /\ WriteCompletes <=> br.we
         /\ \A who \in OwnerName : Completes(who) <=> From(who)
         /\ \A w : OverwriteInFlight(w) => WriteCompletes /\ w = owner.word
         /\ ~WriteCompletes =>
               \/ From("DCACHE") \/ From("ICACHE") \/ From("PREFETCH")
               \/ (From("GPU") /\ ~br.we) \/ (From("DMEM") /\ ~br.we)
  <1>1. br.st = "DONE" /\ ddr_req_valid
    BY InFlight DEF ddr_ready
  <1>2. owner.who \in {"GPU", "DCACHE", "DMEM", "ICACHE", "PREFETCH"}
    BY DEF IInv, TypeOK, Owner, OwnerName, OwnerOK
  <1>3. WriteCompletes <=> br.we
    BY <1>1, <1>2 DEF WriteCompletes, From, IInv, Attributed, OwnerOK
  <1>4. \A who \in OwnerName : Completes(who) <=> From(who)
    BY <1>1 DEF Completes
  <1>5. \A w : OverwriteInFlight(w) => WriteCompletes /\ w = owner.word
    BY <1>3 DEF OverwriteInFlight, IInv, Attributed
  <1> QED BY <1>1, <1>2, <1>3, <1>4, <1>5 DEF From

(* The core is answered from the bridge only for its own transaction.      *)
LEMMA AnsweredCore ==
  ASSUME IInv, NEW dev \in BOOLEAN, ~reset, owner.valid, ddr_ready, CoreStep(dev)
  PROVE  /\ (imiss.valid \/ icache_miss_start) /\ ~From("ICACHE") =>
              core' = core /\ core.op = "fetch"
         /\ dmiss.valid \/ dcache_lookup_miss \/ dcache_lookup_hit =>
              core' = core /\ core.op = "load" /\ ~dresp.valid /\ ~Vram(core.word)
         /\ dresp.valid /\ host_valid => core' = core
  <1>1. core.op # "none" /\ ~CoreAck(dev) => core' = core
    BY DEF CoreStep
  <1>2. ASSUME imiss.valid \/ icache_miss_start, ~From("ICACHE")
        PROVE  core' = core /\ core.op = "fetch"
    <2>1. core.op = "fetch"
      BY <1>2 DEF IInv, DemandOK, icache_miss_start, imem_ddr_raw_selected
    <2>2. ~icache_hit
      BY <1>2 DEF icache_miss_start, icache_hit, imem_ddr_raw_selected
    <2>3. ~From("DCACHE") /\ ~From("DMEM")
      BY <2>1 DEF IInv, DemandOK, OwnerOK, Attributed
    <2>4. From("PREFETCH") \/ From("GPU")
      BY <1>2, <2>3, DoneFacts DEF From, IInv, TypeOK, Owner, OwnerName, OwnerOK
    <2>5. ~ddr_ready_for_demand
      BY <2>4, InFlight DEF ddr_ready_for_demand
    <2> QED
      BY <1>1, <2>1, <2>2, <2>5 DEF CoreAck, FetchAck, DmemAck
  <1>3. ASSUME dmiss.valid \/ dcache_lookup_miss \/ dcache_lookup_hit
        PROVE  core' = core /\ core.op = "load" /\ ~dresp.valid /\ ~Vram(core.word)
    <2>1. /\ core.op = "load" /\ ~dresp.valid /\ ~Vram(core.word)
          /\ dmiss.valid \/ dcache_check_active
      BY <1>3 DEF IInv, DemandOK, dcache_lookup_hit, dcache_lookup_miss, dcache_check_active,
                  dmem_ddr_cacheable_read, dmem_ddr_read_selected
    <2> QED BY <1>1, <2>1 DEF CoreAck, FetchAck, DmemAck
  <1>4. ASSUME dresp.valid, host_valid
        PROVE  core' = core
    BY <1>1, <1>4 DEF IInv, DemandOK, CoreAck, FetchAck, DmemAck
  <1> QED BY <1>2, <1>3, <1>4

(* A completion frees the owner, GPU and prefetch registers, and drops the *)
(* misses that it answers or that a write makes void.                      *)
LEMMA DoneRegisters ==
  ASSUME IInv, NEW go \in BOOLEAN, NEW go2 \in BOOLEAN,
         ~reset, owner.valid, ddr_ready, SocStep(go, Commits(go, go2))
  PROVE  /\ ~owner'.valid /\ ~gpuq'.inflight /\ ~pf'.inflight
         /\ pf'.valid => From("DCACHE") /\ dresp'.valid
         /\ imiss'.valid => ~WriteCompletes /\ ~From("ICACHE") /\
              imiss' = IF icache_miss_start
                       THEN [valid |-> TRUE, line |-> core.word[1], off |-> core.word[2]]
                       ELSE imiss
         /\ dmiss'.valid => ~WriteCompletes /\ ~From("DCACHE") /\
              dmiss' = IF dcache_lookup_miss
                       THEN [valid |-> TRUE, line |-> core.word[1], off |-> core.word[2],
                             stream |-> dcache_stream_miss]
                       ELSE dmiss
         /\ istale' = {} /\ dstale' = {}
  <1> USE Registers, InFlight, DoneFacts
  <1>1. ~owner'.valid /\ ~gpuq'.inflight
    BY DEF OwnerStep, NoOwner, GpuqStep, NoGpuInflight
  <1>2. /\ Completes("ICACHE") <=> From("ICACHE")
        /\ Completes("DCACHE") <=> From("DCACHE")
        /\ Completes("PREFETCH") <=> From("PREFETCH")
    BY DEF OwnerName
  <1>3. imiss'.valid => ~WriteCompletes /\ ~From("ICACHE") /\
          imiss' = IF icache_miss_start
                   THEN [valid |-> TRUE, line |-> core.word[1], off |-> core.word[2]]
                   ELSE imiss
    BY <1>2 DEF ImissStep, NoIMiss
  <1>4. dmiss'.valid => ~WriteCompletes /\ ~From("DCACHE") /\
          dmiss' = IF dcache_lookup_miss
                   THEN [valid |-> TRUE, line |-> core.word[1], off |-> core.word[2],
                         stream |-> dcache_stream_miss]
                   ELSE dmiss
    BY <1>2 DEF DmissStep, NoDMiss
  <1>5. ~Commits(go, go2) /\ ~icache_refill(go) /\ ~dcache_refill(go)
    BY DEF Commits, icache_refill, dcache_refill, ReadBeatValid
  <1>6. istale' = {}
    <2> SUFFICES ASSUME NEW w \in istale' PROVE FALSE
      OBVIOUS
    <2>1. w \in istale /\ w \in icached' /\ w \in icached
      BY <1>5 DEF IcacheStep, NextStale
    <2>2. WriteCompletes /\ w = owner.word
      BY <2>1 DEF IInv, Coherent
    <2> QED BY <2>1, <2>2, <1>5 DEF IcacheStep, Evicted, SameSet
  <1>7. dstale' = {}
    <2> SUFFICES ASSUME NEW w \in dstale' PROVE FALSE
      OBVIOUS
    <2>1. w \in dstale /\ w \in dcached' /\ w \in dcached
      BY <1>5 DEF DcacheStep, NextStale
    <2>2. WriteCompletes /\ w = owner.word
      BY <2>1 DEF IInv, Coherent
    <2> QED BY <2>1, <2>2, <1>5 DEF DcacheStep, Evicted, SameSet
  <1>8. ~pf'.inflight /\ (pf'.valid => From("DCACHE") /\ dresp'.valid)
    <2>1. CASE WriteCompletes \/ From("PREFETCH")
      BY <1>2, <2>1 DEF PrefetchStep, NoPrefetch
    <2>2. CASE ~WriteCompletes /\ ~From("PREFETCH")
      <3>1. ~pf.inflight /\ ~pf.valid
        BY <2>2
      <3>2. ~([pf EXCEPT !.valid = @ /\ ~(dcache_lookup_miss \/ dcache_prefetch_hit),
                         !.inflight = @ \/ (~(ddr_req_valid /\ ddr_ready)
                                                   /\ dcache_prefetch_active)].valid)
            /\ ~([pf EXCEPT !.valid = @ /\ ~(dcache_lookup_miss \/ dcache_prefetch_hit),
                         !.inflight = @ \/ (~(ddr_req_valid /\ ddr_ready)
                                                   /\ dcache_prefetch_active)].inflight)
        BY <3>1 DEF IInv, TypeOK, Prefetch
      <3>3. CASE From("DCACHE") /\ dmiss.stream /\ dmiss.line < VramLine
        <4>1. pf' = [valid |-> TRUE, inflight |-> FALSE, line |-> dmiss.line + 1]
          BY <1>2, <2>2, <3>3 DEF PrefetchStep
        <4>2. dresp'.valid
          BY <1>2, <2>2, <3>3 DEF DrespStep
        <4> QED BY <3>3, <4>1, <4>2
      <3>4. CASE ~(From("DCACHE") /\ dmiss.stream /\ dmiss.line < VramLine)
        BY <1>2, <2>2, <3>2, <3>4 DEF PrefetchStep, NoPrefetch
      <3> QED BY <3>3, <3>4
    <2> QED BY <2>1, <2>2
  <1> QED BY <1>1, <1>3, <1>4, <1>6, <1>7, <1>8

(* A refill's completion hands the core the word it asked for.             *)
LEMMA DoneResponse ==
  ASSUME IInv, NEW go \in BOOLEAN, NEW go2 \in BOOLEAN, NEW dev \in BOOLEAN,
         ~reset, owner.valid, ddr_ready,
         SocStep(go, Commits(go, go2)), CoreStep(dev)
  PROVE  dresp'.valid => /\ core' = core /\ core.op = "load" /\ ~Vram(core.word)
                         /\ dresp'.data.from = core.word /\ ~dresp'.data.stale
                         /\ ~dmiss'.valid
  <1> SUFFICES ASSUME dresp'.valid
               PROVE  /\ core' = core /\ core.op = "load" /\ ~Vram(core.word)
                      /\ dresp'.data.from = core.word /\ ~dresp'.data.stale
                      /\ ~dmiss'.valid
    OBVIOUS
  <1>1. DrespStep(FALSE)
    BY Registers, DoneFacts DEF Commits, DrespStep, Touch
  <1>2. dresp \in DResp /\ ~WriteCompletes /\ (Completes("DCACHE") <=> From("DCACHE"))
    BY <1>1, DoneFacts DEF IInv, TypeOK, DrespStep, NoDResp, OwnerName
  <1>3. CASE From("DCACHE")
    <2>1. dmiss.valid /\ drefill = Sampled(core.word)
      BY <1>3, DoneFacts DEF IInv, Attributed, RefillOK, Captured
    <2>2. dresp' = [valid |-> TRUE, data |-> drefill]
      BY <1>1, <1>2, <1>3 DEF DrespStep
    <2>3. ~dmiss'.valid
      BY <1>3, DoneRegisters
    <2> QED BY <2>1, <2>2, <2>3, AnsweredCore DEF Sampled
  <1>4. CASE ~From("DCACHE") /\ dcache_lookup_hit
    <2>1. core.word \in dcached /\ ~dmiss.valid /\ ~dcache_lookup_miss
      BY <1>4 DEF dcache_lookup_hit, dcache_lookup_miss, dcache_check_active
    <2>2. core.word \notin dstale
      BY <1>2, <2>1, DoneFacts DEF IInv, Coherent
    <2>3. dresp'.data.from = core.word /\ ~dresp'.data.stale
      BY <1>1, <1>2, <1>4, <2>2 DEF DrespStep, Touch
    <2> QED BY <1>4, <2>1, <2>3, AnsweredCore, DoneRegisters
  <1>5. CASE ~From("DCACHE") /\ ~dcache_lookup_hit
    <2>1. ~(~host_valid /\ core.op \in {"load", "store", "mmio"} /\ ~dcache_check_active)
      BY <1>1, <1>2, <1>5 DEF DrespStep, NoDResp
    <2>2. dresp' = [dresp EXCEPT !.data = Touch(@, FALSE)]
      BY <1>1, <1>2, <1>5, <2>1 DEF DrespStep
    <2>3. dresp.valid /\ dresp'.data.from = dresp.data.from
          /\ (dresp'.data.stale <=> dresp.data.stale)
      BY <1>2, <2>2 DEF DResp, Data, Touch
    <2>4. ~dcache_check_active /\ core.op = "load"
      BY <2>3 DEF dcache_check_active, IInv, DemandOK
    <2>5. host_valid
      BY <2>1, <2>4
    <2>6. ~dmiss.valid /\ ~dcache_lookup_miss
      BY <2>3, <2>4 DEF IInv, DemandOK, dcache_lookup_miss
    <2>7. ~dresp.data.stale /\ dresp.data.from = core.word /\ ~Vram(core.word)
      BY <1>2, <2>3, DoneFacts DEF IInv, DemandOK
    <2> QED BY <2>3, <2>4, <2>5, <2>6, <2>7, AnsweredCore, DoneRegisters
  <1> QED BY <1>3, <1>4, <1>5

(* The cycle that answers a transaction preserves the invariant.           *)
LEMMA DoneStep ==
  ASSUME IInv, NEW go \in BOOLEAN, NEW go2 \in BOOLEAN, NEW dev \in BOOLEAN,
         ~reset, owner.valid, ddr_ready, Cycle(go, go2, dev)
  PROVE  /\ Attributed' /\ OwnerOK' /\ DemandOK' /\ RefillOK' /\ PrefetchOK'
         /\ Coherent'
  <1>0. /\ BridgeStep(ddr_req, go, go2) /\ SocStep(go, Commits(go, go2))
        /\ CoreStep(dev) /\ TypeOK
    BY DEF Cycle, IInv
  <1> USE <1>0
  <1>1. br'.st = "IDLE"
    BY InFlight, DoneFacts, BridgeMoves DEF IdleBridge
  <1>2. ~owner'.valid /\ ~gpuq'.inflight /\ ~pf'.inflight
    BY DoneRegisters
  <1>3. Attributed' /\ OwnerOK' /\ RefillOK'
    BY <1>1, <1>2 DEF Attributed, OwnerOK, RefillOK, From
  <1>4. PrefetchOK' /\ Coherent'
    BY <1>2, DoneRegisters DEF PrefetchOK, Coherent
  <1>5. DemandOK'
    <2>1. ASSUME imiss'.valid
          PROVE  core'.op = "fetch" /\ core'.word = <<imiss'.line, imiss'.off>>
      <3>1. ~From("ICACHE") /\ (imiss.valid \/ icache_miss_start)
        BY <2>1, DoneRegisters
      <3>2. core'.op = "fetch" /\ core' = core
        BY <3>1, AnsweredCore
      <3>3. core.word = <<core.word[1], core.word[2]>>
        BY DEF TypeOK, Request, Words
      <3> QED BY <2>1, <3>1, <3>2, <3>3, DoneRegisters DEF IInv, DemandOK
    <2>2. ASSUME dmiss'.valid
          PROVE  /\ core'.op = "load" /\ core'.word = <<dmiss'.line, dmiss'.off>>
                 /\ ~Vram(core'.word) /\ ~dresp'.valid
      <3>1. dmiss.valid \/ dcache_lookup_miss
        BY <2>2, DoneRegisters
      <3>2. core'.op = "load" /\ core' = core /\ ~Vram(core.word)
        BY <3>1, AnsweredCore
      <3>3. core.word = <<core.word[1], core.word[2]>>
        BY DEF TypeOK, Request, Words
      <3>4. ~dresp'.valid
        BY <2>2, DoneResponse
      <3> QED BY <2>2, <3>1, <3>2, <3>3, <3>4, DoneRegisters DEF IInv, DemandOK
    <2>3. ASSUME dresp'.valid
          PROVE  /\ core'.op = "load" /\ ~Vram(core'.word)
                 /\ dresp'.data.from = core'.word /\ ~dresp'.data.stale
      BY <2>3, DoneResponse
    <2> QED BY <2>1, <2>2, <2>3 DEF DemandOK, Vram
  <1> QED BY <1>3, <1>4, <1>5

(* The CPU is held in reset: nothing is asked and everything is cleared.   *)
LEMMA ResetStep ==
  ASSUME IInv, NEW go \in BOOLEAN, NEW go2 \in BOOLEAN, NEW dev \in BOOLEAN,
         reset, Cycle(go, go2, dev)
  PROVE  /\ Attributed' /\ OwnerOK' /\ DemandOK' /\ RefillOK' /\ PrefetchOK'
         /\ Coherent'
  <1>0. /\ BridgeStep(ddr_req, go, go2) /\ SocReset /\ TypeOK
        /\ br.st = "IDLE" /\ core.op = "none" /\ ~gpu.valid /\ ~pf.valid
    BY DEF Cycle, SocStep, IInv, ResetOK
  <1>1. ~owner.valid /\ ~pf.inflight /\ ~gpuq.inflight
    BY <1>0 DEF IInv, Attributed, From
  <1>2. ~dmiss.valid /\ ~imiss.valid
    BY <1>0 DEF IInv, DemandOK
  <1>3. ~ddr_req_valid
    BY <1>0, <1>1, <1>2 DEF ddr_req_valid, gpu_ddr_active, gpu_ddr_start, ddr_valid,
       bus_ddr_raw_selected, imem_ddr_selected, icache_miss_start, imem_ddr_raw_selected,
       dcache_prefetch_active
  <1>4. br' = br
    BY <1>0, <1>3, BridgeMoves
  <1> QED
    BY <1>0, <1>4 DEF SocReset, NoIMiss, NoDMiss, NoDResp, NoPrefetch, NoGpuInflight, NoOwner,
       Attributed, OwnerOK, DemandOK, RefillOK, PrefetchOK, Coherent, From
-----------------------------------------------------------------------------
(* The registers come out of rst_n with the invariant.                     *)
LEMMA InitEstablishes == Init => IInv
  <1> SUFFICES ASSUME Init PROVE IInv
    OBVIOUS
  <1> USE DEF Init, SocInit
  <1>2. TypeOK
    <2>1. /\ br \in Bridge /\ core \in Request /\ reply \in Reply /\ gpu \in GpuRequest
          /\ imiss \in IMiss /\ irefill \in Data /\ dmiss \in DMiss /\ drefill \in Data
          /\ dresp \in DResp /\ pf \in Prefetch /\ gpuq \in GpuInflight /\ owner \in Owner
      BY ResetTypes, IdleType
    <2>2. reset \in BOOLEAN
      BY Zenon
    <2>3. /\ host \in HostOp /\ hostLeft \in 0 .. HostMax
          /\ lastLine \in Lines \cup {NoLine}
          /\ icached \subseteq Words /\ istale \subseteq Words
          /\ dcached \subseteq Words /\ dstale \subseteq Words
      BY DEF HostOp
    <2> QED BY <2>1, <2>2, <2>3 DEF TypeOK
  <1>3. BridgeOK
    BY DEF BridgeOK, IdleBridge
  <1>4. Attributed /\ OwnerOK /\ DemandOK /\ RefillOK /\ PrefetchOK /\ ResetOK /\ Coherent
    <2>1. br.st = "IDLE" /\ ~owner.valid /\ ~pf.valid /\ ~pf.inflight /\ ~gpuq.inflight
          /\ ~imiss.valid /\ ~dmiss.valid /\ ~dresp.valid /\ reset = FALSE
          /\ icached = {} /\ dcached = {}
      BY DEF IdleBridge, NoIMiss, NoDMiss, NoDResp, NoPrefetch, NoGpuInflight, NoOwner
    <2> QED
      BY <2>1 DEF Attributed, OwnerOK, DemandOK, RefillOK, PrefetchOK, ResetOK, Coherent, From
  <1> QED BY <1>2, <1>3, <1>4 DEF IInv

(* One clock edge preserves the invariant, in reset and out of it.         *)
LEMMA CyclePreserves ==
  ASSUME ~ResetAnytime, IInv,
         NEW go \in BOOLEAN, NEW go2 \in BOOLEAN, NEW dev \in BOOLEAN, Cycle(go, go2, dev)
  PROVE  IInv'
  <1>0. /\ BridgeStep(ddr_req, go, go2) /\ SocStep(go, Commits(go, go2))
        /\ CoreStep(dev) /\ HostStep(dev) /\ GpuStep /\ ResetDiscipline
        /\ TypeOK /\ BridgeOK /\ DemandOK /\ Commits(go, go2) \in BOOLEAN
    BY DEF Cycle, IInv, Commits
  <1>1. TypeOK'
    BY <1>0, BridgeType, MasterTypes, RegisterTypes DEF TypeOK
  <1>2. BridgeOK'
    BY <1>0, BridgeInvariant
  <1>3. ResetOK'
    BY <1>0 DEF ResetDiscipline, ResetOK
  <1>4. /\ Attributed' /\ OwnerOK' /\ DemandOK' /\ RefillOK' /\ PrefetchOK'
        /\ Coherent'
    BY ResetStep, QuietStep, BusyStep, DoneStep
  <1> QED BY <1>1, <1>2, <1>3, <1>4 DEF IInv

(* So does no step at all.                                                 *)
LEMMA StutterPreserves == IInv /\ UNCHANGED vars => IInv'
  <1> SUFFICES ASSUME IInv, UNCHANGED vars PROVE IInv'
    OBVIOUS
  <1>1. /\ br' = br /\ core' = core /\ reply' = reply /\ host' = host /\ hostLeft' = hostLeft
        /\ gpu' = gpu /\ reset' = reset /\ icached' = icached /\ istale' = istale
        /\ imiss' = imiss /\ irefill' = irefill /\ dcached' = dcached /\ dstale' = dstale
        /\ dmiss' = dmiss /\ drefill' = drefill /\ dresp' = dresp /\ lastLine' = lastLine
        /\ pf' = pf /\ gpuq' = gpuq /\ owner' = owner
    BY DEF vars, socVars
  <1> QED
    BY <1>1 DEF IInv, TypeOK, BridgeOK, Attributed, OwnerOK, DemandOK, RefillOK, PrefetchOK,
                ResetOK, Coherent, From, OverwriteInFlight, Captured, Vram

(* The inductive invariant holds in every reachable state of the front     *)
(* end, as long as the CPU is reset only while nothing is in flight.       *)
THEOREM Invariance == ASSUME ~ResetAnytime PROVE Spec => []IInv
  <1>1. IInv /\ [Next]_vars => IInv'
    BY CyclePreserves, StutterPreserves DEF Next
  <1> QED BY <1>1, InitEstablishes, PTL DEF Spec

(* Every register keeps its type; a burst never leaves its line and a      *)
(* prefetch never leaves the DDR window.                                   *)
THEOREM TypeCorrect == ASSUME ~ResetAnytime PROVE Spec => []TypeOK
  <1>1. IInv => TypeOK
    BY DEF IInv
  <1> QED BY <1>1, Invariance, PTL

(* The owner register always names the transaction the bridge is running.  *)
THEOREM OwnerIsRight == ASSUME ~ResetAnytime PROVE Spec => []Attributed
  <1>1. IInv => Attributed
    BY DEF IInv
  <1> QED BY <1>1, Invariance, PTL

(* Neither cache holds a word that a completed write has replaced in DDR.  *)
THEOREM CachesCoherent == ASSUME ~ResetAnytime PROVE Spec => []Coherent
  <1>1. IInv => Coherent
    BY DEF IInv
  <1> QED BY <1>1, Invariance, PTL

(* The GPU takes no answer but its own.                                    *)
THEOREM GpuGetsItsAnswer == ASSUME ~ResetAnytime PROVE Spec => []GpuAnswersMatch
  <1>1. ASSUME IInv, gpu_ddr_ready
        PROVE  /\ gpu.valid /\ br.word = gpu.word /\ br.we = gpu.we
               /\ ~br.we => br.data = Sampled(gpu.word)
    <2>1. br.st = "DONE" /\ From("GPU")
      BY <1>1 DEF gpu_ddr_ready, ddr_ready, IInv, Attributed
    <2>2. gpu.valid /\ br.word = gpu.word /\ (br.we <=> gpu.we) /\ br.beats = 1
      BY <1>1, <2>1 DEF IInv, OwnerOK
    <2>3. br.we = gpu.we
      BY <1>1, <2>2 DEF IInv, TypeOK, Bridge, GpuRequest
    <2>4. ~br.we => br.data = Sampled(gpu.word)
      BY <1>1, <2>1, <2>2 DEF IInv, BridgeOK
    <2> QED BY <2>2, <2>3, <2>4
  <1>2. IInv => GpuAnswersMatch
    BY <1>1 DEF GpuAnswersMatch
  <1> QED BY <1>2, Invariance, PTL
-----------------------------------------------------------------------------
(* Which transaction an answer from the bridge belongs to.                 *)
LEMMA DemandAnswer ==
  ASSUME IInv, ddr_ready_for_demand
  PROVE  /\ br.st = "DONE"
         /\ core.op = "fetch" => From("ICACHE")
         /\ core.op \in {"load", "store"} /\ ~dmiss.valid => From("DMEM")
  <1>1. br.st = "DONE" /\ owner.valid /\ ~From("GPU") /\ ~From("PREFETCH")
    BY DEF ddr_ready_for_demand, ddr_ready, IInv, Attributed, From
  <1>2. From("ICACHE") \/ From("DCACHE") \/ From("DMEM")
    BY <1>1 DEF From, IInv, TypeOK, Owner, OwnerName, OwnerOK
  <1>3. From("ICACHE") => core.op = "fetch"
    BY DEF IInv, Attributed, DemandOK
  <1>4. From("DCACHE") => core.op = "load" /\ dmiss.valid
    BY DEF IInv, Attributed, DemandOK
  <1>5. From("DMEM") => core.op \in {"load", "store"}
    BY DEF IInv, OwnerOK
  <1> QED BY <1>1, <1>2, <1>3, <1>4, <1>5

(* A reply goes to an access that is acknowledged, with the data of the bus. *)
LEMMA Answered ==
  ASSUME NEW dev \in BOOLEAN, CoreStep(dev), reply'.op # "none"
  PROVE  /\ CoreAck(dev) /\ reply'.op = core.op /\ reply'.word = core.word
         /\ reply'.data = CoreData
  BY DEF CoreStep, NoReply

(* Every fetch and every load returns the word at its address, as DDR      *)
(* holds it, up to a write that is being acknowledged.                     *)
THEOREM ReadsAreCoherent == ASSUME ~ResetAnytime PROVE Spec => ReadsSeeDdr
  <1>1. ASSUME IInv, Next, reply'.op \in {"fetch", "load"}
        PROVE  /\ reply'.data.from = reply'.word
               /\ reply'.data.stale => OverwriteInFlight(reply'.word)
    <2>1. PICK go \in BOOLEAN, go2 \in BOOLEAN, dev \in BOOLEAN : Cycle(go, go2, dev)
      BY <1>1 DEF Next
    <2>2. /\ CoreAck(dev) /\ core.op \in {"fetch", "load"} /\ core.op = reply'.op
          /\ reply'.word = core.word /\ reply'.data = CoreData
      BY <1>1, <2>1, Answered DEF Cycle
    <2>3. CASE core.op = "fetch" /\ icache_hit
      BY <1>1, <2>2, <2>3 DEF CoreData, FetchData, icache_hit, IInv, Coherent
    <2>4. CASE core.op = "fetch" /\ ~icache_hit
      <3>1. ddr_ready_for_demand
        BY <2>2, <2>4 DEF CoreAck, FetchAck, DmemAck
      <3>2. irefill = Sampled(core.word)
        BY <1>1, <2>4, <3>1, DemandAnswer DEF IInv, RefillOK, Captured
      <3> QED BY <2>2, <2>4, <3>2 DEF CoreData, FetchData, Sampled
    <2>5. CASE core.op = "load" /\ dresp.valid
      BY <1>1, <2>2, <2>5 DEF CoreData, DmemData, IInv, DemandOK
    <2>6. CASE core.op = "load" /\ ~dresp.valid
      <3>1. ddr_ready_for_demand /\ ~dmiss.valid
        BY <2>2, <2>6 DEF CoreAck, FetchAck, DmemAck
      <3>2. From("DMEM") /\ br.st = "DONE"
        BY <1>1, <2>6, <3>1, DemandAnswer
      <3>3. br.data = Sampled(core.word)
        BY <1>1, <2>6, <3>2 DEF IInv, Attributed, OwnerOK, BridgeOK
      <3> QED BY <2>2, <2>6, <3>3 DEF CoreData, DmemData, Sampled
    <2> QED BY <2>2, <2>3, <2>4, <2>5, <2>6
  <1>2. IInv /\ [Next]_vars =>
          [reply'.op \in {"fetch", "load"} =>
             /\ reply'.data.from = reply'.word
             /\ reply'.data.stale => OverwriteInFlight(reply'.word)]_vars
    BY <1>1
  <1> QED BY <1>2, Invariance, PTL DEF Spec, ReadsSeeDdr

(* No store is acknowledged before the DDR has taken it.                   *)
THEOREM StoresAreInDdr == ASSUME ~ResetAnytime PROVE Spec => StoresReachDdr
  <1>1. ASSUME IInv, Next, reply'.op = "store"
        PROVE  br.st = "DONE" /\ br.we /\ br.word = reply'.word
    <2>1. PICK go \in BOOLEAN, go2 \in BOOLEAN, dev \in BOOLEAN : Cycle(go, go2, dev)
      BY <1>1 DEF Next
    <2>2. CoreAck(dev) /\ core.op = "store" /\ reply'.word = core.word
      BY <1>1, <2>1, Answered DEF Cycle
    <2>3. ~dresp.valid
      BY <1>1, <2>2 DEF IInv, DemandOK
    <2>4. ddr_ready_for_demand /\ ~dmiss.valid
      BY <2>2, <2>3 DEF CoreAck, FetchAck, DmemAck
    <2>5. From("DMEM") /\ br.st = "DONE"
      BY <1>1, <2>2, <2>4, DemandAnswer
    <2> QED BY <1>1, <2>2, <2>5 DEF IInv, Attributed, OwnerOK
  <1>2. IInv /\ [Next]_vars =>
          [reply'.op = "store" => br.st = "DONE" /\ br.we /\ br.word = reply'.word]_vars
    BY <1>1
  <1> QED BY <1>2, Invariance, PTL DEF Spec, StoresReachDdr
=============================================================================
