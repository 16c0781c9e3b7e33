------------------------------ MODULE GpuFill ------------------------------
(***************************************************************************)
(* The fill engine, rtl/periph/mmio_gpu_fill.sv: command registers, FIFO,  *)
(* launch stage, pixel engine, timeout and soft reset, with its port on    *)
(* the DDR front end (rtl/soc/zx32_soc.sv) and the core that programs it.  *)
(*                                                                         *)
(* One step is one clock edge; the definitions before the steps are the    *)
(* wires of the RTL.  A command is its opcode and its shape (pixels to     *)
(* draw, rows above it); where pixels are and what colour they have is     *)
(* left to GpuRaster.  Data-dependent branches are a choice (env.data).    *)
(***************************************************************************)
EXTENDS Naturals, Sequences

CONSTANTS
  Depth,         \* CMD_FIFO_DEPTH
  WaitTimeout,   \* DDR_WAIT_TIMEOUT
  Ops,           \* opcodes in control writes; "none" is one without a meaning
  Shapes,        \* values of the captured registers: [n, y]
  Fbs,           \* pixels of the framebuffer that may be configured
  Strides,       \* values of the stride registers
  Kinds,         \* the accesses the core makes
  Preemptable,   \* those during which the PS may take the bus
  MaxCommands,   \* bound on accepted commands
  Varied         \* bound on what the core does: after how many accepted commands it
                 \* may do anything; else it submits fills, clears flags, resets

ASSUME GpuAssumption ==
  /\ Depth \in Nat \ {0} /\ WaitTimeout \in Nat \ {0}
  /\ Ops \subseteq {"clear", "fill", "blit", "key", "scale", "alpha", "none"}
  /\ Shapes \subseteq [n : Nat, y : Nat] /\ Fbs \subseteq Nat /\ Strides \subseteq Nat
  /\ Kinds \subseteq {"start", "submit", "shape", "fb", "stride", "w1c", "reset"}
  /\ Preemptable \subseteq Kinds
  /\ MaxCommands \in Nat /\ Varied \subseteq Nat
  /\ Shapes # {} /\ Fbs # {} /\ Strides # {}

VARIABLES
  cfg,     \* configuration: captured registers, framebuffer, strides
  status,  \* done_q, error_q
  fifo,    \* slots, write and read pointer, count
  launch,  \* the launch stage, start_wait_q
  eng,     \* the engine
  port,    \* gpu_ddr_inflight and the request latched with it
  bus,     \* the access the core presents
  env,     \* this cycle: PS on the bus, DDR port free, DDR answers, data
  count,   \* cmd_done_count_q; commands accepted
  ended    \* the last command that left the engine, and how

vars == <<cfg, status, fifo, launch, eng, port, bus, env, count, ended>>
-----------------------------------------------------------------------------
Command == [id : Nat, op : Ops, shape : Shapes]
NoCommand == [id |-> 0, op |-> "none", shape |-> CHOOSE s \in Shapes : TRUE]
Slots == 0 .. Depth - 1
Phases == {"src", "dst", "write"}
NoAccess == [kind |-> "idle"]

(* What an access writes.                                                  *)
Args(kind) ==
  CASE kind \in {"start", "submit"} -> Ops
    [] kind = "shape" -> Shapes
    [] kind = "fb" -> Fbs
    [] kind = "stride" -> Strides
    [] kind \in {"w1c", "reset"} -> {"all"}

Idle == [busy |-> FALSE, cmd |-> NoCommand, n |-> 0, pix |-> 0, rows |-> 0,
         phase |-> "write", skip |-> FALSE, adv |-> FALSE, wait |-> 0]
NoLaunch == [pending |-> FALSE, cmd |-> NoCommand, start_wait |-> FALSE]
NoRequest == [id |-> 0, pix |-> 0, phase |-> "write"]
EmptyFifo == [slot |-> [s \in Slots |-> NoCommand], wr |-> 0, rd |-> 0, count |-> 0]

Env == [host : BOOLEAN, free : BOOLEAN, ready : BOOLEAN, data : BOOLEAN]

Init ==
  /\ cfg \in [shape : Shapes, fb : Fbs, stride : Strides]
  /\ status = [done |-> FALSE, error |-> FALSE]
  /\ fifo = EmptyFifo /\ launch = NoLaunch /\ eng = Idle
  /\ port = [inflight |-> FALSE, req |-> NoRequest]
  /\ bus = NoAccess
  /\ env = [host |-> FALSE, free |-> FALSE, ready |-> FALSE, data |-> FALSE]
  /\ count = [done |-> 0, issued |-> 0]
  /\ ended = [id |-> 0, ok |-> TRUE]
-----------------------------------------------------------------------------
(* Wires.                                                                  *)

valid == bus.kind # "idle" /\ ~env.host
start_req == valid /\ bus.kind = "start"
start_accept_req == start_req /\ ~launch.start_wait
submit_req == valid /\ bus.kind = "submit"
soft_reset_req == valid /\ bus.kind = "reset"
engine_busy == eng.busy \/ launch.pending \/ fifo.count # 0

(* The checks of a command against the configuration.                      *)
Invalid(op, shape) ==
  \/ op = "none"
  \/ cfg.fb = 0 \/ cfg.stride = 0
  \/ op # "clear" /\ shape.n = 0

invalid_start == engine_busy \/ Invalid(bus.arg, cfg.shape)

invalid_submit == fifo.count = Depth \/ Invalid(bus.arg, cfg.shape)
capture_start_req == start_accept_req /\ ~invalid_start

capture_fifo_req ==
  ~start_req /\ ~eng.busy /\ ~launch.pending /\ fifo.count # 0 /\ ~submit_req

launch_invalid == Invalid(launch.cmd.op, launch.cmd.shape)

ready == valid /\ ~capture_start_req

op_blit_like(op) == op \in {"blit", "key", "scale", "alpha"}
FirstPhase(op) == IF op_blit_like(op) THEN "src" ELSE "write"

color_key_skip_write == eng.busy /\ eng.cmd.op = "key" /\ eng.phase = "write" /\ eng.skip
scale_advancing == eng.busy /\ eng.cmd.op = "scale" /\ eng.adv
ddr_valid == eng.busy /\ eng.rows = 0 /\ ~scale_advancing /\ ~color_key_skip_write
ddr_req == [id |-> eng.cmd.id, pix |-> eng.pix, phase |-> eng.phase]

gpu_ddr_start == ddr_valid /\ ~port.inflight /\ env.free

(* Mutant: any completion of the bridge is taken for the GPU's.            *)
gpu_ddr_ready_any == env.ready

gpu_ddr_ready == env.ready /\ port.inflight
-----------------------------------------------------------------------------
(* The engine.  A launch goes before everything but a soft reset; then     *)
(* come row skipping, source stepping, answers, and waiting.               *)

launch_req == launch.pending /\ ~soft_reset_req
Running == eng.busy /\ ~launch.pending /\ ~soft_reset_req
Answered ==
  Running /\ eng.rows = 0 /\ ~scale_advancing /\ (gpu_ddr_ready \/ color_key_skip_write)
Waits ==
  Running /\ eng.rows = 0 /\ ~scale_advancing /\ ~gpu_ddr_ready /\ ~color_key_skip_write

Completes == Answered /\ eng.phase = "write" /\ eng.pix + 1 = eng.n
TimesOut == Waits /\ eng.wait = WaitTimeout

EngineReset == soft_reset_req /\ eng' = Idle

Launch ==
  /\ launch_req /\ ~launch_invalid
  /\ eng' = [busy |-> TRUE, cmd |-> launch.cmd,
             n |-> IF launch.cmd.op = "clear" THEN cfg.fb ELSE launch.cmd.shape.n,
             pix |-> 0,
             rows |-> IF launch.cmd.op = "clear" THEN 0 ELSE launch.cmd.shape.y,
             phase |-> FirstPhase(launch.cmd.op), skip |-> FALSE, adv |-> FALSE,
             wait |-> 0]

LaunchInvalid == launch_req /\ launch_invalid /\ eng' = [eng EXCEPT !.wait = 0]

(* addr_init_q: one row of the framebuffer is stepped over.                *)
SkipRow == Running /\ eng.rows > 0 /\ eng' = [eng EXCEPT !.rows = @ - 1]

(* scale_x_advance_q, scale_y_advance_q.                                   *)
Advance ==
  /\ Running /\ eng.rows = 0 /\ scale_advancing
  /\ eng' = [eng EXCEPT !.adv = env.data, !.wait = 0]

(* A word that was read: blends go on to the destination, then all write.  *)
TakeWord ==
  /\ Answered /\ eng.phase # "write"
  /\ eng' = [eng EXCEPT
               !.phase = IF eng.phase = "src" /\ eng.cmd.op = "alpha" THEN "dst" ELSE "write",
               !.skip = eng.cmd.op = "key" /\ env.data, !.wait = 0]

NextPixel ==
  /\ Answered /\ eng.phase = "write" /\ ~Completes
  /\ eng' = [eng EXCEPT !.pix = @ + 1, !.phase = FirstPhase(eng.cmd.op), !.skip = FALSE,
                        !.adv = eng.cmd.op = "scale" /\ env.data, !.wait = 0]

Complete == Completes /\ eng' = Idle

(* Mutant: the timeout reports an error and goes on waiting.               *)
TimeOut_stays_busy == TimesOut /\ eng' = [eng EXCEPT !.wait = 0]

TimeOut == TimesOut /\ eng' = Idle
Wait == Waits /\ ~TimesOut /\ eng' = [eng EXCEPT !.wait = @ + 1]
Rest == ~soft_reset_req /\ ~launch.pending /\ ~eng.busy /\ eng' = eng

Engine ==
  \/ EngineReset \/ Launch \/ LaunchInvalid \/ SkipRow \/ Advance \/ TakeWord
  \/ NextPixel \/ Complete \/ TimeOut \/ Wait \/ Rest
-----------------------------------------------------------------------------
(* The other registers.                                                    *)

ConfigStep ==
  cfg' = IF valid /\ bus.kind \in {"shape", "fb", "stride"}
         THEN [cfg EXCEPT ![bus.kind] = bus.arg] ELSE cfg

w1c == valid /\ bus.kind = "w1c"

(* Mutant: a launch leaves the done flag alone.                            *)
StatusStep_keeps_done ==
  status' =
    [done  |-> /\ ~soft_reset_req
               /\ IF Completes THEN fifo.count = 0
                  ELSE status.done /\ ~start_accept_req /\ ~submit_req /\ ~w1c,
     error |-> /\ ~soft_reset_req
               /\ \/ TimesOut
                  \/ IF launch_req THEN launch_invalid
                     ELSE IF start_accept_req THEN invalid_start
                     ELSE IF submit_req THEN invalid_submit
                     ELSE status.error /\ ~w1c]

(* Mutant: a command that completes takes the error flag back.             *)
StatusStep_completion_clears ==
  status' =
    [done  |-> /\ ~soft_reset_req /\ ~launch_req
               /\ IF Completes THEN fifo.count = 0
                  ELSE status.done /\ ~start_accept_req /\ ~submit_req /\ ~w1c,
     error |-> /\ ~soft_reset_req /\ ~Completes
               /\ \/ TimesOut
                  \/ IF launch_req THEN launch_invalid
                     ELSE IF start_accept_req THEN invalid_start
                     ELSE IF submit_req THEN invalid_submit
                     ELSE status.error /\ ~w1c]

(* The later assignment of the RTL wins: launch over submit over clearing. *)
StatusStep ==
  status' =
    [done  |-> /\ ~soft_reset_req /\ ~launch_req
               /\ IF Completes THEN fifo.count = 0
                  ELSE status.done /\ ~start_accept_req /\ ~submit_req /\ ~w1c,
     error |-> /\ ~soft_reset_req
               /\ \/ TimesOut
                  \/ IF launch_req THEN launch_invalid
                     ELSE IF start_accept_req THEN invalid_start
                     ELSE IF submit_req THEN invalid_submit
                     ELSE status.error /\ ~w1c]

Accepted == [id |-> count.issued + 1, op |-> bus.arg, shape |-> cfg.shape]
After(p) == IF p = Depth - 1 THEN 0 ELSE p + 1

(* Mutant: the write pointer stays behind.                                 *)
FifoStep_stuck ==
  fifo' =
    IF soft_reset_req THEN [fifo EXCEPT !.wr = 0, !.rd = 0, !.count = 0]
    ELSE IF submit_req /\ ~invalid_submit
    THEN [fifo EXCEPT !.slot[fifo.wr] = Accepted, !.count = @ + 1]
    ELSE IF capture_fifo_req THEN [fifo EXCEPT !.rd = After(@), !.count = @ - 1]
    ELSE fifo

FifoStep ==
  fifo' =
    IF soft_reset_req THEN [fifo EXCEPT !.wr = 0, !.rd = 0, !.count = 0]
    ELSE IF submit_req /\ ~invalid_submit
    THEN [fifo EXCEPT !.slot[fifo.wr] = Accepted, !.wr = After(@), !.count = @ + 1]
    ELSE IF capture_fifo_req THEN [fifo EXCEPT !.rd = After(@), !.count = @ - 1]
    ELSE fifo

LaunchStep ==
  launch' =
    IF soft_reset_req \/ launch_req THEN NoLaunch
    ELSE IF capture_start_req
    THEN [pending |-> TRUE, cmd |-> Accepted, start_wait |-> TRUE]
    ELSE IF capture_fifo_req
    THEN [pending |-> TRUE, cmd |-> fifo.slot[fifo.rd], start_wait |-> FALSE]
    ELSE launch

(* The front end's side of the port.                                       *)
PortStep ==
  port' = IF gpu_ddr_ready THEN [port EXCEPT !.inflight = FALSE]
          ELSE IF gpu_ddr_start THEN [inflight |-> TRUE, req |-> ddr_req]
          ELSE port

(* done is the hardware's counter; issued numbers the commands.            *)
Takes == capture_start_req \/ (submit_req /\ ~invalid_submit)
CountStep ==
  count' =
    [done |-> IF soft_reset_req THEN 0 ELSE IF Completes THEN count.done + 1 ELSE count.done,
     issued |-> IF Takes THEN count.issued + 1 ELSE count.issued]

EndedStep ==
  ended' = IF Completes THEN [id |-> eng.cmd.id, ok |-> TRUE]
           ELSE IF TimesOut THEN [id |-> eng.cmd.id, ok |-> FALSE]
           ELSE IF launch_req /\ launch_invalid THEN [id |-> launch.cmd.id, ok |-> FALSE]
           ELSE ended
-----------------------------------------------------------------------------
(* The surroundings.                                                       *)

(* The core holds an access until it is ready, and is off the bus for at   *)
(* least a cycle after it.                                                 *)
CoreStep ==
  \/ bus.kind # "idle" /\ ready /\ bus' = NoAccess
  \/ bus.kind # "idle" /\ ~ready /\ bus' = bus
  \/ bus.kind = "idle" /\ bus' = NoAccess
  \/ /\ bus.kind = "idle"
     /\ \E kind \in Kinds : \E arg \in Args(kind) :
          /\ kind \in {"start", "submit"} => count.issued < MaxCommands
          /\ \/ count.issued \in Varied
             \/ kind \in {"w1c", "reset"}
             \/ kind = "submit" /\ arg = "fill"
          /\ bus' = [kind |-> kind, arg |-> arg]

(* The next cycle; a choice is made only where it is looked at.            *)
EnvStep ==
  /\ env' \in Env
  /\ env'.free => eng'.busy /\ ~port'.inflight
  /\ env'.ready => eng'.busy \/ port'.inflight
  /\ env'.data => eng'.busy /\ eng'.cmd.op \in {"key", "scale"}
  /\ env'.host => bus'.kind \in Preemptable

Next ==
  /\ Engine
  /\ ConfigStep /\ StatusStep /\ FifoStep /\ LaunchStep /\ PortStep /\ CountStep
  /\ EndedStep /\ CoreStep /\ EnvStep

Spec == Init /\ [][Next]_vars

(* The clock runs, the PS leaves the bus at times, and the source position *)
(* of a scaled copy is reached; nothing is assumed of DDR.                 *)
LiveSpec == Spec /\ WF_vars(Next /\ ~env'.host /\ ~env'.data)
-----------------------------------------------------------------------------
(* Properties.                                                             *)

TypeOK ==
  /\ cfg \in [shape : Shapes, fb : Fbs, stride : Strides]
  /\ status \in [done : BOOLEAN, error : BOOLEAN]
  /\ fifo.slot \in [Slots -> Command \cup {NoCommand}]
  /\ fifo.wr \in Slots /\ fifo.rd \in Slots /\ fifo.count \in 0 .. Depth
  /\ launch \in [pending : BOOLEAN, cmd : Command \cup {NoCommand}, start_wait : BOOLEAN]
  /\ eng \in [busy : BOOLEAN, cmd : Command \cup {NoCommand}, n : Nat, pix : Nat, rows : Nat,
              phase : Phases, skip : BOOLEAN, adv : BOOLEAN, wait : 0 .. WaitTimeout]
  /\ port \in [inflight : BOOLEAN, req : [id : Nat, pix : Nat, phase : Phases]]
  /\ bus.kind = "idle" \/ (bus.kind \in Kinds /\ bus.arg \in Args(bus.kind))
  /\ env \in Env
  /\ count \in [done : Nat, issued : Nat]
  /\ ended \in [id : Nat, ok : BOOLEAN]

(* The commands under way: the one that runs or is being launched, then    *)
(* the FIFO from the read pointer on.                                      *)
Queued == [i \in 1 .. fifo.count |-> fifo.slot[(fifo.rd + i - 1) % Depth]]
UnderWay ==
  (IF eng.busy THEN <<eng.cmd>> ELSE <<>>)
    \o (IF launch.pending THEN <<launch.cmd>> ELSE <<>>) \o Queued

(* Every accepted command, direct or through the FIFO, runs once, in order *)
(* and as it was captured, whatever accesses coincide with captures,       *)
(* launches and completions.                                               *)
Q == INSTANCE CommandQueue WITH
       Capacity <- Depth + 1, queue <- UnderWay, issued <- count.issued,
       completed <- count.done
CommandsInOrder == Q!Spec

(* The answer that the engine takes belongs to the request it makes: no    *)
(* pixel is skipped because of a late answer.  docs/architecture.md:111    *)
(* says that control bit 31 "soft-resets renderer state", and :129 that it *)
(* stays accepted while the engine is busy; but the access in flight and   *)
(* gpu_ddr_inflight outlive the reset (zx32_soc.sv:758), and its answer is *)
(* taken for the first access of the next command.                         *)
AnswersMatch ==
  Answered /\ ~color_key_skip_write => port.inflight /\ port.req = ddr_req

(* What holds all the same: an access that outlives its command, cut off   *)
(* by a soft reset or by the timeout, is taken at most for the very first  *)
(* access of a later command, and from there on the engine and the port    *)
(* are in step again; and once done is up no access is in flight, so that  *)
(* a program may use the framebuffer.                                      *)
StaleAnswers ==
  /\ Answered /\ ~color_key_skip_write /\ ~(port.inflight /\ port.req = ddr_req) =>
       /\ port.inflight /\ port.req.id < eng.cmd.id
       /\ eng.pix = 0 /\ eng.phase = FirstPhase(eng.cmd.op)
  /\ status.done => ~port.inflight

(* Status done and not busy (what wait_done of the userspace tools waits   *)
(* for) means that the last command accepted has run to its end.  (With    *)
(* the types of all registers.)                                            *)
DoneIsFinal ==
  /\ TypeOK
  /\ status.done /\ ~engine_busy => ended = [id |-> count.issued, ok |-> TRUE]

(* A submit that finds the FIFO full is reported, also when the running    *)
(* command completes, or the next one is launched, in the same cycle.      *)
FullIsReported == [][submit_req /\ fifo.count = Depth => status'.error]_vars

(* Every accepted command ends, completed, with an error or by a reset,    *)
(* however the core keeps submitting, and also if DDR does not answer: the *)
(* first one under way does not stay for ever, and the others follow it.   *)
First == IF UnderWay = <<>> THEN 0 ELSE UnderWay[1].id
CommandEnds == []<>(First = 0) \/ []<><<First' # First>>_vars
=============================================================================
