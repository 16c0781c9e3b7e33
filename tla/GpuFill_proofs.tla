--------------------------- MODULE GpuFill_proofs ---------------------------
(***************************************************************************)
(* The fill engine for FIFOs, commands and timeouts of any size: commands  *)
(* run once and in order (it implements CommandQueue), the done flag is    *)
(* never early, a full FIFO is reported, and an answer that is not the     *)
(* engine's own meets at most the first access of a command.               *)
(***************************************************************************)
EXTENDS GpuFill, Integers, SequenceTheorems, TLAPS

(***************************************************************************)
(* The inductive invariant.                                                *)
(***************************************************************************)

\* The i-th command that waits, from the read pointer on.
At(f, i) == f.slot[(f.rd + i - 1) % Depth]

\* The write pointer is count slots ahead of the read pointer.
FifoOK ==
  /\ fifo \in [slot : [Slots -> Command \cup {NoCommand}], wr : Slots, rd : Slots,
               count : 0 .. Depth]
  /\ fifo.wr = (fifo.rd + fifo.count) % Depth

\* A launch is pending only while the engine is idle, and has left the FIFO.
OneAtATime == launch.pending => ~eng.busy /\ fifo.count < Depth

\* What is under way was accepted.
RealCommands ==
  /\ eng.busy => eng.cmd \in Command
  /\ launch.pending => launch.cmd \in Command
  /\ \A i \in 1 .. fifo.count : At(fifo, i) \in Command

\* The commands under way carry the last numbers that were given out, in order.
Numbers ==
  /\ \A i \in 1 .. fifo.count : At(fifo, i).id + fifo.count = count.issued + i
  /\ launch.pending => launch.cmd.id + fifo.count = count.issued
  /\ eng.busy => eng.cmd.id + fifo.count = count.issued

DoneOK ==
  /\ eng.busy => ~status.done
  /\ status.done /\ ~engine_busy => ended = [id |-> count.issued, ok |-> TRUE]

\* The request in flight is the one the engine makes, or one of an earlier
\* command, and then this command has not gone past its first access.
Own == ddr_valid /\ port.req = ddr_req
Stale ==
  port.req.id < eng.cmd.id /\ eng.pix = 0 /\ eng.phase = FirstPhase(eng.cmd.op)

PortOK ==
  /\ port.inflight =>
       /\ port.req.id + fifo.count <= count.issued
       /\ launch.pending => port.req.id < launch.cmd.id
       /\ eng.busy => Own \/ Stale
  /\ status.done => ~port.inflight

Queue == FifoOK /\ OneAtATime /\ RealCommands /\ Numbers
IInv == TypeOK /\ Queue /\ DoneOK /\ PortOK
-----------------------------------------------------------------------------
(* Types.                                                                  *)

LEMMA NoCommandShape == NoCommand.shape \in Shapes /\ NoCommand.id \in Nat
  BY GpuAssumption DEF NoCommand

LEMMA ShapeOf ==
    ASSUME NEW c \in Command \cup {NoCommand}
    PROVE  c.shape \in Shapes /\ c.shape.n \in Nat /\ c.shape.y \in Nat /\ c.id \in Nat
  BY NoCommandShape, GpuAssumption DEF Command

LEMMA IdleType ==
    Idle \in [busy : BOOLEAN, cmd : Command \cup {NoCommand}, n : Nat, pix : Nat, rows : Nat,
              phase : Phases, skip : BOOLEAN, adv : BOOLEAN, wait : 0 .. WaitTimeout]
  BY GpuAssumption DEF Idle, Phases

LEMMA InitType == Init => TypeOK /\ FifoOK
  <1> SUFFICES ASSUME Init PROVE TypeOK /\ FifoOK
    OBVIOUS
  <1>1. /\ 0 \in Slots /\ 0 \in 0 .. Depth
        /\ EmptyFifo.slot \in [Slots -> Command \cup {NoCommand}]
    BY GpuAssumption DEF Slots, EmptyFifo
  <1>2. fifo \in [slot : [Slots -> Command \cup {NoCommand}], wr : Slots, rd : Slots,
                  count : 0 .. Depth]
    BY <1>1 DEF Init, EmptyFifo
  <1>3. fifo.wr = (fifo.rd + fifo.count) % Depth
    BY GpuAssumption DEF Init, EmptyFifo
  <1>4. launch \in [pending : BOOLEAN, cmd : Command \cup {NoCommand}, start_wait : BOOLEAN]
    BY DEF Init, NoLaunch
  <1>5. port \in [inflight : BOOLEAN, req : [id : Nat, pix : Nat, phase : Phases]]
    BY DEF Init, NoRequest, Phases
  <1>6. bus.kind = "idle" /\ env \in Env
    BY DEF Init, NoAccess, Env
  <1> QED BY <1>2, <1>3, <1>4, <1>5, <1>6, IdleType DEF Init, TypeOK, FifoOK

LEMMA ArgTypes ==
    ASSUME TypeOK
    PROVE  /\ valid /\ bus.kind \in {"start", "submit"} => bus.arg \in Ops
           /\ valid /\ bus.kind = "shape" => bus.arg \in Shapes
           /\ valid /\ bus.kind = "fb" => bus.arg \in Fbs
           /\ valid /\ bus.kind = "stride" => bus.arg \in Strides
  BY DEF TypeOK, valid, Args

LEMMA ConfigType ==
    ASSUME TypeOK, ConfigStep
    PROVE  cfg' \in [shape : Shapes, fb : Fbs, stride : Strides]
  BY ArgTypes DEF ConfigStep, TypeOK

LEMMA EngineType ==
    ASSUME TypeOK, Engine
    PROVE  eng' \in [busy : BOOLEAN, cmd : Command \cup {NoCommand}, n : Nat, pix : Nat,
                     rows : Nat, phase : Phases, skip : BOOLEAN, adv : BOOLEAN,
                     wait : 0 .. WaitTimeout]
  <1> USE DEF TypeOK
  <1>0. 0 \in 0 .. WaitTimeout
    BY GpuAssumption
  <1>1. CASE EngineReset \/ Complete \/ TimeOut
    BY <1>1, IdleType DEF EngineReset, Complete, TimeOut
  <1>2. CASE Launch
    <2>1. launch.cmd.shape.n \in Nat /\ launch.cmd.shape.y \in Nat /\ cfg.fb \in Nat
      BY ShapeOf, GpuAssumption
    <2>2. FirstPhase(launch.cmd.op) \in Phases
      BY DEF FirstPhase, Phases
    <2> QED BY <1>0, <1>2, <2>1, <2>2 DEF Launch
  <1>3. CASE LaunchInvalid
    BY <1>0, <1>3 DEF LaunchInvalid
  <1>4. CASE SkipRow
    <2>1. eng.rows - 1 \in Nat
      BY <1>4 DEF SkipRow
    <2> QED BY <1>4, <2>1 DEF SkipRow
  <1>5. CASE Advance
    BY <1>0, <1>5 DEF Advance, Env
  <1>6. CASE TakeWord
    BY <1>0, <1>6 DEF TakeWord, Phases
  <1>7. CASE NextPixel
    <2>1. FirstPhase(eng.cmd.op) \in Phases /\ eng.pix + 1 \in Nat
      BY DEF FirstPhase, Phases
    <2> QED BY <1>0, <1>7, <2>1 DEF NextPixel
  <1>8. CASE Wait
    <2>1. eng.wait + 1 \in 0 .. WaitTimeout
      BY <1>8, GpuAssumption DEF Wait, TimesOut
    <2> QED BY <1>8, <2>1 DEF Wait
  <1>9. CASE Rest
    BY <1>9 DEF Rest
  <1> QED BY <1>1, <1>2, <1>3, <1>4, <1>5, <1>6, <1>7, <1>8, <1>9 DEF Engine

LEMMA AcceptedType ==
    ASSUME TypeOK, Takes
    PROVE  Accepted \in Command
  BY ArgTypes DEF TypeOK, Takes, capture_start_req, start_accept_req, start_req, submit_req, Accepted,
                  Command

LEMMA AfterIs ==
    ASSUME NEW p \in Slots
    PROVE  After(p) \in Slots /\ After(p) = (p + 1) % Depth
  BY GpuAssumption DEF After, Slots

\* The pointers stay below twice the depth.
LEMMA ModIs ==
    ASSUME NEW x \in Nat, x < 2 * Depth
    PROVE  /\ x % Depth = IF x < Depth THEN x ELSE x - Depth
           /\ x % Depth \in Slots
  <1>1. Depth \in Nat \ {0}
    BY GpuAssumption
  <1>2. CASE x < Depth
    BY <1>1, <1>2 DEF Slots
  <1>3. CASE x >= Depth
    <2>1. x - Depth \in 0 .. Depth - 1 /\ x = (x - Depth) + Depth
      BY <1>1, <1>3
    <2>2. ((x - Depth) + Depth) % Depth = x - Depth
      BY <1>1, <2>1
    <2> QED BY <1>1, <1>3, <2>1, <2>2 DEF Slots
  <1> QED BY <1>1, <1>2, <1>3

Push == submit_req /\ ~invalid_submit
Pop == ~soft_reset_req /\ capture_fifo_req
Keep == ~soft_reset_req /\ ~capture_fifo_req /\ ~Push

LEMMA FifoIs ==
    ASSUME FifoOK
    PROVE  /\ fifo.slot \in [Slots -> Command \cup {NoCommand}]
           /\ fifo.wr \in Slots /\ fifo.rd \in Slots /\ fifo.count \in 0 .. Depth
           /\ fifo.wr \in Nat /\ fifo.rd \in Nat /\ fifo.count \in Nat
           /\ fifo.rd < Depth /\ fifo.wr < Depth /\ fifo.count <= Depth
           /\ Depth \in Nat \ {0}
           /\ fifo.wr = (fifo.rd + fifo.count) % Depth
  BY GpuAssumption DEF FifoOK, Slots

LEMMA FifoMoves ==
    ASSUME FifoOK, FifoStep
    PROVE  /\ soft_reset_req => ~Push /\ fifo'.count = 0
           /\ Push => /\ ~Pop /\ ~soft_reset_req /\ fifo'.count = fifo.count + 1 /\ fifo.count # Depth
                      /\ fifo'.rd = fifo.rd
                      /\ fifo'.slot = [fifo.slot EXCEPT ![fifo.wr] = Accepted]
           /\ Pop => /\ fifo.count # 0 /\ fifo'.count = fifo.count - 1
                     /\ fifo'.rd = After(fifo.rd) /\ fifo'.slot = fifo.slot
           /\ Keep => fifo' = fifo
  <1>1. /\ soft_reset_req => ~submit_req
        /\ capture_fifo_req => ~submit_req /\ fifo.count # 0
        /\ Push => fifo.count # Depth /\ submit_req
    BY DEF soft_reset_req, submit_req, capture_fifo_req, Push, invalid_submit
  <1>2. CASE soft_reset_req
    BY <1>1, <1>2 DEF FifoStep, FifoOK, Push, Pop, Keep
  <1>3. CASE Push
    <2>1. ~soft_reset_req /\ ~Pop
      BY <1>1, <1>3 DEF Pop
    <2>2. fifo' = [fifo EXCEPT !.slot[fifo.wr] = Accepted, !.wr = After(@), !.count = @ + 1]
      BY <1>3, <2>1 DEF FifoStep, Push
    <2> QED BY <1>1, <1>3, <2>1, <2>2 DEF FifoOK, Keep
  <1>4. CASE Pop
    <2>1. fifo' = [fifo EXCEPT !.rd = After(@), !.count = @ - 1]
      BY <1>1, <1>4 DEF FifoStep, Pop
    <2> QED BY <1>1, <1>4, <2>1 DEF FifoOK, Pop, Push, Keep
  <1>5. CASE Keep
    BY <1>5 DEF FifoStep, Keep, Push, Pop
  <1> QED BY <1>2, <1>3, <1>4, <1>5 DEF Keep, Pop

LEMMA FifoType ==
    ASSUME TypeOK, FifoOK, FifoStep
    PROVE  FifoOK'
  <1>0. 0 \in Slots /\ 0 \in 0 .. Depth /\ 0 % Depth = 0
    BY GpuAssumption DEF Slots
  <1>1. CASE soft_reset_req
    <2>1. fifo' = [fifo EXCEPT !.wr = 0, !.rd = 0, !.count = 0]
      BY <1>1 DEF FifoStep
    <2>2. fifo'.wr = 0 /\ fifo'.rd = 0 /\ fifo'.count = 0 /\ 0 + 0 = 0
      BY <2>1 DEF FifoOK
    <2>3. fifo' \in [slot : [Slots -> Command \cup {NoCommand}], wr : Slots, rd : Slots,
                     count : 0 .. Depth]
      BY <1>0, <2>1 DEF FifoOK
    <2> QED BY <1>0, <2>2, <2>3 DEF FifoOK
  <1>2. CASE Push
    <2>1. /\ fifo' = [fifo EXCEPT !.slot[fifo.wr] = Accepted, !.wr = After(fifo.wr),
                                  !.count = fifo.count + 1]
          /\ fifo.count # Depth
      BY <1>2 DEF FifoStep, Push, soft_reset_req, submit_req, invalid_submit
    <2>2. Accepted \in Command
      BY <1>2, AcceptedType DEF Push, Takes
    <2>3. After(fifo.wr) \in Slots /\ After(fifo.wr) = (fifo.wr + 1) % Depth
      BY FifoIs, AfterIs
    <2>4. fifo.count + 1 \in 0 .. Depth
      BY <2>1, FifoIs
    <2>5. After(fifo.wr) = (fifo.rd + (fifo.count + 1)) % Depth
      <3>1. /\ fifo.rd + fifo.count < 2 * Depth /\ fifo.rd + (fifo.count + 1) < 2 * Depth
            /\ fifo.rd + fifo.count \in Nat /\ fifo.rd + (fifo.count + 1) \in Nat
        BY <2>4, FifoIs
      <3>2. fifo.wr = IF fifo.rd + fifo.count < Depth THEN fifo.rd + fifo.count
                      ELSE fifo.rd + fifo.count - Depth
        BY <3>1, FifoIs, ModIs
      <3>3. PICK x \in Nat : x = fifo.rd + (fifo.count + 1)
        BY <3>1
      <3>4. x % Depth = IF x < Depth THEN x ELSE x - Depth
        BY <3>1, <3>3, ModIs
      <3>5. After(fifo.wr) = x % Depth
        BY <2>4, <3>1, <3>2, <3>3, <3>4, FifoIs DEF After
      <3> QED BY <3>3, <3>5
    <2>6. fifo' \in [slot : [Slots -> Command \cup {NoCommand}], wr : Slots, rd : Slots,
                     count : 0 .. Depth]
      BY <2>1, <2>2, <2>3, <2>4 DEF FifoOK
    <2>7. fifo'.wr = After(fifo.wr) /\ fifo'.rd = fifo.rd /\ fifo'.count = fifo.count + 1
      BY <2>1 DEF FifoOK
    <2> QED BY <2>5, <2>6, <2>7 DEF FifoOK
  <1>3. CASE Pop
    <2>1. /\ fifo' = [fifo EXCEPT !.rd = After(fifo.rd), !.count = fifo.count - 1]
          /\ fifo.count # 0
      BY <1>3 DEF FifoStep, Pop, capture_fifo_req
    <2>2. After(fifo.rd) \in Slots /\ fifo.count - 1 \in 0 .. Depth
      BY <2>1, FifoIs, AfterIs
    <2>3. fifo.wr = (After(fifo.rd) + (fifo.count - 1)) % Depth
      <3>1. /\ fifo.rd + fifo.count < 2 * Depth /\ After(fifo.rd) + (fifo.count - 1) < 2 * Depth
            /\ fifo.rd + fifo.count \in Nat /\ After(fifo.rd) + (fifo.count - 1) \in Nat
            /\ After(fifo.rd) \in Nat
        <4>1. After(fifo.rd) \in Nat /\ After(fifo.rd) < Depth /\ fifo.count - 1 \in Nat
          BY <2>1, <2>2, FifoIs DEF Slots
        <4> QED BY <4>1, FifoIs
      <3>2. fifo.wr = IF fifo.rd + fifo.count < Depth THEN fifo.rd + fifo.count
                      ELSE fifo.rd + fifo.count - Depth
        BY <3>1, FifoIs, ModIs
      <3>3. PICK x \in Nat : x = After(fifo.rd) + (fifo.count - 1)
        BY <3>1
      <3>4. x % Depth = IF x < Depth THEN x ELSE x - Depth
        BY <3>1, <3>3, ModIs
      <3>5. fifo.wr = x % Depth
        BY <2>1, <3>1, <3>2, <3>3, <3>4, FifoIs DEF After
      <3> QED BY <3>3, <3>5
    <2>4. fifo' \in [slot : [Slots -> Command \cup {NoCommand}], wr : Slots, rd : Slots,
                     count : 0 .. Depth]
      BY <2>1, <2>2 DEF FifoOK
    <2>5. fifo'.wr = fifo.wr /\ fifo'.rd = After(fifo.rd) /\ fifo'.count = fifo.count - 1
      BY <2>1 DEF FifoOK
    <2> QED BY <2>3, <2>4, <2>5 DEF FifoOK
  <1>4. CASE Keep
    BY <1>4, FifoMoves DEF FifoOK
  <1> QED BY <1>1, <1>2, <1>3, <1>4 DEF Keep, Pop

LEMMA StepType ==
    ASSUME TypeOK, FifoOK, Next
    PROVE  TypeOK' /\ FifoOK'
  <1>1. cfg' \in [shape : Shapes, fb : Fbs, stride : Strides]
    BY ConfigType DEF Next
  <1>2. status' \in [done : BOOLEAN, error : BOOLEAN]
    BY DEF Next, StatusStep
  <1>3. FifoOK'
    BY FifoType DEF Next
  <1>4. launch' \in [pending : BOOLEAN, cmd : Command \cup {NoCommand}, start_wait : BOOLEAN]
    <2>1. NoLaunch \in [pending : BOOLEAN, cmd : Command \cup {NoCommand}, start_wait : BOOLEAN]
      BY DEF NoLaunch
    <2>2. capture_start_req => Accepted \in Command
      BY AcceptedType DEF Takes
    <2>3. fifo.slot[fifo.rd] \in Command \cup {NoCommand}
      BY FifoIs
    <2> QED BY <2>1, <2>2, <2>3 DEF Next, LaunchStep, TypeOK
  <1>5. eng' \in [busy : BOOLEAN, cmd : Command \cup {NoCommand}, n : Nat, pix : Nat,
                  rows : Nat, phase : Phases, skip : BOOLEAN, adv : BOOLEAN,
                  wait : 0 .. WaitTimeout]
    BY EngineType DEF Next
  <1>6. port' \in [inflight : BOOLEAN, req : [id : Nat, pix : Nat, phase : Phases]]
    <2>1. ddr_req \in [id : Nat, pix : Nat, phase : Phases]
      BY ShapeOf DEF TypeOK, ddr_req
    <2> QED BY <2>1 DEF Next, PortStep, TypeOK
  <1>7. bus'.kind = "idle" \/ (bus'.kind \in Kinds /\ bus'.arg \in Args(bus'.kind))
    BY DEF Next, CoreStep, NoAccess, TypeOK
  <1>8. env' \in Env
    BY DEF Next, EnvStep
  <1>9. count' \in [done : Nat, issued : Nat]
    BY DEF Next, CountStep, TypeOK
  <1>10. ended' \in [id : Nat, ok : BOOLEAN]
    <2>1. eng.cmd.id \in Nat /\ launch.cmd.id \in Nat
      BY ShapeOf DEF TypeOK
    <2> QED BY <2>1 DEF Next, EndedStep, TypeOK
  <1>11. /\ fifo'.slot \in [Slots -> Command \cup {NoCommand}]
         /\ fifo'.wr \in Slots /\ fifo'.rd \in Slots /\ fifo'.count \in 0 .. Depth
    BY <1>3 DEF FifoOK
  <1> QED BY <1>1, <1>2, <1>3, <1>4, <1>5, <1>6, <1>7, <1>8, <1>9, <1>10, <1>11 DEF TypeOK, Args
-----------------------------------------------------------------------------
(* The queue.                                                              *)

\* A push leaves the waiting commands alone and joins behind them; a pop takes
\* the first one.
LEMMA PushItems ==
    ASSUME FifoOK, FifoStep, Push
    PROVE  /\ \A i \in 1 .. fifo.count : At(fifo', i) = At(fifo, i)
           /\ At(fifo', fifo.count + 1) = Accepted
  <1>1. /\ fifo.count # Depth /\ fifo'.rd = fifo.rd
        /\ fifo'.slot = [fifo.slot EXCEPT ![fifo.wr] = Accepted]
    BY FifoMoves
  <1>2. fifo.rd + fifo.count \in Nat /\ fifo.rd + fifo.count < 2 * Depth
    BY FifoIs
  <1>3. fifo.wr = IF fifo.rd + fifo.count < Depth THEN fifo.rd + fifo.count
                  ELSE fifo.rd + fifo.count - Depth
    BY <1>2, FifoIs, ModIs
  <1>4. ASSUME NEW i \in 1 .. fifo.count PROVE At(fifo', i) = At(fifo, i)
    <2>0. i \in Nat /\ 1 <= i /\ i <= fifo.count
      BY FifoIs
    <2>1. PICK x \in Nat : x = fifo.rd + i - 1 /\ x < 2 * Depth
      BY <2>0, FifoIs
    <2>2. x % Depth \in Slots /\ x % Depth = IF x < Depth THEN x ELSE x - Depth
      BY <2>1, ModIs
    <2>3. x % Depth # fifo.wr
      <3>1. fifo.count < Depth /\ fifo.rd < Depth
        BY <1>1, FifoIs
      <3> QED BY <1>3, <2>0, <2>1, <2>2, <3>1, FifoIs
    <2> QED BY <1>1, <2>1, <2>2, <2>3, FifoIs DEF At
  <1>5. fifo.rd + (fifo.count + 1) - 1 = fifo.rd + fifo.count
    BY FifoIs
  <1>6. At(fifo', fifo.count + 1) = Accepted
    BY <1>1, <1>5, FifoIs DEF At
  <1> QED BY <1>4, <1>6

LEMMA PopItems ==
    ASSUME FifoOK, FifoStep, Pop
    PROVE  /\ \A i \in 1 .. fifo.count - 1 : At(fifo', i) = At(fifo, i + 1)
           /\ At(fifo, 1) = fifo.slot[fifo.rd]
  <1>1. fifo.count # 0 /\ fifo'.rd = After(fifo.rd) /\ fifo'.slot = fifo.slot
    BY FifoMoves
  <1>2. ASSUME NEW i \in 1 .. fifo.count - 1 PROVE At(fifo', i) = At(fifo, i + 1)
    <2>0. i \in Nat /\ 1 <= i /\ i < fifo.count
      BY FifoIs
    <2>1. PICK x \in Nat : x = fifo.rd + (i + 1) - 1 /\ x < 2 * Depth
      BY FifoIs
    <2>2. x % Depth = IF x < Depth THEN x ELSE x - Depth
      BY <2>1, ModIs
    <2>3. PICK y \in Nat : y = After(fifo.rd) + i - 1 /\ y < 2 * Depth
      <3>1. After(fifo.rd) \in Nat /\ After(fifo.rd) < Depth
        <4>1. After(fifo.rd) \in Slots
          BY FifoIs, AfterIs
        <4> QED BY <4>1, FifoIs DEF Slots
      <3>2. After(fifo.rd) + i - 1 \in Nat /\ After(fifo.rd) + i - 1 < 2 * Depth
        BY <2>0, <3>1, FifoIs
      <3> QED BY <3>2
    <2>4. y % Depth = IF y < Depth THEN y ELSE y - Depth
      BY <2>3, ModIs
    <2>5. x % Depth = y % Depth
      BY <2>1, <2>2, <2>3, <2>4, FifoIs DEF After
    <2> QED BY <1>1, <2>1, <2>3, <2>5 DEF At
  <1>3. fifo.rd + 1 - 1 = fifo.rd /\ fifo.rd % Depth = fifo.rd
    BY FifoIs
  <1> QED BY <1>2, <1>3 DEF At

LEMMA KeepItems ==
    ASSUME FifoOK, FifoStep, Keep
    PROVE  fifo' = fifo
  BY FifoMoves

\* How commands enter and leave the engine.
Ends == Completes \/ TimesOut

LEMMA EngineMoves ==
    ASSUME TypeOK, OneAtATime, Engine
    PROVE  /\ Ends => eng.busy /\ ~launch.pending /\ ~soft_reset_req /\ ~eng'.busy
           /\ ~(Completes /\ TimesOut)
           /\ soft_reset_req => ~eng'.busy
           /\ launch_req => /\ ~eng.busy /\ launch.pending
                            /\ eng'.busy <=> ~launch_invalid
                            /\ eng'.busy => eng'.cmd = launch.cmd
           /\ ~soft_reset_req /\ ~launch_req /\ ~Ends =>
                (eng'.busy <=> eng.busy) /\ eng'.cmd = eng.cmd
  <1>1. /\ Completes => Answered
        /\ TimesOut => Waits
        /\ ~(Answered /\ Waits)
        /\ Answered \/ Waits => Running
        /\ Running => eng.busy /\ ~launch.pending /\ ~soft_reset_req /\ ~launch_req
    BY DEF Completes, TimesOut, Answered, Waits, Running, launch_req
  <1>2. /\ launch_req => launch.pending /\ ~soft_reset_req /\ ~eng.busy /\ ~Running
        /\ ~Idle.busy
    BY DEF launch_req, OneAtATime, Running, Idle
  <1>3. CASE EngineReset
    BY <1>1, <1>2, <1>3 DEF EngineReset, Ends, launch_req
  <1>4. CASE Complete
    BY <1>1, <1>2, <1>4 DEF Complete, Ends
  <1>5. CASE TimeOut
    BY <1>1, <1>2, <1>5 DEF TimeOut, Ends
  <1>6. CASE Launch
    <2>1. eng'.busy /\ eng'.cmd = launch.cmd
      BY <1>6 DEF Launch
    <2> QED BY <1>1, <1>2, <1>6, <2>1 DEF Launch, Ends
  <1>7. CASE LaunchInvalid
    <2>1. eng'.busy = eng.busy
      BY <1>7 DEF LaunchInvalid, TypeOK
    <2> QED BY <1>1, <1>2, <1>7, <2>1 DEF LaunchInvalid, Ends
  <1>8. CASE SkipRow \/ Advance \/ TakeWord \/ NextPixel \/ Wait
    <2>1. Running /\ ~Ends
      BY <1>8 DEF SkipRow, Advance, TakeWord, NextPixel, Wait, Ends, Completes, TimesOut, Answered,
                  Waits, Running
    <2>2. eng'.busy = eng.busy /\ eng'.cmd = eng.cmd
      BY <1>8 DEF SkipRow, Advance, TakeWord, NextPixel, Wait, TypeOK
    <2> QED BY <1>1, <1>2, <2>1, <2>2
  <1>9. CASE Rest
    BY <1>1, <1>2, <1>9 DEF Rest, Ends, launch_req
  <1> QED BY <1>3, <1>4, <1>5, <1>6, <1>7, <1>8, <1>9 DEF Engine

LEMMA InitQueue == Init => Queue /\ DoneOK /\ PortOK
  <1> SUFFICES ASSUME Init PROVE Queue /\ DoneOK /\ PortOK
    OBVIOUS
  <1>1. FifoOK
    BY InitType
  <1>2. /\ fifo.count = 0 /\ ~launch.pending /\ ~eng.busy /\ ~status.done /\ ~port.inflight
    BY DEF Init, EmptyFifo, NoLaunch, Idle
  <1>3. 1 .. 0 = {}
    OBVIOUS
  <1> QED BY <1>1, <1>2, <1>3
          DEF Queue, OneAtATime, RealCommands, Numbers, DoneOK, PortOK, engine_busy

\* What the launch stage does.
LEMMA LaunchMoves ==
    ASSUME TypeOK, LaunchStep
    PROVE  /\ soft_reset_req \/ launch_req => ~launch'.pending
           /\ capture_start_req =>
                /\ ~launch_req /\ ~engine_busy /\ ~soft_reset_req /\ ~Push /\ ~Pop
                /\ launch'.pending /\ launch'.cmd = Accepted
           /\ Pop => /\ ~launch_req /\ ~eng.busy /\ ~launch.pending
                     /\ launch'.pending /\ launch'.cmd = fifo.slot[fifo.rd]
           /\ ~soft_reset_req /\ ~launch_req /\ ~capture_start_req /\ ~Pop => launch' = launch
           /\ launch.pending => soft_reset_req \/ launch_req
  <1>1. /\ launch.pending <=> launch_req \/ (launch.pending /\ soft_reset_req)
        /\ capture_start_req => ~engine_busy /\ ~soft_reset_req /\ start_req
        /\ start_req => ~Push /\ ~capture_fifo_req
        /\ engine_busy <=> eng.busy \/ launch.pending \/ fifo.count # 0
        /\ capture_fifo_req => ~eng.busy /\ ~launch.pending
    BY DEF launch_req, capture_start_req, start_accept_req, start_req, soft_reset_req, Push, submit_req,
           invalid_start, engine_busy, capture_fifo_req
  <1>2. launch_req => launch.pending
    BY DEF launch_req
  <1>3. ~NoLaunch.pending
    BY DEF NoLaunch
  <1> QED BY <1>1, <1>2, <1>3 DEF LaunchStep, Pop

LEMMA IssuedMoves ==
    ASSUME TypeOK, CountStep
    PROVE  /\ count'.issued = IF capture_start_req \/ Push THEN count.issued + 1 ELSE count.issued
           /\ count'.done = IF soft_reset_req THEN 0
                            ELSE IF Completes THEN count.done + 1 ELSE count.done
           /\ Accepted.id = count.issued + 1
  BY DEF CountStep, Takes, Push, Accepted

LEMMA StepQueue ==
    ASSUME TypeOK, Queue, Next
    PROVE  OneAtATime' /\ RealCommands' /\ Numbers'
  <1> USE DEF Queue, Next
  <1>0. FifoOK /\ FifoOK' /\ fifo.count \in Nat /\ Depth \in Nat \ {0} /\ fifo.count <= Depth
    BY StepType, FifoIs
  <1>1. CASE soft_reset_req
    <2>1. fifo'.count = 0 /\ ~launch'.pending /\ ~eng'.busy
      BY <1>1, FifoMoves, LaunchMoves, EngineMoves
    <2>2. 1 .. 0 = {}
      OBVIOUS
    <2> QED BY <2>1, <2>2 DEF OneAtATime, RealCommands, Numbers
  <1>2. CASE capture_start_req
    <2>1. /\ fifo.count = 0 /\ ~launch.pending /\ ~eng.busy /\ ~launch_req /\ ~soft_reset_req
          /\ ~Push /\ ~Pop
      BY <1>2, LaunchMoves DEF engine_busy
    <2>2. launch'.pending /\ launch'.cmd = Accepted /\ Accepted \in Command
      BY <1>2, LaunchMoves, AcceptedType DEF Takes
    <2>3. fifo' = fifo /\ ~eng'.busy
      BY <2>1, FifoMoves, EngineMoves DEF Keep, Pop
    <2>4. launch'.cmd.id = count'.issued /\ count'.issued + 0 = count'.issued
      BY <1>2, <2>2, IssuedMoves DEF TypeOK
    <2>5. 1 .. 0 = {}
      OBVIOUS
    <2> QED BY <1>0, <2>1, <2>2, <2>3, <2>4, <2>5 DEF OneAtATime, RealCommands, Numbers
  <1>3. CASE Pop
    <2>1. /\ fifo.count # 0 /\ fifo'.count = fifo.count - 1 /\ ~Push /\ ~soft_reset_req
          /\ ~capture_start_req /\ ~launch_req /\ ~eng.busy
      BY <1>3, FifoMoves, LaunchMoves
    <2>2. /\ launch'.pending /\ launch'.cmd = At(fifo, 1) /\ ~eng'.busy
          /\ \A i \in 1 .. fifo.count - 1 : At(fifo', i) = At(fifo, i + 1)
      BY <1>3, <2>1, LaunchMoves, PopItems, EngineMoves
    <2>3. /\ 1 \in 1 .. fifo.count /\ fifo.count - 1 \in Nat
          /\ \A i \in 1 .. fifo.count - 1 : i + 1 \in 1 .. fifo.count
          /\ fifo.count - 1 # 0 => fifo.count - 1 \in 1 .. fifo.count - 1
          /\ fifo.count - 1 = 0 => fifo.count = 1
          /\ (fifo.count - 1) + 1 = fifo.count
      BY <1>0, <2>1
    <2>4. OneAtATime'
      BY <1>0, <2>1, <2>2 DEF OneAtATime
    <2>5. RealCommands'
      BY <2>1, <2>2, <2>3 DEF RealCommands
    <2>6. count'.issued = count.issued
      BY <2>1, IssuedMoves
    <2>7. /\ launch'.cmd.id + fifo'.count = count'.issued
          /\ \A i \in 1 .. fifo.count - 1 : At(fifo', i).id + fifo'.count = count'.issued + i
      <3>1. \A i \in 1 .. fifo.count :
              At(fifo, i).id \in Nat /\ At(fifo, i).id + fifo.count = count.issued + i
        BY ShapeOf DEF RealCommands, Numbers
      <3>2. launch'.cmd.id + (fifo.count - 1) = count.issued
        BY <1>0, <2>2, <2>3, <3>1 DEF TypeOK
      <3>3. ASSUME NEW i \in 1 .. fifo.count - 1
            PROVE  At(fifo', i).id + (fifo.count - 1) = count.issued + i
        <4>1. At(fifo', i).id + fifo.count = count.issued + (i + 1) /\ At(fifo', i).id \in Nat
          BY <2>2, <2>3, <3>1
        <4> QED BY <1>0, <2>3, <4>1 DEF TypeOK
      <3> QED BY <2>1, <2>6, <3>2, <3>3
    <2>8. Numbers'
      BY <2>1, <2>2, <2>7 DEF Numbers, At
    <2> QED BY <2>4, <2>5, <2>8
  <1>4. CASE ~soft_reset_req /\ ~capture_start_req /\ ~Pop
    <2>1. /\ eng'.busy => (eng.busy /\ eng'.cmd = eng.cmd) \/ (launch.pending /\ eng'.cmd = launch.cmd)
          /\ ~launch'.pending
      BY <1>4, LaunchMoves, EngineMoves
    <2>2. CASE Push
      <3>1. /\ fifo'.count = fifo.count + 1 /\ At(fifo', fifo.count + 1) = Accepted
            /\ \A i \in 1 .. fifo.count : At(fifo', i) = At(fifo, i)
            /\ Accepted \in Command /\ count'.issued = Accepted.id
        BY <2>2, FifoMoves, PushItems, AcceptedType, IssuedMoves DEF Takes, Push
      <3>2. /\ \A i \in 1 .. fifo.count + 1 : i \in 1 .. fifo.count \/ i = fifo.count + 1
            /\ fifo.count + 1 # 0
        BY <1>0
      <3>3. OneAtATime' /\ RealCommands'
        BY <2>1, <3>1, <3>2 DEF OneAtATime, RealCommands
      <3>4. /\ count'.issued = count.issued + 1 /\ count.issued \in Nat
            /\ Accepted.id = count.issued + 1
        BY <2>2, <3>1, IssuedMoves DEF TypeOK
      <3>5. eng'.busy => eng'.cmd.id + fifo'.count = count'.issued
        <4>1. eng'.busy => eng'.cmd.id \in Nat /\ eng'.cmd.id + fifo.count = count.issued
          BY <2>1, ShapeOf DEF RealCommands, Numbers
        <4> QED BY <1>0, <3>1, <3>4, <4>1
      <3>6. ASSUME NEW i \in 1 .. fifo.count + 1
            PROVE  At(fifo', i).id + (fifo.count + 1) = count'.issued + i
        <4>1. CASE i \in 1 .. fifo.count
          <5>1. At(fifo', i).id \in Nat /\ At(fifo', i).id + fifo.count = count.issued + i
            BY <3>1, <4>1, ShapeOf DEF RealCommands, Numbers
          <5> QED BY <1>0, <3>4, <4>1, <5>1
        <4>2. CASE i = fifo.count + 1
          BY <1>0, <3>1, <3>4, <4>2
        <4> QED BY <3>2, <4>1, <4>2
      <3> QED BY <2>1, <3>1, <3>3, <3>5, <3>6 DEF Numbers, At
    <2>3. CASE ~Push
      <3>1. fifo' = fifo /\ count'.issued = count.issued
        BY <1>4, <2>3, FifoMoves, IssuedMoves DEF Keep, Pop
      <3> QED BY <2>1, <3>1 DEF OneAtATime, RealCommands, Numbers
    <2> QED BY <2>2, <2>3
  <1> QED BY <1>1, <1>2, <1>3, <1>4
-----------------------------------------------------------------------------
(* The done flag.                                                          *)

LEMMA StepDone ==
    ASSUME TypeOK, Queue, DoneOK, Next
    PROVE  DoneOK'
  <1> USE DEF Queue, Next
  <1>1. /\ status'.done <=> /\ ~soft_reset_req /\ ~launch_req
                            /\ IF Completes THEN fifo.count = 0
                               ELSE status.done /\ ~start_accept_req /\ ~submit_req /\ ~w1c
    BY DEF StatusStep
  <1>2. eng'.busy => ~status'.done
    BY <1>1, EngineMoves DEF DoneOK, Ends
  <1>3. ASSUME status'.done, ~engine_busy'
        PROVE  ended' = [id |-> count'.issued, ok |-> TRUE]
    <2>1. ~eng'.busy /\ ~launch'.pending /\ fifo'.count = 0 /\ ~soft_reset_req /\ ~launch_req
      BY <1>1, <1>3 DEF engine_busy
    <2>2. ~launch.pending /\ ~capture_start_req /\ ~Pop
      BY <2>1, LaunchMoves
    <2>3. ~Push /\ fifo' = fifo /\ fifo.count = 0
      BY <2>1, <2>2, FifoMoves, FifoIs DEF Keep, Pop
    <2>4. count'.issued = count.issued
      BY <2>2, <2>3, IssuedMoves
    <2>5. CASE Completes
      <3>1. eng.busy /\ eng.cmd.id + 0 = count.issued /\ eng.cmd.id \in Nat
        BY <2>3, <2>5, EngineMoves, ShapeOf DEF Numbers, Ends, TypeOK
      <3>2. eng.cmd.id = count.issued
        BY <3>1 DEF TypeOK
      <3> QED BY <2>4, <2>5, <3>2 DEF EndedStep
    <2>6. CASE ~Completes
      <3>1. status.done /\ ~eng.busy
        BY <1>1, <1>3, <2>6 DEF DoneOK
      <3>2. ~TimesOut /\ ~engine_busy
        BY <2>2, <2>3, <3>1, EngineMoves DEF Ends, engine_busy
      <3>3. ended' = ended
        BY <2>1, <2>6, <3>2 DEF EndedStep
      <3> QED BY <2>4, <3>1, <3>2, <3>3 DEF DoneOK
    <2> QED BY <2>5, <2>6
  <1> QED BY <1>2, <1>3 DEF DoneOK
-----------------------------------------------------------------------------
(* The port on the DDR front end.                                          *)

\* While a request is on the wires and unanswered, the engine only waits.
LEMMA OnlyWaits ==
    ASSUME TypeOK, OneAtATime, Engine, ddr_valid, ~soft_reset_req, ~gpu_ddr_ready,
           eng.wait # WaitTimeout
    PROVE  eng' = [eng EXCEPT !.wait = @ + 1]
  <1>1. /\ eng.busy /\ eng.rows = 0 /\ ~scale_advancing /\ ~color_key_skip_write
        /\ ~launch.pending /\ ~launch_req
    BY DEF ddr_valid, OneAtATime, launch_req
  <1>2. ~Answered /\ ~Completes /\ ~TimesOut
    BY <1>1 DEF Answered, Completes, TimesOut
  <1> QED BY <1>1, <1>2 DEF Engine, EngineReset, Launch, LaunchInvalid, SkipRow, Advance, TakeWord,
                            NextPixel, Complete, TimeOut, Wait, Rest

\* A stale request leaves the command where it is: what it could be taken for is
\* still to be asked for.
LEMMA StaleWaits ==
    ASSUME TypeOK, Engine, eng.busy, Stale, ~soft_reset_req, ~launch_req, ~gpu_ddr_ready, ~TimesOut,
           eng'.busy
    PROVE  eng'.pix = eng.pix /\ eng'.phase = eng.phase /\ eng'.cmd = eng.cmd
  <1>1. ~color_key_skip_write
    BY DEF Stale, FirstPhase, op_blit_like, color_key_skip_write
  <1>2. ~Answered /\ ~Completes
    BY <1>1 DEF Answered, Completes
  <1> QED BY <1>2 DEF Engine, EngineReset, Launch, LaunchInvalid, SkipRow, Advance, TakeWord,
                      NextPixel, Complete, TimeOut, Wait, Rest, TypeOK

LEMMA StepPort ==
    ASSUME TypeOK, Queue, DoneOK, PortOK, Next
    PROVE  PortOK'
  <1> USE DEF Next, Queue
  <1>0. /\ port.req.id \in Nat /\ eng.cmd.id \in Nat /\ launch.cmd.id \in Nat
        /\ fifo.count \in Nat /\ count.issued \in Nat /\ TypeOK'
    BY ShapeOf, FifoIs, StepType DEF TypeOK
  <1>1. port'.inflight =>
          /\ ~gpu_ddr_ready
          /\ \/ port.inflight /\ port'.req = port.req
             \/ gpu_ddr_start /\ ~port.inflight /\ port'.req = ddr_req
    BY DEF PortStep, TypeOK, gpu_ddr_start
  <1>2. gpu_ddr_start => eng.busy /\ ddr_valid
    BY DEF gpu_ddr_start, ddr_valid
  <1>3. port'.inflight => port'.req.id \in Nat /\ port'.req.id + fifo.count <= count.issued
    <2>1. ddr_req.id = eng.cmd.id
      BY DEF ddr_req
    <2> QED BY <1>0, <1>1, <1>2, <2>1 DEF PortOK, Numbers
  <1>4. port'.inflight => port'.req.id + fifo'.count <= count'.issued
    <2>1. CASE soft_reset_req
      <3>1. fifo'.count = 0 /\ count'.issued = count.issued
        BY <2>1, FifoMoves, LaunchMoves, IssuedMoves
      <3> QED BY <1>0, <1>3, <3>1
    <2>2. CASE Push
      <3>1. fifo'.count = fifo.count + 1 /\ count'.issued = count.issued + 1
        BY <2>2, FifoMoves, IssuedMoves
      <3> QED BY <1>0, <1>3, <3>1
    <2>3. CASE ~soft_reset_req /\ ~Push
      <3>1. /\ fifo'.count = fifo.count \/ fifo'.count = fifo.count - 1
            /\ count'.issued = count.issued \/ count'.issued = count.issued + 1
        BY <2>3, FifoMoves, IssuedMoves DEF Keep, Pop
      <3> QED BY <1>0, <1>3, <3>1
    <2> QED BY <2>1, <2>2, <2>3
  <1>5. ASSUME port'.inflight, launch'.pending PROVE port'.req.id < launch'.cmd.id
    <2>1. ~soft_reset_req /\ ~launch_req
      BY <1>5, LaunchMoves
    <2>2. CASE capture_start_req
      <3>1. launch'.cmd.id = count.issued + 1
        BY <2>2, LaunchMoves, IssuedMoves
      <3> QED BY <1>0, <1>3, <1>5, <3>1
    <2>3. CASE Pop
      <3>1. launch'.cmd = At(fifo, 1) /\ 1 \in 1 .. fifo.count
        BY <1>0, <2>3, LaunchMoves, PopItems, FifoMoves
      <3>2. launch'.cmd.id + fifo.count = count.issued + 1 /\ launch'.cmd.id \in Nat
        BY <3>1, ShapeOf DEF Numbers, RealCommands
      <3> QED BY <1>0, <1>3, <1>5, <3>2
    <2>4. CASE ~capture_start_req /\ ~Pop
      BY <1>5, <2>1, <2>4, LaunchMoves
    <2> QED BY <2>2, <2>3, <2>4
  <1>6. ASSUME port'.inflight, eng'.busy PROVE Own' \/ Stale'
    <2>1. ~soft_reset_req
      BY <1>6, EngineMoves
    <2>2. CASE launch_req
      <3>1. ~eng.busy /\ launch.pending /\ ~launch_invalid /\ eng'.cmd = launch.cmd
        BY <1>6, <2>2, EngineMoves
      <3>2. port.inflight /\ port'.req = port.req
        BY <1>1, <1>2, <1>6, <3>1
      <3>3. eng'.pix = 0 /\ eng'.phase = FirstPhase(launch.cmd.op)
        BY <2>1, <2>2, <3>1 DEF Engine, EngineReset, Launch, LaunchInvalid, SkipRow, Advance, TakeWord,
                                NextPixel, Complete, TimeOut, Wait, Rest, Running, Completes, TimesOut,
                                Answered, Waits, launch_req
      <3> QED BY <3>1, <3>2, <3>3 DEF PortOK, Stale, FirstPhase, op_blit_like
    <2>3. CASE ~launch_req
      <3>1. eng.busy /\ eng'.cmd = eng.cmd /\ ~Ends /\ ~gpu_ddr_ready /\ ~launch.pending
        BY <1>1, <1>6, <2>1, <2>3, EngineMoves DEF launch_req
      <3>2. (ddr_valid /\ port'.req = ddr_req) \/ (Stale /\ port'.req = port.req)
        BY <1>1, <1>2, <1>6, <3>1 DEF PortOK, Own
      <3>3. CASE ddr_valid /\ port'.req = ddr_req
        <4>1. eng.wait # WaitTimeout
          BY <2>1, <3>1, <3>3 DEF Ends, TimesOut, Waits, Running, ddr_valid
        <4>2. eng' = [eng EXCEPT !.wait = @ + 1]
          BY <2>1, <3>1, <3>3, <4>1, OnlyWaits
        <4>3. /\ eng'.busy = eng.busy /\ eng'.rows = eng.rows /\ eng'.cmd = eng.cmd /\ eng'.adv = eng.adv
              /\ eng'.phase = eng.phase /\ eng'.skip = eng.skip /\ eng'.pix = eng.pix
          BY <4>2 DEF TypeOK
        <4> QED BY <3>3, <4>3 DEF Own, ddr_valid, ddr_req, scale_advancing, color_key_skip_write
      <3>4. CASE Stale /\ port'.req = port.req
        <4>1. eng'.pix = eng.pix /\ eng'.phase = eng.phase /\ eng'.cmd = eng.cmd
          BY <1>6, <2>1, <2>3, <3>1, <3>4, StaleWaits DEF Ends
        <4> QED BY <3>4, <4>1 DEF Stale, FirstPhase, op_blit_like
      <3> QED BY <3>2, <3>3, <3>4
    <2> QED BY <2>2, <2>3
  <1>7. ASSUME status'.done, port'.inflight PROVE FALSE
    <2>1. Completes \/ status.done
      BY <1>7 DEF StatusStep
    <2>2. CASE Completes
      <3>1. color_key_skip_write /\ eng.busy
        BY <1>1, <1>7, <2>2 DEF Completes, Answered, color_key_skip_write
      <3>2. ~ddr_valid /\ ~Stale
        BY <3>1 DEF ddr_valid, Stale, FirstPhase, op_blit_like, color_key_skip_write
      <3> QED BY <1>1, <1>2, <1>7, <3>1, <3>2 DEF PortOK, Own
    <2>3. CASE status.done
      <3>1. ~port.inflight /\ ~eng.busy
        BY <2>3 DEF PortOK, DoneOK
      <3> QED BY <1>1, <1>2, <1>7, <3>1
    <2> QED BY <2>1, <2>2, <2>3
  <1> QED BY <1>4, <1>5, <1>6, <1>7 DEF PortOK
-----------------------------------------------------------------------------
(* The theorems.                                                           *)

LEMMA StepInvariant ==
    ASSUME IInv, [Next]_vars
    PROVE  IInv'
  <1>1. CASE Next
    <2>1. TypeOK /\ Queue /\ DoneOK /\ PortOK /\ FifoOK
      BY DEF IInv, Queue
    <2>2. TypeOK' /\ FifoOK'
      BY <1>1, <2>1, StepType
    <2>3. OneAtATime' /\ RealCommands' /\ Numbers'
      BY <1>1, <2>1, StepQueue
    <2> QED BY <1>1, <2>1, <2>2, <2>3, StepDone, StepPort DEF IInv, Queue
  <1>2. CASE UNCHANGED vars
    BY <1>2 DEF IInv, vars, TypeOK, Queue, FifoOK, OneAtATime, RealCommands, Numbers, DoneOK, PortOK,
                Own, Stale, FirstPhase, op_blit_like, At, engine_busy, ddr_valid, ddr_req,
                scale_advancing, color_key_skip_write
  <1> QED BY <1>1, <1>2

(* The fill engine's invariant (mmio_gpu_fill.sv): types, the FIFO's       *)
(* pointers, who holds the command that runs, how the commands under way   *)
(* are numbered, and whose request is in flight.                           *)
THEOREM Invariance == Spec => []IInv
  <1>1. Init => IInv
    BY InitType, InitQueue DEF IInv
  <1>2. IInv /\ [Next]_vars => IInv'
    BY StepInvariant
  <1> QED BY <1>1, <1>2, PTL DEF Spec

(* Status done and not busy means that the last command accepted has run   *)
(* to its end, for a FIFO and a timeout of any size (mmio_gpu_fill.sv,     *)
(* done_q).                                                                *)
THEOREM DoneNeverEarly == Spec => []DoneIsFinal
  <1>1. IInv => DoneIsFinal
    BY DEF IInv, DoneOK, DoneIsFinal
  <1> QED BY <1>1, Invariance, PTL

(* An access that a soft reset or a timeout leaves in flight is taken at   *)
(* most for the very first access of a later command (gpu_ddr_inflight of  *)
(* zx32_soc.sv), whatever the reset, the timeout and DDR do; and once done *)
(* is up nothing is in flight.                                             *)
THEOREM LateAnswersMeetFirst == Spec => []StaleAnswers
  <1>1. IInv => StaleAnswers
    <2> SUFFICES ASSUME IInv PROVE StaleAnswers
      OBVIOUS
    <2>1. PortOK
      BY DEF IInv
    <2>2. Answered /\ ~color_key_skip_write => port.inflight /\ eng.busy
      BY DEF Answered, gpu_ddr_ready, Running
    <2> QED BY <2>1, <2>2 DEF PortOK, Own, Stale, StaleAnswers
  <1> QED BY <1>1, Invariance, PTL

(* A submit that finds the FIFO full sets the error flag, whatever else    *)
(* happens in that cycle (mmio_gpu_fill.sv, error_q).                      *)
THEOREM FullFifoIsReported == Spec => FullIsReported
  <1>1. IInv /\ [Next]_vars => [submit_req /\ fifo.count = Depth => status'.error]_vars
    <2> SUFFICES ASSUME IInv, Next, submit_req, fifo.count = Depth PROVE status'.error
      BY DEF vars
    <2>1. ~launch_req
      BY FifoIs DEF IInv, Queue, OneAtATime, launch_req
    <2>2. ~soft_reset_req /\ ~start_accept_req /\ invalid_submit
      BY DEF submit_req, soft_reset_req, start_accept_req, start_req, invalid_submit
    <2> QED BY <2>1, <2>2 DEF Next, StatusStep
  <1> QED BY <1>1, Invariance, PTL DEF Spec, FullIsReported
-----------------------------------------------------------------------------
(* What CommandEnds rests on.                                              *)

\* The engine compares the pixel it has written with the last one for equality: it must
\* not start at or beyond its end.
EndInSight == eng.busy => eng.pix < eng.n

\* The checks of a launch are made of the configuration that it takes the length from,
\* so a framebuffer register that was changed after the command was accepted does no harm.
LEMMA LaunchBelowEnd ==
    ASSUME TypeOK, Launch
    PROVE  eng'.pix < eng'.n
  <1>1. /\ cfg.fb # 0 /\ (launch.cmd.op # "clear" => launch.cmd.shape.n # 0)
        /\ launch.cmd \in Command \cup {NoCommand}
    BY DEF Launch, launch_invalid, Invalid, TypeOK
  <1>2. cfg.fb \in Nat /\ launch.cmd.shape.n \in Nat
    BY <1>1, ShapeOf, GpuAssumption DEF TypeOK
  <1>3. /\ eng'.pix = 0
        /\ eng'.n = IF launch.cmd.op = "clear" THEN cfg.fb ELSE launch.cmd.shape.n
    BY DEF Launch
  <1> QED BY <1>1, <1>2, <1>3

\* What a cycle of a running command does: it ends, steps over a row, to the next pixel,
\* to the next access of the pixel, counts the wait, or steps through the source.
Phase == [src |-> 0, dst |-> 1, write |-> 2]
SamePlace == eng'.rows = eng.rows /\ eng'.pix = eng.pix
TowardsEnd ==
  eng.busy =>
    \/ ~eng'.busy
    \/ /\ eng'.busy /\ eng'.cmd = eng.cmd /\ eng'.n = eng.n
       /\ \/ eng'.rows < eng.rows /\ eng'.pix = eng.pix
          \/ eng'.rows = eng.rows /\ eng'.pix = eng.pix + 1 /\ eng'.pix < eng'.n
          \/ SamePlace /\ Phase[eng.phase] < Phase[eng'.phase]
          \/ SamePlace /\ eng'.phase = eng.phase /\ eng.wait < eng'.wait /\ eng'.wait <= WaitTimeout
          \/ SamePlace /\ eng'.phase = eng.phase /\ scale_advancing

LEMMA RunStep ==
    ASSUME TypeOK, OneAtATime, EndInSight, Engine
    PROVE  TowardsEnd /\ EndInSight'
  <1>1. /\ eng \in [busy : BOOLEAN, cmd : Command \cup {NoCommand}, n : Nat, pix : Nat, rows : Nat,
                    phase : Phases, skip : BOOLEAN, adv : BOOLEAN, wait : 0 .. WaitTimeout]
        /\ WaitTimeout \in Nat
    BY GpuAssumption DEF TypeOK
  <1>2. CASE EngineReset \/ Complete \/ TimeOut
    <2>1. eng'.busy = FALSE
      BY <1>2 DEF EngineReset, Complete, TimeOut, Idle
    <2> QED BY <2>1 DEF TowardsEnd, EndInSight
  <1>3. CASE Launch \/ LaunchInvalid
    <2>1. ~eng.busy
      BY <1>3 DEF Launch, LaunchInvalid, launch_req, OneAtATime
    <2>2. CASE Launch
      BY <2>1, <2>2, LaunchBelowEnd DEF TowardsEnd, EndInSight
    <2>3. CASE LaunchInvalid
      BY <1>1, <2>1, <2>3 DEF LaunchInvalid, TowardsEnd, EndInSight
    <2> QED BY <1>3, <2>2, <2>3
  <1>4. CASE SkipRow
    <2>1. /\ eng.rows > 0 /\ eng'.rows = eng.rows - 1 /\ eng'.pix = eng.pix /\ eng'.n = eng.n
          /\ eng'.busy = eng.busy /\ eng'.cmd = eng.cmd
      BY <1>1, <1>4 DEF SkipRow
    <2> QED BY <1>1, <2>1 DEF TowardsEnd, EndInSight
  <1>5. CASE Advance
    <2>1. /\ scale_advancing /\ SamePlace /\ eng'.n = eng.n /\ eng'.phase = eng.phase
          /\ eng'.busy = eng.busy /\ eng'.cmd = eng.cmd
      BY <1>1, <1>5 DEF Advance, SamePlace
    <2> QED BY <2>1 DEF TowardsEnd, EndInSight, SamePlace
  <1>6. CASE TakeWord
    <2>1. /\ SamePlace /\ eng'.n = eng.n /\ eng'.busy = eng.busy /\ eng'.cmd = eng.cmd
          /\ eng.phase \in {"src", "dst"}
          /\ eng'.phase = IF eng.phase = "src" /\ eng.cmd.op = "alpha" THEN "dst" ELSE "write"
      BY <1>1, <1>6 DEF TakeWord, SamePlace, Phases
    <2>2. Phase[eng.phase] < Phase[eng'.phase]
      BY <2>1 DEF Phase
    <2> QED BY <2>1, <2>2 DEF TowardsEnd, EndInSight, SamePlace
  <1>7. CASE NextPixel
    <2>1. /\ eng.busy /\ eng.pix + 1 # eng.n
      BY <1>7 DEF NextPixel, Completes, Answered, Running
    <2>2. /\ eng'.rows = eng.rows /\ eng'.pix = eng.pix + 1 /\ eng'.n = eng.n
          /\ eng'.busy = eng.busy /\ eng'.cmd = eng.cmd
      BY <1>1, <1>7 DEF NextPixel
    <2>3. eng.pix + 1 < eng.n
      BY <1>1, <2>1 DEF EndInSight
    <2> QED BY <2>1, <2>2, <2>3 DEF TowardsEnd, EndInSight
  <1>8. CASE Wait
    <2>1. /\ SamePlace /\ eng'.n = eng.n /\ eng'.phase = eng.phase /\ eng'.wait = eng.wait + 1
          /\ eng'.busy = eng.busy /\ eng'.cmd = eng.cmd
      BY <1>1, <1>8 DEF Wait, SamePlace
    <2>2. eng.wait # WaitTimeout
      BY <1>8 DEF Wait, TimesOut
    <2>3. eng.wait < eng'.wait /\ eng'.wait <= WaitTimeout
      BY <1>1, <2>1, <2>2
    <2> QED BY <2>1, <2>3 DEF TowardsEnd, EndInSight, SamePlace
  <1>9. CASE Rest
    BY <1>9 DEF Rest, TowardsEnd, EndInSight
  <1> QED BY <1>2, <1>3, <1>4, <1>5, <1>6, <1>7, <1>8, <1>9 DEF Engine

(* A command that runs has a pixel to write: its length, which is taken    *)
(* when it is launched, is never 0 (mmio_gpu_fill.sv, launch_invalid), and *)
(* the comparison for equality that ends it is never passed.               *)
THEOREM NoOverrun == Spec => []EndInSight
  <1>1. Init => EndInSight
    BY DEF Init, Idle, EndInSight
  <1>2. IInv /\ EndInSight /\ [Next]_vars => EndInSight'
    <2>1. CASE UNCHANGED vars
      BY <2>1 DEF vars, EndInSight
    <2> QED BY <2>1, RunStep DEF IInv, Queue, Next
  <1> QED BY <1>1, <1>2, Invariance, PTL DEF Spec

(* The safety half of CommandEnds: every cycle brings a running command    *)
(* nearer to its end, whatever is submitted meanwhile and also if DDR does *)
(* not answer; only the steps through the source of a scaled copy are not  *)
(* counted here (they are in GpuRaster).                                   *)
THEOREM EngineMovesOn == Spec => [][TowardsEnd]_vars
  <1>1. IInv /\ EndInSight /\ [Next]_vars => [TowardsEnd]_vars
    BY RunStep DEF IInv, Queue, Next
  <1> QED BY <1>1, Invariance, NoOverrun, PTL DEF Spec
-----------------------------------------------------------------------------
(* Refinement of CommandQueue.                                             *)

\* The waiting commands of a FIFO in the state f, as a sequence.
Waiting(f) == [i \in 1 .. f.count |-> At(f, i)]

LEMMA WaitingIs ==
    ASSUME NEW f, f.count \in Nat, \A i \in 1 .. f.count : At(f, i) \in Command
    PROVE  /\ Waiting(f) \in Seq(Command) /\ Len(Waiting(f)) = f.count
           /\ \A i \in 1 .. f.count : Waiting(f)[i] = At(f, i)
  <1>1. Waiting(f) \in [1 .. f.count -> Command]
    BY DEF Waiting
  <1>2. Waiting(f) \in Seq(Command) /\ Len(Waiting(f)) = f.count
    BY <1>1
  <1> QED BY <1>2 DEF Waiting

LEMMA ConsIs ==
    ASSUME NEW c \in Command, NEW s \in Seq(Command)
    PROVE  /\ <<c>> \o s \in Seq(Command) /\ Len(<<c>> \o s) = Len(s) + 1 /\ <<c>> \o s # <<>>
           /\ (<<c>> \o s)[1] = c /\ \A i \in 1 .. Len(s) : (<<c>> \o s)[i + 1] = s[i]
           /\ Len(s) \in Nat
  <1>1. <<c>> \in Seq(Command) /\ Len(<<c>>) = 1 /\ <<c>>[1] = c /\ Len(s) \in Nat
    OBVIOUS
  <1>2. /\ <<c>> \o s \in Seq(Command) /\ Len(<<c>> \o s) = 1 + Len(s)
        /\ \A i \in 1 .. 1 + Len(s) :
             (<<c>> \o s)[i] = IF i <= 1 THEN <<c>>[i] ELSE s[i - 1]
    BY <1>1, ConcatProperties
  <1>3. \A i \in 1 .. Len(s) : i + 1 \in 1 .. 1 + Len(s) /\ ~(i + 1 <= 1) /\ (i + 1) - 1 = i
    BY <1>1
  <1>4. 1 \in 1 .. 1 + Len(s) /\ Len(<<c>> \o s) # 0
    BY <1>1, <1>2
  <1> QED BY <1>1, <1>2, <1>3, <1>4, EmptySeq

LEMMA ConsTail ==
    ASSUME NEW c \in Command, NEW s \in Seq(Command)
    PROVE  Tail(<<c>> \o s) = s
  <1>1. /\ Tail(<<c>> \o s) \in Seq(Command) /\ Len(Tail(<<c>> \o s)) = Len(s)
        /\ \A i \in 1 .. Len(s) : Tail(<<c>> \o s)[i] = (<<c>> \o s)[i + 1]
    BY ConsIs, HeadTailProperties
  <1>2. \A i \in 1 .. Len(s) : Tail(<<c>> \o s)[i] = s[i]
    BY <1>1, ConsIs
  <1> QED BY <1>1, <1>2, SeqEqual

LEMMA ConsAppend ==
    ASSUME NEW c \in Command, NEW s \in Seq(Command), NEW a \in Command
    PROVE  <<c>> \o Append(s, a) = Append(<<c>> \o s, a)
  <1>1. /\ Append(s, a) = s \o <<a>> /\ Append(<<c>> \o s, a) = (<<c>> \o s) \o <<a>>
    BY ConsIs, AppendIsConcat
  <1>2. <<c>> \in Seq(Command) /\ <<a>> \in Seq(Command)
    OBVIOUS
  <1> QED BY <1>1, <1>2, ConcatAssociative

\* The commands under way: at most one before the FIFO.
Active(e, l) == e.busy \/ l.pending
Current(e, l) == IF e.busy THEN e.cmd ELSE l.cmd
InOrder(e, l, f) == IF Active(e, l) THEN <<Current(e, l)>> \o Waiting(f) ELSE Waiting(f)

LEMMA InOrderIs ==
    ASSUME NEW e, NEW l, NEW f, e.busy \in BOOLEAN, l.pending \in BOOLEAN, ~(e.busy /\ l.pending),
           Waiting(f) \in Seq(Command),
           e.busy => e.cmd \in Command, l.pending => l.cmd \in Command
    PROVE  (IF e.busy THEN <<e.cmd>> ELSE <<>>) \o (IF l.pending THEN <<l.cmd>> ELSE <<>>)
             \o Waiting(f)
           = InOrder(e, l, f)
  <1>1. <<>> \in Seq(Command) /\ <<>> \o <<>> = <<>> /\ <<>> \o Waiting(f) = Waiting(f)
    BY ConcatEmptySeq, EmptySeq
  <1>2. CASE e.busy
    <2>1. <<e.cmd>> \in Seq(Command)
      BY <1>2
    <2>2. <<e.cmd>> \o <<>> = <<e.cmd>>
      BY <2>1, ConcatEmptySeq
    <2> QED BY <1>2, <2>2 DEF InOrder, Active, Current
  <1>3. CASE ~e.busy /\ l.pending
    <2>1. <<l.cmd>> \in Seq(Command)
      BY <1>3
    <2>2. <<>> \o <<l.cmd>> = <<l.cmd>>
      BY <2>1, ConcatEmptySeq
    <2> QED BY <1>3, <2>2 DEF InOrder, Active, Current
  <1>4. CASE ~e.busy /\ ~l.pending
    BY <1>1, <1>4 DEF InOrder, Active
  <1> QED BY <1>2, <1>3, <1>4

LEMMA UnderWayIs ==
    ASSUME TypeOK, Queue
    PROVE  /\ UnderWay = InOrder(eng, launch, fifo)
           /\ Waiting(fifo) \in Seq(Command) /\ Len(Waiting(fifo)) = fifo.count
  <1>1. /\ fifo.count \in Nat /\ \A i \in 1 .. fifo.count : At(fifo, i) \in Command
    BY FifoIs DEF Queue, RealCommands
  <1>2. Waiting(fifo) \in Seq(Command) /\ Len(Waiting(fifo)) = fifo.count
    BY <1>1, WaitingIs
  <1>3. /\ eng.busy \in BOOLEAN /\ launch.pending \in BOOLEAN /\ ~(eng.busy /\ launch.pending)
        /\ eng.busy => eng.cmd \in Command
        /\ launch.pending => launch.cmd \in Command
    BY DEF TypeOK, Queue, OneAtATime, RealCommands
  <1>4. Queued = Waiting(fifo)
    BY DEF Queued, Waiting, At
  <1> QED BY <1>2, <1>3, <1>4, InOrderIs DEF UnderWay

LEMMA UnderWayNext ==
    ASSUME TypeOK', Queue'
    PROVE  UnderWay' = InOrder(eng', launch', fifo')
  <1>1. /\ fifo'.count \in Nat /\ \A i \in 1 .. fifo'.count : At(fifo', i) \in Command
    BY GpuAssumption DEF Queue, RealCommands, FifoOK, At
  <1>2. Waiting(fifo') \in Seq(Command)
    BY <1>1, WaitingIs
  <1>3. /\ eng'.busy \in BOOLEAN /\ launch'.pending \in BOOLEAN /\ ~(eng'.busy /\ launch'.pending)
        /\ eng'.busy => eng'.cmd \in Command
        /\ launch'.pending => launch'.cmd \in Command
    BY DEF TypeOK, Queue, OneAtATime, RealCommands
  <1>4. Queued' = Waiting(fifo')
    BY DEF Queued, Waiting, At
  <1> QED BY <1>2, <1>3, <1>4, InOrderIs DEF UnderWay

\* A step of the queue, from what it does.
LEMMA QueueStep ==
    ASSUME NEW rest, NEW op \in Ops, NEW shape \in Shapes, NEW joins \in BOOLEAN,
           rest = UnderWay \/ (UnderWay # <<>> /\ rest = Tail(UnderWay)),
           UnderWay' = IF joins THEN Append(rest, [id |-> count.issued + 1, op |-> op, shape |-> shape])
                       ELSE rest,
           count'.issued = IF joins THEN count.issued + 1 ELSE count.issued,
           Len(UnderWay') <= Depth + 1,
           IF rest = UnderWay THEN count'.done = count.done
           ELSE count'.done \in {count.done, count.done + 1}
    PROVE  Q!Step
  BY DEF Q!Step, Q!Numbered

\* The command that leaves in this step, if one does.
Leaves == Ends \/ (launch_req /\ launch_invalid)

LEMMA StepRefines ==
    ASSUME IInv, IInv', Next
    PROVE  Q!Step \/ Q!Reset \/ UNCHANGED Q!qvars
  <1> USE DEF Next
  <1> DEFINE W == Waiting(fifo)
             c == Current(eng, launch)
  <1>1. /\ TypeOK /\ Queue /\ FifoOK /\ OneAtATime /\ TypeOK' /\ Queue' /\ FifoOK'
        /\ eng.busy \in BOOLEAN /\ launch.pending \in BOOLEAN
    BY DEF IInv, Queue, TypeOK
  <1>2. /\ UnderWay = InOrder(eng, launch, fifo) /\ W \in Seq(Command) /\ Len(W) = fifo.count
        /\ UnderWay' = InOrder(eng', launch', fifo')
        /\ fifo.count \in Nat /\ Depth \in Nat \ {0} /\ fifo.count <= Depth
    BY <1>1, UnderWayIs, UnderWayNext, FifoIs
  <1>3. Active(eng, launch) => c \in Command
    BY <1>1 DEF Active, Current, Queue, RealCommands
  <1>4. CASE soft_reset_req
    <2>1. /\ ~eng'.busy /\ ~launch'.pending /\ fifo'.count = 0 /\ ~capture_start_req /\ ~Push
      BY <1>1, <1>4, EngineMoves, LaunchMoves, FifoMoves
    <2>2. Waiting(fifo') = <<>>
      BY <2>1 DEF Waiting
    <2>3. UnderWay' = <<>>
      BY <1>2, <2>1, <2>2 DEF InOrder, Active
    <2> QED BY <1>1, <1>4, <2>1, <2>3, IssuedMoves DEF Q!Reset
  <1>5. CASE capture_start_req
    <2>1. /\ ~eng.busy /\ ~launch.pending /\ fifo.count = 0 /\ ~soft_reset_req /\ ~launch_req
          /\ ~Push /\ ~Pop /\ launch'.pending /\ launch'.cmd = Accepted
      BY <1>1, <1>5, LaunchMoves DEF engine_busy
    <2>2. ~eng'.busy /\ fifo' = fifo /\ ~Completes
      BY <1>1, <2>1, EngineMoves, FifoMoves DEF Ends, Keep, Pop
    <2>3. W = <<>> /\ Waiting(fifo') = <<>>
      BY <2>1, <2>2 DEF Waiting
    <2>4. UnderWay = <<>> /\ UnderWay' = <<Accepted>> \o <<>>
      BY <1>2, <2>1, <2>2, <2>3 DEF InOrder, Active, Current
    <2>5. Accepted \in Command
      BY <1>1, <1>5, AcceptedType DEF Takes
    <2>6. <<Accepted>> \o <<>> = Append(<<>>, Accepted) /\ Len(Append(<<>>, Accepted)) = 1
      BY <2>5, ConcatEmptySeq
    <2>7. /\ Accepted = [id |-> count.issued + 1, op |-> bus.arg, shape |-> cfg.shape]
          /\ bus.arg \in Ops /\ cfg.shape \in Shapes
      BY <2>5 DEF Accepted, Command
    <2>8. count'.issued = count.issued + 1 /\ count'.done = count.done
      BY <1>1, <1>5, <2>1, <2>2, IssuedMoves
    <2>9. 1 <= Depth + 1
      BY <1>2
    <2> QED BY <2>4, <2>6, <2>7, <2>8, <2>9, QueueStep
  <1>6. CASE Pop
    <2>1. /\ fifo.count # 0 /\ fifo'.count = fifo.count - 1 /\ ~Push /\ ~soft_reset_req
          /\ ~capture_start_req /\ ~launch_req /\ ~eng.busy /\ ~launch.pending
          /\ launch'.pending /\ launch'.cmd = At(fifo, 1)
          /\ \A i \in 1 .. fifo.count - 1 : At(fifo', i) = At(fifo, i + 1)
      BY <1>1, <1>6, FifoMoves, LaunchMoves, PopItems
    <2>2. ~eng'.busy /\ ~Completes
      BY <1>1, <2>1, EngineMoves DEF Ends
    <2>3. UnderWay = W /\ UnderWay' = <<At(fifo, 1)>> \o Waiting(fifo')
      BY <1>2, <2>1, <2>2 DEF InOrder, Active, Current
    <2>4. /\ \A i \in 1 .. fifo.count : At(fifo, i) \in Command /\ W[i] = At(fifo, i)
          /\ 1 \in 1 .. fifo.count /\ fifo.count - 1 \in Nat
          /\ \A i \in 1 .. fifo.count - 1 : i + 1 \in 1 .. fifo.count
      BY <1>1, <1>2, <2>1 DEF Queue, RealCommands, Waiting
    <2>5. /\ Waiting(fifo') \in Seq(Command) /\ Len(Waiting(fifo')) = fifo.count - 1
          /\ \A i \in 1 .. fifo.count - 1 : Waiting(fifo')[i] = At(fifo, i + 1)
      BY <2>1, <2>4, WaitingIs
    <2>6. /\ UnderWay' \in Seq(Command) /\ Len(UnderWay') = (fifo.count - 1) + 1
          /\ UnderWay'[1] = At(fifo, 1)
          /\ \A i \in 1 .. fifo.count - 1 : UnderWay'[i + 1] = At(fifo, i + 1)
      BY <2>3, <2>4, <2>5, ConsIs
    <2>7. ASSUME NEW i \in 1 .. fifo.count PROVE UnderWay'[i] = W[i]
      <3>1. CASE i = 1
        BY <2>4, <2>6, <3>1
      <3>2. CASE i # 1
        <4>1. i - 1 \in 1 .. fifo.count - 1 /\ (i - 1) + 1 = i
          BY <1>2, <3>2
        <4> QED BY <2>4, <2>6, <4>1
      <3> QED BY <3>1, <3>2
    <2>8. (fifo.count - 1) + 1 = fifo.count
      BY <1>2
    <2>9. UnderWay' = UnderWay
      BY <1>2, <2>3, <2>6, <2>7, <2>8, SeqEqual
    <2>10. count'.issued = count.issued /\ count'.done = count.done
      BY <1>1, <2>1, <2>2, IssuedMoves
    <2> QED BY <2>9, <2>10 DEF Q!qvars
  <1>7. CASE ~soft_reset_req /\ ~capture_start_req /\ ~Pop
    <2> DEFINE rest == IF Leaves THEN Tail(UnderWay) ELSE UnderWay
    <2>1. /\ ~launch'.pending
          /\ launch_req => launch.pending
          /\ launch.pending => launch_req
      BY <1>1, <1>7, LaunchMoves DEF launch_req
    <2>2. /\ Leaves => Active(eng, launch) /\ ~eng'.busy
          /\ ~Leaves => /\ Active(eng', launch') <=> Active(eng, launch)
                        /\ Active(eng, launch) => Current(eng', launch') = c
          /\ Completes => Leaves
      BY <1>1, <1>7, <2>1, EngineMoves DEF Leaves, Ends, Active, Current
    <2>3. /\ Active(eng, launch) => UnderWay = <<c>> \o W
          /\ ~Active(eng, launch) => UnderWay = W
      BY <1>2 DEF InOrder
    <2>4. /\ Leaves => rest = W /\ UnderWay # <<>> /\ rest # UnderWay /\ Len(rest) <= fifo.count
      <3> SUFFICES ASSUME Leaves
                   PROVE  rest = W /\ UnderWay # <<>> /\ rest # UnderWay /\ Len(rest) <= fifo.count
        OBVIOUS
      <3>1. UnderWay = <<c>> \o W /\ c \in Command
        BY <1>3, <2>2, <2>3
      <3>2. Tail(UnderWay) = W /\ UnderWay # <<>> /\ Len(UnderWay) = Len(W) + 1
        BY <1>2, <3>1, ConsIs, ConsTail
      <3> QED BY <1>2, <3>2
    <2>5. Len(rest) <= fifo.count + 1 /\ Len(rest) \in Nat /\ rest \in Seq(Command)
      <3>1. CASE Leaves
        <4>1. rest = W /\ Len(rest) = fifo.count /\ rest \in Seq(Command)
          BY <1>2, <2>4, <3>1
        <4> HIDE DEF rest
        <4> QED BY <1>2, <4>1
      <3>2. CASE ~Leaves /\ Active(eng, launch)
        <4>1. rest = <<c>> \o W /\ c \in Command
          BY <1>3, <2>3, <3>2
        <4> HIDE DEF rest, W, c
        <4>2. rest \in Seq(Command) /\ Len(rest) = fifo.count + 1
          BY <1>2, <4>1, ConsIs
        <4> QED BY <1>2, <4>2
      <3>3. CASE ~Leaves /\ ~Active(eng, launch)
        BY <1>2, <2>3, <3>3
      <3> QED BY <3>1, <3>2, <3>3
    <2>6. /\ Leaves => UnderWay' = Waiting(fifo')
          /\ ~Leaves /\ Active(eng, launch) => UnderWay' = <<c>> \o Waiting(fifo')
          /\ ~Leaves /\ ~Active(eng, launch) => UnderWay' = Waiting(fifo')
      BY <1>2, <2>1, <2>2 DEF InOrder, Active
    <2>7. /\ count'.done = IF Completes THEN count.done + 1 ELSE count.done
          /\ count'.issued = IF Push THEN count.issued + 1 ELSE count.issued
      BY <1>1, <1>7, IssuedMoves
    <2>8. IF rest = UnderWay THEN count'.done = count.done
          ELSE count'.done \in {count.done, count.done + 1}
      BY <2>2, <2>4, <2>7
    <2>9. CASE Push
      <3>1. /\ fifo'.count = fifo.count + 1 /\ fifo.count # Depth
            /\ At(fifo', fifo.count + 1) = Accepted
            /\ \A i \in 1 .. fifo.count : At(fifo', i) = At(fifo, i)
            /\ Accepted \in Command
        BY <1>1, <2>9, FifoMoves, PushItems, AcceptedType DEF Takes, Push
      <3>2. /\ Accepted = [id |-> count.issued + 1, op |-> bus.arg, shape |-> cfg.shape]
            /\ bus.arg \in Ops /\ cfg.shape \in Shapes
        BY <3>1 DEF Accepted, Command
      <3>3. Waiting(fifo') = Append(W, Accepted)
        <4>1. /\ Append(W, Accepted) \in Seq(Command) /\ Len(Append(W, Accepted)) = fifo.count + 1
              /\ \A i \in 1 .. fifo.count : Append(W, Accepted)[i] = At(fifo, i)
              /\ Append(W, Accepted)[fifo.count + 1] = Accepted
          BY <1>2, <3>1, AppendProperties DEF Waiting
        <4>2. \A i \in 1 .. fifo.count + 1 : i \in 1 .. fifo.count \/ i = fifo.count + 1
          BY <1>2
        <4>3. \A i \in 1 .. fifo.count + 1 : At(fifo', i) \in Command
          BY <1>1, <3>1, <4>2 DEF Queue, RealCommands
        <4>4. /\ Waiting(fifo') \in Seq(Command) /\ Len(Waiting(fifo')) = fifo.count + 1
              /\ \A i \in 1 .. fifo.count + 1 : Waiting(fifo')[i] = At(fifo', i)
          BY <1>2, <3>1, <4>3, WaitingIs
        <4>5. \A i \in 1 .. fifo.count + 1 : Waiting(fifo')[i] = Append(W, Accepted)[i]
          BY <3>1, <4>1, <4>2, <4>4
        <4> QED BY <4>1, <4>4, <4>5, SeqEqual
      <3>4. UnderWay' = Append(rest, Accepted)
        BY <1>2, <1>3, <2>3, <2>4, <2>6, <3>1, <3>3, ConsAppend
      <3>5. Len(UnderWay') <= Depth + 1
        <4>1. Len(UnderWay') = Len(rest) + 1 /\ fifo.count < Depth
          BY <1>2, <2>5, <3>1, <3>4, AppendProperties
        <4> QED BY <1>2, <2>5, <4>1
      <3>6. rest = UnderWay \/ (UnderWay # <<>> /\ rest = Tail(UnderWay))
        BY <2>4
      <3> QED BY <2>7, <2>8, <2>9, <3>2, <3>4, <3>5, <3>6, QueueStep
    <2>10. CASE ~Push
      <3>1. Waiting(fifo') = W /\ UnderWay' = rest
        <4>1. fifo' = fifo
          BY <1>1, <1>7, <2>10, FifoMoves DEF Keep, Pop
        <4> QED BY <2>3, <2>4, <2>6, <4>1
      <3>2. CASE Leaves
        <4>1. c.op \in Ops /\ c.shape \in Shapes
          BY <1>3, <2>2, <3>2 DEF Command
        <4>2. Len(UnderWay') <= Depth + 1
          BY <1>2, <2>5, <3>1
        <4>3. rest = UnderWay \/ (UnderWay # <<>> /\ rest = Tail(UnderWay))
          BY <2>4
        <4> HIDE DEF c
        <4> QED BY <2>7, <2>8, <2>10, <3>1, <4>1, <4>2, <4>3, QueueStep
      <3>3. CASE ~Leaves
        BY <2>2, <2>7, <2>10, <3>1, <3>3 DEF Q!qvars
      <3> QED BY <3>2, <3>3
    <2> QED BY <2>9, <2>10
  <1> QED BY <1>4, <1>5, <1>6, <1>7

(* Every accepted command, direct or through the FIFO, runs once, in order *)
(* and as it was captured: the engine (mmio_gpu_fill.sv) implements the    *)
(* queue of CommandQueue, of capacity Depth + 1.                           *)
THEOREM ImplementsCommandQueue == Spec => CommandsInOrder
  <1>1. Init => Q!Init
    <2> SUFFICES ASSUME Init PROVE Q!Init
      OBVIOUS
    <2>1. ~eng.busy /\ ~launch.pending /\ fifo.count = 0 /\ count.issued = 0 /\ count.done = 0
      BY DEF Init, Idle, NoLaunch, EmptyFifo
    <2>2. UnderWay = InOrder(eng, launch, fifo)
      BY InitType, InitQueue, UnderWayIs
    <2>3. UnderWay = <<>>
      BY <2>1, <2>2 DEF InOrder, Active, Waiting
    <2> QED BY <2>1, <2>3 DEF Q!Init
  <1>2. IInv /\ IInv' /\ [Next]_vars => [Q!Step \/ Q!Reset]_Q!qvars
    <2>1. IInv /\ IInv' /\ Next => [Q!Step \/ Q!Reset]_Q!qvars
      BY StepRefines
    <2>2. UNCHANGED vars => UNCHANGED Q!qvars
      BY DEF vars, Q!qvars, UnderWay, Queued
    <2> QED BY <2>1, <2>2
  <1> QED BY <1>1, <1>2, Invariance, PTL DEF Spec, CommandsInOrder, Q!Spec
=============================================================================
