----------------------------- MODULE AxiBridge -----------------------------
(***************************************************************************)
(* The AXI4 master bridge (rtl/bus/axi4_master_bridge.sv): one request at  *)
(* a time from the memory front end, turned into one single-beat write or  *)
(* one read burst on the PS DDR port.                                      *)
(*                                                                         *)
(* The module holds the bridge's registers and one action per state of its *)
(* state machine; every action is one clock edge.  The front end that      *)
(* drives the request port is composed with it in DdrFrontEnd.             *)
(*                                                                         *)
(* Data.  A 32-bit word is abstracted to where it was read from and        *)
(* whether the DDR has been written at that address since: that is all     *)
(* the coherence properties tell apart.  The address of a word is the pair *)
(* <<line, offset>>.                                                       *)
(***************************************************************************)
EXTENDS Naturals

CONSTANTS
  NLines,     \* lines of the DDR window in the instance
  LineWords   \* words of a cache line (CACHE_LINE_WORDS, 8 in the RTL)

ASSUME BridgeAssumption ==
  /\ NLines \in Nat \ {0}
  /\ LineWords \in Nat \ {0}

VARIABLE br   \* the bridge's registers

Lines   == 0 .. NLines - 1
Offsets == 0 .. LineWords - 1
Words   == Lines \X Offsets

(* The reset value of a data register: read from no DDR word.              *)
Zero == <<NLines, LineWords>>

(* A data register: the word it was read from, and whether that word has   *)
(* been overwritten in DDR since it was sampled.                           *)
Data == [from : Words \cup {Zero}, stale : BOOLEAN]
ZeroData == [from |-> Zero, stale |-> FALSE]
Sampled(w) == [from |-> w, stale |-> FALSE]

BridgeState == {"IDLE", "WAIT_AW_W", "WAIT_B", "WAIT_AR", "WAIT_R", "DONE"}

(* axi_addr_q, the latched direction, read_beats_q, read_beat_q, aw_done_q,*)
(* w_done_q and rdata_q.                                                   *)
Bridge ==
  [st : BridgeState, word : Words, we : BOOLEAN, beats : 1 .. LineWords,
   beat : Offsets, aw : BOOLEAN, wd : BOOLEAN, data : Data]

(* Registers that nothing reads while the bridge is idle are shown at      *)
(* their reset values.                                                     *)
IdleBridge ==
  [st |-> "IDLE", word |-> <<0, 0>>, we |-> FALSE, beats |-> 1, beat |-> 0,
   aw |-> FALSE, wd |-> FALSE, data |-> ZeroData]

ddr_ready == br.st = "DONE"

(* The word that the current beat of a read burst carries.                 *)
BeatWord == <<br.word[1], br.word[2] + br.beat>>

(* The slave marks the last beat of the burst that was asked for.          *)
M_AXI_RLAST == br.beat = br.beats - 1

read_final_beat == M_AXI_RLAST \/ br.beat = br.beats - 1
-----------------------------------------------------------------------------
(* S_IDLE: latch the request that is presented, if any.                    *)
BridgeIdle(req) ==
  /\ br.st = "IDLE"
  /\ \/ /\ ~req.valid
        /\ UNCHANGED br
     \/ /\ req.valid
        /\ br' = [IdleBridge EXCEPT
                    !.st = IF req.we THEN "WAIT_AW_W" ELSE "WAIT_AR",
                    !.word = req.word, !.we = req.we, !.beats = req.beats]

(* S_WAIT_AW_W: the address and the data channel are accepted in any order;*)
(* both are done before the bridge waits for the response.                 *)
BridgeWrite(awready, wready) ==
  /\ br.st = "WAIT_AW_W"
  /\ LET aw == br.aw \/ awready
         wd == br.wd \/ wready
     IN  br' = [br EXCEPT !.aw = aw, !.wd = wd,
                          !.st = IF aw /\ wd THEN "WAIT_B" ELSE @]

(* S_WAIT_B: the write response; BRESP is not looked at.                   *)
BridgeResponse(bvalid) ==
  /\ br.st = "WAIT_B"
  /\ br' = [br EXCEPT !.st = IF bvalid THEN "DONE" ELSE @]

(* S_WAIT_AR: the read address.                                            *)
BridgeReadAddress(arready) ==
  /\ br.st = "WAIT_AR"
  /\ br' = [br EXCEPT !.st = IF arready THEN "WAIT_R" ELSE @]

(* S_WAIT_R: one beat of the burst; the last one ends it.                  *)
BridgeRead(rvalid) ==
  /\ br.st = "WAIT_R"
  /\ \/ /\ ~rvalid
        /\ UNCHANGED br
     \/ /\ rvalid /\ ~read_final_beat
        /\ br' = [br EXCEPT !.data = Sampled(BeatWord), !.beat = @ + 1]
     \/ /\ rvalid /\ read_final_beat
        /\ br' = [br EXCEPT !.data = Sampled(BeatWord), !.beat = 0, !.st = "DONE"]

(* S_DONE: ready is high until a cycle in which the front end still        *)
(* presents a request.                                                     *)
BridgeDone(req) ==
  /\ br.st = "DONE"
  /\ br' = IF req.valid THEN IdleBridge ELSE br

(* One clock edge of the bridge.  go is the slave's answer in this cycle:  *)
(* READY or VALID of the channel the bridge is waiting on, and go2 the     *)
(* same for the second channel of a write.                                 *)
BridgeStep(req, go, go2) ==
  \/ BridgeIdle(req)
  \/ BridgeWrite(go, go2)
  \/ BridgeResponse(go)
  \/ BridgeReadAddress(go)
  \/ BridgeRead(go)
  \/ BridgeDone(req)

(* A beat is delivered to the front end in this cycle.                     *)
ReadBeatValid(go) == br.st = "WAIT_R" /\ go

(* The DDR accepts the write in this cycle: from here on it holds the new  *)
(* value of br.word.                                                       *)
Commits(go, go2) == br.st = "WAIT_AW_W" /\ (br.aw \/ go) /\ (br.wd \/ go2)
=============================================================================
