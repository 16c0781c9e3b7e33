------------------------------ MODULE CpuProbe ------------------------------
(***************************************************************************)
(* The bring-up probe of the PS (hw_bringup/ps_uart_probe*.c): main runs   *)
(* one test after the other, and each holds the PL CPU in reset, clears    *)
(* the words it will look at, loads a program, releases the CPU, polls for *)
(* an answer with a bound, collects the results and judges them.           *)
(*                                                                         *)
(* The program under test runs beside the PS.  It may hang, it may answer  *)
(* late, and, since the core is what is being tested, it may store wrong   *)
(* results or none.  After a bounded wait the probe goes on to the next    *)
(* test while the old program is still running.                            *)
(*                                                                         *)
(* A word is abstracted to what it means to the test in progress: "old"    *)
(* (left by an earlier test, or by chance what is expected), "clear" (as   *)
(* this test prepared it), "good" or "bad" (stored by this test's program; *)
(* for a status word PASS and FAIL).                                       *)
(***************************************************************************)
EXTENDS Naturals, Sequences, FiniteSets

CONSTANT Polls   \* bound of a wait: 1000000 or 2000000 reads in the code

ASSUME PollsAssumption == Polls \in Nat \ {0}

(***************************************************************************)
(* The words the tests share (ps_uart_probe.h): the TX scratchpad by its   *)
(* offsets, the IMEM by its word numbers, and the buffers in DDR.          *)
(***************************************************************************)
Words(first, last) == {w \in first .. last : w % 4 = 0}

CPU_MAIL_START == \h3E0
CPU_MAIL_STATUS == \h3F0
CPU_MAIL_COPIED == \h3FC
Scratch == Words(0, \h3FC)

Imem(i) == \h1000 + 4 * i
DmaStatus == \h2000
dma_dst == \h3000
cpu_dma_dst == \h3004
cpu_ddr_probe == \h3008
cpu_ddr_exec == \h300C
cpu_sbi_payload == \h3010
cpu_linux_contract == \h3014
DdrHighExec == \h3018
DdrHighData == \h301C
DdrHighAmo == \h3020

(***************************************************************************)
(* A phase of a test, by what its function does.  Defaults of a test that  *)
(* loads an ELF into the IMEM and polls with a loop of its own:            *)
(*   early    buffers in DDR it writes before it holds the CPU             *)
(*   guarded  it may return before that: "no", "fail" or "skip"            *)
(*   hold     it holds and releases the CPU                                *)
(*   cleared  words it writes between hold and load                        *)
(*   load     "elf", "words" or "none"; verify: it reads the IMEM back     *)
(*   vector   the reset vector it sets, 0 if it sets none                  *)
(*   after    words of the IMEM it writes between verify and release       *)
(*   start    it gives the start word after the release                    *)
(*   status   the word it polls, 0 if it polls the results themselves      *)
(*   stops    what ends the wait before its bound                          *)
(*   late     after a wait that failed: "keep" on, "reread" or "abort"     *)
(*   checked  results its verdict reads                                    *)
(*   blank    those it expects to be as it cleared them                    *)
(***************************************************************************)
Phase ==
    [early |-> {}, guarded |-> "no", hold |-> TRUE,
     cleared |-> {CPU_MAIL_STATUS}, load |-> "elf", verify |-> TRUE,
     vector |-> Imem(0), after |-> {}, start |-> FALSE,
     status |-> CPU_MAIL_STATUS, stops |-> {"good", "bad"}, late |-> "keep",
     checked |-> {}, blank |-> {}]

run_datamover_loopback ==
    LET Transfer == [Phase EXCEPT !.hold = FALSE, !.load = "none", !.verify = FALSE,
                                  !.vector = 0, !.start = TRUE, !.status = DmaStatus,
                                  !.cleared = {DmaStatus}, !.late = "abort"]
    IN  << [Transfer EXCEPT !.early = {dma_dst}],
           [Transfer EXCEPT !.checked = {dma_dst}] >>

CpuDatamover ==
    [Phase EXCEPT !.early = {cpu_dma_dst}, !.start = TRUE, !.late = "abort",
                  !.cleared = Words(CPU_MAIL_START, CPU_MAIL_COPIED),
                  !.checked = {CPU_MAIL_COPIED, cpu_dma_dst}]

run_cpu_datamover_loopback ==
    << [CpuDatamover EXCEPT !.hold = FALSE, !.load = "none", !.verify = FALSE, !.vector = 0] >>

run_cpu_custom_datamover_test == << CpuDatamover >>

\* Until LOAD_TEST_PASS; whatever else the word holds, the loop goes on.
UntilLoaded == [Phase EXCEPT !.stops = {"good"}]

run_cpu_bram_load_test ==
    LET Loaded == [UntilLoaded EXCEPT !.load = "words", !.vector = 0]
    IN  << Loaded,
           [Loaded EXCEPT !.verify = FALSE, !.after = {Imem(17)}, !.checked = {Imem(17)}] >>

run_cpu_elf_load_test ==
    << [UntilLoaded EXCEPT !.after = {Imem(17)}] >>

run_cpu_entry_smoke_test == << UntilLoaded >>

\* Polls the three words the trap handler saves, and no status.
run_cpu_trap_smoke_test ==
    LET saved == {Imem(i) : i \in 20 .. 22}
    IN  << [UntilLoaded EXCEPT !.after = saved, !.status = 0, !.checked = saved] >>

\* CPU_SUP_SEPC, SCAUSE, MARKER and STATUS.
run_cpu_supervisor_smoke_test ==
    << [Phase EXCEPT !.cleared = {CPU_MAIL_STATUS} \cup Words(\h3E0, \h3E8),
                     !.checked = Words(\h3E4, \h3E8)] >>

run_cpu_supervisor_timer_smoke_test ==
    << [Phase EXCEPT !.cleared = {CPU_MAIL_STATUS} \cup Words(\h3E0, \h3E8),
                     !.checked = Words(\h3E4, \h3E8)] >>

\* CPU_BOOT_HARTID to INSTRET, and CPU_SUP_*.
run_cpu_boot_payload_smoke_test ==
    << [Phase EXCEPT !.cleared = {CPU_MAIL_STATUS} \cup Words(\h3C0, \h3D0) \cup Words(\h3E0, \h3E8),
                     !.checked = Words(\h3C0, \h3C4) \cup Words(\h3E4, \h3E8)] >>

run_cpu_supervisor_counter_smoke_test ==
    << [Phase EXCEPT !.cleared = {CPU_MAIL_STATUS} \cup Words(\h3C8, \h3D0),
                     !.checked = Words(\h3C8, \h3D0)] >>

run_cpu_ddr_access_smoke_test ==
    << [Phase EXCEPT !.early = {cpu_ddr_probe}, !.late = "abort",
                     !.cleared = Words(CPU_MAIL_START, CPU_MAIL_STATUS),
                     !.checked = {cpu_ddr_probe}] >>

run_cpu_ddr_high_access_smoke_test ==
    << [Phase EXCEPT !.early = {DdrHighData}, !.late = "abort",
                     !.cleared = Words(CPU_MAIL_START, CPU_MAIL_STATUS),
                     !.checked = {DdrHighData}] >>

\* The step number is cleared to the 0 it should stay at.
run_cpu_ddr_high_amo_smoke_test ==
    << [Phase EXCEPT !.early = {DdrHighAmo}, !.late = "abort",
                     !.cleared = Words(CPU_MAIL_START, CPU_MAIL_STATUS),
                     !.checked = {DdrHighAmo} \cup Words(\h3E0, \h3EC), !.blank = {\h3E0}] >>

\* CPU_DDR_EXEC_PC, MARKER and COUNT; the program is in DDR and is not read back.
DdrExec ==
    [Phase EXCEPT !.load = "none", !.verify = FALSE, !.late = "abort",
                  !.cleared = {CPU_MAIL_STATUS} \cup Words(\h3C0, \h3C8),
                  !.checked = Words(\h3C0, \h3C8)]

run_cpu_ddr_exec_smoke_test ==
    << [DdrExec EXCEPT !.early = {cpu_ddr_exec}, !.guarded = "fail", !.vector = cpu_ddr_exec] >>

run_cpu_ddr_high_exec_smoke_test ==
    << [DdrExec EXCEPT !.early = {DdrHighExec}, !.vector = DdrHighExec] >>

\* The firmware tests: firmware in the IMEM, and a payload in DDR that it starts.
run_cpu_sbi_smoke_test ==
    << [Phase EXCEPT !.early = {cpu_sbi_payload}, !.guarded = "fail", !.late = "abort",
                     !.cleared = {CPU_MAIL_STATUS} \cup Words(\h380, \h384) \cup Words(\h38C, \h3A8),
                     !.checked = Words(\h38C, \h3A8)] >>

run_cpu_sbi_timer_smoke_test ==
    << [Phase EXCEPT !.early = {cpu_sbi_payload}, !.guarded = "fail", !.late = "reread",
                     !.cleared = {CPU_MAIL_STATUS} \cup Words(\h340, \h344)
                                 \cup Words(\h34C, \h364) \cup Words(\h380, \h3A4),
                     !.checked = {\h34C, \h354, \h358, \h380, \h384, \h388, \h38C}] >>

run_cpu_linux_contract_smoke_test ==
    << [Phase EXCEPT !.early = {cpu_linux_contract}, !.guarded = "fail", !.late = "reread",
                     !.cleared = {CPU_MAIL_STATUS} \cup Words(\h300, \h368),
                     !.checked = {\h308, \h310, \h314, \h31C} \cup Words(\h328, \h338)
                                 \cup Words(\h348, \h368)] >>

\* CMP_HI is cleared to the 0 that is expected.
run_cpu_linux_sbi_smoke_test ==
    << [Phase EXCEPT !.early = {cpu_sbi_payload}, !.guarded = "fail", !.late = "reread",
                     !.cleared = {CPU_MAIL_STATUS} \cup Words(\h280, \h2E8),
                     !.checked = {\h288, \h290, \h294} \cup Words(\h29C, \h2D8)
                                 \cup Words(\h2E4, \h2E8),
                     !.blank = {\h2CC}] >>

\* Skipped when the kernel and the device tree are not in DDR.  TEXT_HI and
\* SIZE_HI are cleared to the 0 that is expected.
run_cpu_linux_image_layout_smoke_test ==
    << [Phase EXCEPT !.guarded = "skip", !.late = "reread",
                     !.cleared = {CPU_MAIL_STATUS} \cup Words(\h300, \h304) \cup {\h330}
                                 \cup Words(\h36C, \h3A4),
                     !.checked = {\h330} \cup Words(\h36C, \h388), !.blank = {\h374, \h37C}] >>

\* main
Tests ==
    << run_datamover_loopback, run_cpu_datamover_loopback, run_cpu_bram_load_test,
       run_cpu_elf_load_test, run_cpu_entry_smoke_test, run_cpu_trap_smoke_test,
       run_cpu_supervisor_smoke_test, run_cpu_supervisor_timer_smoke_test,
       run_cpu_boot_payload_smoke_test, run_cpu_supervisor_counter_smoke_test,
       run_cpu_custom_datamover_test, run_cpu_ddr_access_smoke_test,
       run_cpu_ddr_exec_smoke_test, run_cpu_ddr_high_access_smoke_test,
       run_cpu_ddr_high_exec_smoke_test, run_cpu_ddr_high_amo_smoke_test,
       run_cpu_sbi_smoke_test, run_cpu_sbi_timer_smoke_test,
       run_cpu_linux_contract_smoke_test, run_cpu_linux_sbi_smoke_test,
       run_cpu_linux_image_layout_smoke_test >>

Ids == UNION {{<<i, j>> : j \in 1 .. Len(Tests[i])} : i \in 1 .. Len(Tests)}
Nobody == <<0, 0>>
PhaseOf(id) == Tests[id[1]][id[2]]
Locations ==
    UNION {PhaseOf(id).early \cup PhaseOf(id).cleared \cup PhaseOf(id).after
           \cup PhaseOf(id).checked : id \in Ids}
    \cup {CPU_MAIL_STATUS}

CodeAreas == {cpu_ddr_exec, cpu_sbi_payload, cpu_linux_contract, DdrHighExec}
Places == {Imem(0)} \cup CodeAreas

VARIABLES
    test,      \* <<the test main is at, its phase>>
    at,        \* where the test's function is
    held,      \* CPU_CTRL: the CPU is in reset
    vector,    \* RESET_VECTOR
    code,      \* whose program each place holds, Nobody's after a broken load
    fault,     \* the last load left a wrong word
    agent,     \* whose program (or DMA transfer) runs
    wild,      \* the PS has rewritten the code that runs
    answered,  \* what the agent has stored: "no", "results", "done"
    mem,       \* what each word means to the test in progress
    polls,     \* reads of the wait so far
    seen,      \* the status the PS has read
    errors,    \* verify_errors # 0
    ok,        \* the results the PS has read are the expected ones
    verdict    \* "none", or what the function returned

cpu == <<held, vector, agent, wild, answered>>
results == <<polls, seen, errors, ok, verdict>>
probe_vars == <<test, at, code, fault, mem, cpu, results>>

P == PhaseOf(test)

Set(locs, v) == [l \in Locations |-> IF l \in locs THEN v ELSE mem[l]]

ProbeInit ==
    /\ test = <<1, 1>> /\ at = "prepare"
    /\ held = FALSE /\ vector = Imem(0)
    /\ code = [a \in Places |-> Nobody] /\ fault = FALSE
    /\ agent = Nobody /\ wild = FALSE /\ answered = "no"
    /\ mem = [l \in Locations |-> "old"]
    /\ polls = 0 /\ seen = "none" /\ errors = FALSE /\ ok = FALSE /\ verdict = "none"

Return(v) == at' = "judged" /\ verdict' = v

(***************************************************************************)
(* The PS.                                                                 *)
(***************************************************************************)
\* The payload does not fit its buffer, or there is no kernel in DDR.
GuardReturns ==
    /\ at = "prepare" /\ P.guarded # "no"
    /\ Return(P.guarded)
    /\ UNCHANGED <<test, code, fault, mem, cpu, polls, seen, errors, ok>>

\* Buffers in DDR are written before the hold, while the last program may run.
Prepare ==
    /\ at = "prepare"
    /\ mem' = Set(P.early, "clear")
    /\ code' = [a \in Places |-> IF a \in P.early THEN test ELSE code[a]]
    /\ wild' = (wild \/ (~held /\ agent # Nobody
                         /\ PhaseOf(agent).early \cap P.early \cap CodeAreas # {}))
    /\ at' = IF P.hold THEN "hold" ELSE "clear"
    /\ UNCHANGED <<test, fault, held, vector, agent, answered, results>>

Hold ==
    /\ at = "hold"
    /\ held' = TRUE /\ agent' = Nobody /\ wild' = FALSE
    /\ at' = "clear"
    /\ UNCHANGED <<test, code, fault, mem, vector, answered, results>>

(* Mutant: the status word keeps what the last test left in it.            *)
Cleared_results == P.cleared \ {P.status}

Cleared == P.cleared

Clear ==
    /\ at = "clear"
    /\ mem' = Set(Cleared, "clear")
    /\ at' = IF ~P.hold THEN "start" ELSE IF P.load = "none" THEN "vector" ELSE "load"
    /\ UNCHANGED <<test, code, fault, cpu, results>>

\* load_zx32_elf_into_imem, or a loop over the program's words.  The image may
\* reach the result words behind the program and leave anything in them.
Load ==
    /\ at = "load"
    /\ code' = [code EXCEPT ![Imem(0)] = test]
    /\ mem' = Set(P.after, "old")
    /\ fault' \in BOOLEAN
    /\ at' = "vector"
    /\ UNCHANGED <<test, cpu, results>>

(* Mutant: the return code of the loader is not looked at.                 *)
LoadFails_ignored ==
    /\ at = "load" /\ P.load = "elf"
    /\ code' \in {code, [code EXCEPT ![Imem(0)] = Nobody]}
    /\ at' = "vector"
    /\ UNCHANGED <<test, fault, mem, cpu, results>>

\* -1 to -8 before the first store, -9 to -11 after some segments: the test
\* returns and leaves the CPU held.
LoadFails ==
    /\ at = "load" /\ P.load = "elf"
    /\ code' \in {code, [code EXCEPT ![Imem(0)] = Nobody]}
    /\ Return("fail")
    /\ UNCHANGED <<test, fault, mem, cpu, polls, seen, errors, ok>>

(* Mutant: only a program in DDR has its vector set.                       *)
NewVector_ddr == IF P.vector \in CodeAreas THEN P.vector ELSE vector

NewVector == IF P.vector = 0 THEN vector ELSE P.vector

SetVector ==
    /\ at = "vector"
    /\ vector' = NewVector
    /\ at' = "verify"
    /\ UNCHANGED <<test, code, fault, mem, held, agent, wild, answered, results>>

\* The program is read back, then the result words of the IMEM are written.
Verify ==
    /\ at = "verify"
    /\ errors' = (P.verify /\ fault)
    /\ mem' = Set(P.after, "clear")
    /\ at' = "release"
    /\ UNCHANGED <<test, code, fault, cpu, polls, seen, ok, verdict>>

Release ==
    /\ at = "release"
    /\ held' = FALSE /\ agent' = code[vector] /\ answered' = "no"
    /\ at' = IF P.start THEN "start" ELSE "poll"
    /\ UNCHANGED <<test, code, fault, mem, vector, wild, results>>

\* The start word of the mailbox or DMA_CTRL; without a hold, the program in
\* the BRAM since power-up, or the DMA engine, is the one that answers.
Start ==
    /\ at = "start"
    /\ agent' = IF P.hold THEN agent ELSE test
    /\ answered' = IF P.hold THEN answered ELSE "no"
    /\ at' = "poll"
    /\ UNCHANGED <<test, code, fault, mem, held, vector, wild, results>>

\* Whether a word the PS reads now is what it expects.
Expected(l) == mem[l] \in {"good", "old"} \/ (l \in P.blank /\ mem[l] = "clear")

\* The status as the PS reads it; an old word may hold PASS.
Status ==
    IF P.status = 0 THEN IF \A l \in P.checked : Expected(l) THEN "good" ELSE "clear"
    ELSE IF mem[P.status] = "old" THEN "good" ELSE mem[P.status]

\* wait_for_cpu and wait_for_dma are followed by a return or a second look;
\* the tests' own loops by nothing.
AfterWait(s) ==
    IF s = "good" \/ P.late = "keep" THEN at' = "collect" /\ UNCHANGED verdict
    ELSE IF P.late = "reread" THEN at' = "reread" /\ UNCHANGED verdict
    ELSE Return("fail")

TimedOut == polls = Polls

Poll ==
    /\ at = "poll" /\ ~ TimedOut
    /\ seen' = Status
    /\ polls' = polls + 1
    /\ IF Status \in P.stops THEN AfterWait(Status) ELSE UNCHANGED <<at, verdict>>
    /\ UNCHANGED <<test, code, fault, mem, cpu, errors, ok>>

(* Mutant: the wait has no bound.                                          *)
Timeout_never ==
    /\ at = "poll" /\ TimedOut
    /\ polls' = 0
    /\ UNCHANGED <<test, at, code, fault, mem, cpu, seen, errors, ok, verdict>>

Timeout ==
    /\ at = "poll" /\ TimedOut
    /\ AfterWait(seen)
    /\ UNCHANGED <<test, code, fault, mem, cpu, polls, seen, errors, ok>>

(* Mutant: the results are read before the status is read again.           *)
Reread_last ==
    /\ at = "reread"
    /\ IF verdict = "none"
       THEN ok' = (\A l \in P.checked : Expected(l)) /\ verdict' = "skip" /\ UNCHANGED <<at, seen>>
       ELSE seen' = Status /\ verdict' = "none" /\ at' = "judge" /\ UNCHANGED ok
    /\ UNCHANGED <<test, code, fault, mem, cpu, polls, errors>>

Reread ==
    /\ at = "reread"
    /\ seen' = Status
    /\ at' = "collect"
    /\ UNCHANGED <<test, code, fault, mem, cpu, polls, errors, ok, verdict>>

Collect ==
    /\ at = "collect"
    /\ ok' = \A l \in P.checked : Expected(l)
    /\ at' = "judge"
    /\ UNCHANGED <<test, code, fault, mem, cpu, polls, seen, errors, verdict>>

Judge ==
    /\ at = "judge"
    /\ Return(IF ~errors /\ seen = "good" /\ ok THEN "pass" ELSE "fail")
    /\ UNCHANGED <<test, code, fault, mem, cpu, polls, seen, errors, ok>>

\* main prints the verdict and calls the next test; the second phase of a test
\* is reached only if the first one passed.
Advance ==
    /\ at = "judged"
    /\ \/ /\ verdict = "pass" /\ test[2] < Len(Tests[test[1]])
          /\ test' = <<test[1], test[2] + 1>>
          /\ mem' = [l \in Locations |-> IF mem[l] = "clear" THEN "clear" ELSE "old"]
       \/ /\ verdict = "pass" => test[2] = Len(Tests[test[1]])
          /\ test[1] < Len(Tests)
          /\ test' = <<test[1] + 1, 1>>
          /\ mem' = [l \in Locations |-> "old"]
    /\ at' = "prepare"
    /\ fault' = FALSE
    /\ polls' = 0 /\ seen' = "none" /\ errors' = FALSE /\ ok' = FALSE /\ verdict' = "none"
    /\ UNCHANGED <<code, cpu>>

\* while (1)
Idle ==
    /\ at = "judged" /\ test[1] = Len(Tests)
    /\ UNCHANGED probe_vars

MainStep ==
    \/ GuardReturns \/ Prepare \/ Hold \/ Clear \/ Load \/ LoadFails \/ SetVector \/ Verify
    \/ Release \/ Start \/ Poll \/ Timeout \/ Reread \/ Collect \/ Judge \/ Advance

(***************************************************************************)
(* The PL.  The programs store their results before their status; a core   *)
(* that does not work may store a wrong word, or skip the results.         *)
(***************************************************************************)
OwnRuns == agent = test /\ ~held /\ at # "start"

StoreResults ==
    /\ OwnRuns /\ answered = "no"
    /\ \E wrong \in {{}} \cup {{l} : l \in P.checked} :
           mem' = [l \in Locations |->
                      IF l \in wrong THEN "bad"
                      ELSE IF l \in P.checked \ P.blank THEN "good" ELSE mem[l]]
    /\ answered' = "results"
    /\ UNCHANGED <<test, at, code, fault, held, vector, agent, wild, results>>

StoreStatus ==
    /\ OwnRuns /\ answered # "done" /\ P.status # 0
    /\ \E s \in {"good", "bad"} : mem' = Set({P.status}, s)
    /\ answered' = "done"
    /\ UNCHANGED <<test, at, code, fault, held, vector, agent, wild, results>>

\* A program that was left running goes on storing (some loop on their last
\* store), a DMA transfer until it is done; a program whose code was rewritten
\* traps, or stores anywhere in the scratchpad.
LateTouches ==
    IF wild THEN Scratch ELSE PhaseOf(agent).checked \cup {PhaseOf(agent).status}

StoreLate ==
    /\ agent \notin {Nobody, test} /\ ~held
    /\ PhaseOf(agent).hold \/ answered # "done"
    /\ mem' = Set(LateTouches, "old")
    /\ UNCHANGED <<test, at, code, fault, cpu, results>>

PlStep == StoreResults \/ StoreStatus \/ StoreLate

ProbeNext == MainStep \/ Idle \/ PlStep

ProbeSpec == ProbeInit /\ [][ProbeNext]_probe_vars

\* The PS runs on; the CPU may hang at any point.
FairProbeSpec == ProbeSpec /\ WF_probe_vars(MainStep)

ProbeTypeOK ==
    /\ test \in Ids
    /\ at \in {"prepare", "hold", "clear", "load", "vector", "verify", "release", "start",
               "poll", "reread", "collect", "judge", "judged"}
    /\ held \in BOOLEAN /\ vector \in Places
    /\ code \in [Places -> Ids \cup {Nobody}] /\ fault \in BOOLEAN
    /\ agent \in Ids \cup {Nobody} /\ wild \in BOOLEAN
    /\ answered \in {"no", "results", "done"}
    /\ mem \in [Locations -> {"old", "clear", "good", "bad"}]
    /\ polls \in 0 .. Polls
    /\ seen \in {"none", "clear", "good", "bad"}
    /\ errors \in BOOLEAN /\ ok \in BOOLEAN
    /\ verdict \in {"none", "pass", "fail", "skip"}

\* A PASS is earned: it is given only when every result it rests on was stored
\* by this test's own program after its own release, from an image that was read
\* back without an error where the test reads it back.  No word of an earlier
\* test, and no store of a program that was left running, can make a test pass.
PassIsEarned ==
    at = "judged" /\ verdict = "pass" =>
        /\ agent = test /\ ~wild
        /\ \A l \in P.checked \ P.blank : mem[l] = "good"
        /\ P.status # 0 => mem[P.status] = "good"
        /\ P.verify => ~fault

\* A FAIL is deserved: when the program has answered PASS, in time or while the
\* PS looked a second time, the test fails only if a result is really wrong.
FailIsDeserved ==
    at = "judged" /\ verdict = "fail" /\ seen = "good" =>
        errors \/ \E l \in P.checked : ~ Expected(l)

\* A test that waits waits for its own program: the reset vector and the image
\* it points at are this test's, after any mixture of failed loads and of
\* programs in IMEM and DDR before it.  (With the types of all variables.)
WaitsForItself ==
    /\ ProbeTypeOK
    /\ at = "poll" => agent = test /\ ~held

\* A core that hangs does not hang the probe: every test comes to its verdict,
\* and main to its end.
ProbeEnds == <>(at = "judged" /\ test[1] = Len(Tests))
=============================================================================
