--------------------------- MODULE SbiTimer_proofs ---------------------------
(***************************************************************************)
(* The timer for halves, windows and boot times of any size: no torn read, *)
(* carry or half-written compare value makes the interrupt early or late,  *)
(* as long as no request is so far away that the 64-bit sum wraps.         *)
(***************************************************************************)
EXTENDS SbiTimer, Integers, TLAPS

\* No request wraps when the offset is added to it.  (The one that stands for
\* "no timer" does: see DeadlineAsDocumented.)
NoWrap == \A r \in Requests : r + MaxTime < Top

(***************************************************************************)
(* The inductive invariant.                                                *)
(***************************************************************************)

\* How far mtime is ahead of the time CSR: constant from release to reboot.
Lead == mtime - mcycle

HeldOK == IF fw.pc = "held" THEN mcycle = 0 /\ ~due.set ELSE Lead >= BootTime

\* The reads of mtime: the high half is not ahead of the low one, and when it
\* has not moved on, the two belong together.
MtimeOK ==
  /\ fw.pc = "mtime_lo" => fw.now[1] <= mtime \div Half
  /\ fw.pc = "mtime_check" => /\ fw.now[1] <= (fw.seen + Lead) \div Half
                              /\ fw.now[2] = (fw.seen + Lead) % Half
  /\ fw.pc \in Calibrating => fw.seen <= mcycle /\ mcycle - fw.seen <= MaxSkew
  /\ fw.pc \in {"time_hi", "time_lo", "time_check", "deadline", "cmp_off", "cmp_lo", "cmp_hi"} =>
       fw.seen <= mcycle /\ Val(fw.now) = fw.seen + Lead

\* The reads of the time CSR, likewise; they come after that of mtime.
TimeOK ==
  /\ fw.pc = "time_lo" => fw.time[1] <= mcycle \div Half
  /\ fw.pc = "time_check" =>
       \E t \in fw.seen .. mcycle : fw.time[1] <= t \div Half /\ fw.time[2] = t % Half
  /\ fw.pc = "deadline" => Val(fw.time) - fw.seen \in 0 .. MaxSkew

\* The offset is the lead, but for the time the calibration took.
OffsetOK ==
  /\ fw.pc # "held" /\ offset.valid => Val(offset.value) + skew = Lead
  /\ due.set => offset.valid

ArgOK == fw.pc \notin {"held", "linux"} => Val(fw.arg) + MaxTime < Top

\* The compare value is the later of the translated request and the window, and
\* cannot be reached while only half of it is written.
CmpOK ==
  /\ fw.pc \in {"cmp_off", "cmp_lo", "cmp_hi"} =>
       /\ offset.valid /\ Val(fw.cmp) >= fw.seen + Lead + Window
       /\ Val(fw.cmp) + skew >= Val(fw.arg) + Lead
       /\ \/ Val(fw.cmp) + skew = Val(fw.arg) + Lead
          \/ Val(fw.cmp) = fw.seen + Lead + Window
  /\ fw.pc \in {"cmp_lo", "cmp_hi"} =>
       mtimecmp[1] = Half - 1 /\ due.set /\ due.request = Val(fw.arg) /\ fw.seen <= due.at
  /\ fw.pc = "cmp_hi" => mtimecmp[2] = fw.cmp[2]

DueOK ==
  due.set /\ fw.pc \notin {"cmp_lo", "cmp_hi"} =>
    /\ mtimecmp # Zero
    /\ Val(mtimecmp) + skew >= due.request + Lead
    /\ \/ Val(mtimecmp) + skew = due.request + Lead
       \/ Val(mtimecmp) <= due.at + Lead + Window

IInv == TypeOK /\ HeldOK /\ MtimeOK /\ TimeOK /\ OffsetOK /\ ArgOK /\ CmpOK /\ DueOK
-----------------------------------------------------------------------------
(* 64-bit arithmetic.                                                      *)

LEMMA Products ==
    ASSUME NEW x \in Nat, NEW y \in Nat, NEW n \in Nat
    PROVE  /\ x * n \in Nat /\ (x + 1) * n = x * n + n /\ (x + y) * n = x * n + y * n
           /\ x <= y => x * n <= y * n
           /\ 0 * n = 0 /\ 1 * n = n
  <1>1. x * n \in Nat /\ (x + 1) * n = x * n + n /\ (x + y) * n = x * n + y * n
    OBVIOUS
  <1>2. ASSUME x <= y PROVE x * n <= y * n
    <2>1. PICK d \in Nat : y = x + d
      BY <1>2
    <2>2. y * n = x * n + d * n /\ d * n \in Nat
      BY <2>1
    <2> QED BY <1>1, <2>2
  <1> QED BY <1>1, <1>2

LEMMA HalfIs ==
    /\ Half \in Nat \ {0, 1} /\ Top \in Nat /\ Top = Half * Half
    /\ Window \in Nat /\ 1 <= Window /\ Window < Half
    /\ MaxTime \in Nat /\ MaxTime < Top - Half /\ MaxTime < Top
    /\ BootTime \in Nat /\ MaxSkew \in Nat /\ MaxSkew <= BootTime
  BY TimerAssumption DEF Top

LEMMA DwordIs ==
    ASSUME NEW d \in Dword
    PROVE  /\ d[1] \in Nat /\ d[2] \in Nat /\ d[1] < Half /\ d[2] < Half
           /\ d[1] \in Halves /\ d[2] \in Halves
           /\ d = <<d[1], d[2]>>
           /\ Val(d) = d[1] * Half + d[2] /\ Val(d) \in Nat /\ Val(d) < Top
  <1>1. /\ d[1] \in Nat /\ d[2] \in Nat /\ d[1] < Half /\ d[2] < Half
        /\ d[1] \in Halves /\ d[2] \in Halves /\ d = <<d[1], d[2]>>
    BY HalfIs DEF Dword, Halves
  <1>2. PICK h \in Nat, l \in Nat : h = d[1] /\ l = d[2] /\ h <= Half - 1 /\ l < Half
    BY <1>1, HalfIs
  <1>3. h * Half <= (Half - 1) * Half
    BY <1>2, HalfIs
  <1>4. (Half - 1) * Half = Top - Half /\ h * Half \in Nat
    BY <1>2, HalfIs
  <1> QED BY <1>1, <1>2, <1>3, <1>4, HalfIs DEF Val

LEMMA DivIs ==
    ASSUME NEW v \in Nat
    PROVE  \E p \in Nat, r \in Nat :
             p = v \div Half /\ r = v % Half /\ r < Half /\ v = p * Half + r
  <1>1. Half \in Nat \ {0}
    BY HalfIs
  <1> QED BY <1>1

\* Dividing is monotonic.
LEMMA DivMono ==
    ASSUME NEW v \in Nat, NEW w \in Nat, v <= w
    PROVE  v \div Half <= w \div Half
  <1>1. PICK p \in Nat, r \in Nat : p = v \div Half /\ r = v % Half /\ r < Half /\ v = p * Half + r
    BY DivIs
  <1>2. PICK q \in Nat, s \in Nat : q = w \div Half /\ s = w % Half /\ s < Half /\ w = q * Half + s
    BY DivIs
  <1> SUFFICES ASSUME p > q PROVE FALSE
    BY <1>1, <1>2
  <1>3. q + 1 \in Nat /\ q + 1 <= p /\ Half \in Nat
    BY HalfIs
  <1>4. (q + 1) * Half <= p * Half /\ (q + 1) * Half = q * Half + Half /\ q * Half \in Nat
        /\ p * Half \in Nat
    BY <1>3, Products
  <1> QED BY <1>1, <1>2, <1>3, <1>4

LEMMA SplitIs ==
    ASSUME NEW v \in Nat, v < Top
    PROVE  /\ Split(v) \in Dword /\ Val(Split(v)) = v
           /\ Split(v)[1] = v \div Half /\ Split(v)[2] = v % Half
           /\ v \div Half \in Halves /\ v % Half \in Halves
  <1>1. PICK p \in Nat, r \in Nat : p = v \div Half /\ r = v % Half /\ r < Half /\ v = p * Half + r
    BY DivIs
  <1>2. p < Half
    <2> SUFFICES ASSUME p >= Half PROVE FALSE
      BY <1>1, HalfIs
    <2>1. p * Half >= Half * Half
      BY HalfIs
    <2> QED BY <1>1, <2>1, HalfIs
  <1>3. p \in Halves /\ r \in Halves
    BY <1>1, <1>2, HalfIs DEF Halves
  <1> QED BY <1>1, <1>3 DEF Split, Dword, Val

\* A pair of halves is determined by its value.
LEMMA ValSplits ==
    ASSUME NEW h \in Nat, NEW l \in Nat, NEW k \in Nat, NEW m \in Nat, l < Half, m < Half
    PROVE  /\ h < k => h * Half + l < k * Half + m
           /\ h = k => (h * Half + l < k * Half + m <=> l < m)
  <1>1. ASSUME h < k PROVE h * Half + l < k * Half + m
    <2>1. (h + 1) * Half <= k * Half /\ (h + 1) * Half = h * Half + Half
      BY <1>1, HalfIs
    <2>2. h * Half \in Nat /\ k * Half \in Nat
      BY HalfIs
    <2> QED BY <2>1, <2>2, HalfIs
  <1>2. ASSUME h = k PROVE h * Half + l < k * Half + m <=> l < m
    <2>1. h * Half \in Nat
      BY HalfIs
    <2> QED BY <1>2, <2>1
  <1> QED BY <1>1, <1>2

LEMMA LessIs ==
    ASSUME NEW a \in Dword, NEW b \in Dword
    PROVE  Less(a, b) <=> Val(a) < Val(b)
  <1>1. PICK h \in Nat, l \in Nat : h = a[1] /\ l = a[2] /\ l < Half /\ Val(a) = h * Half + l
    BY DwordIs
  <1>2. PICK k \in Nat, m \in Nat : k = b[1] /\ m = b[2] /\ m < Half /\ Val(b) = k * Half + m
    BY DwordIs
  <1>3. /\ h < k => Val(a) < Val(b)
        /\ h = k => (Val(a) < Val(b) <=> l < m)
        /\ k < h => Val(b) < Val(a)
    BY <1>1, <1>2, ValSplits
  <1>4. Less(a, b) <=> h < k \/ (h = k /\ l < m)
    BY <1>1, <1>2 DEF Less
  <1>5. h < k \/ h = k \/ k < h
    OBVIOUS
  <1>6. ~(Val(b) < Val(a) /\ Val(a) < Val(b))
    BY DwordIs
  <1> QED BY <1>3, <1>4, <1>5, <1>6

LEMMA AddType ==
    ASSUME NEW a \in Dword, NEW b \in Dword
    PROVE  Add(a, b) \in Dword
  <1> DEFINE low == (a[2] + b[2]) % Half
             carry == IF low < b[2] THEN 1 ELSE 0
  <1>1. low \in Halves /\ low \in Nat
    BY DwordIs, HalfIs DEF Halves
  <1>2. (a[1] + b[1] + carry) % Half \in Halves
    <2>1. carry \in Nat
      OBVIOUS
    <2> HIDE DEF carry
    <2> QED BY <2>1, DwordIs, HalfIs DEF Halves
  <1> QED BY <1>1, <1>2 DEF Add, Dword

LEMMA AddIs ==
    ASSUME NEW a \in Dword, NEW b \in Dword, Val(a) + Val(b) < Top
    PROVE  Add(a, b) \in Dword /\ Val(Add(a, b)) = Val(a) + Val(b)
  <1>1. PICK h \in Nat, l \in Nat : h = a[1] /\ l = a[2] /\ l < Half /\ Val(a) = h * Half + l
    BY DwordIs
  <1>2. PICK k \in Nat, m \in Nat : k = b[1] /\ m = b[2] /\ m < Half /\ Val(b) = k * Half + m
    BY DwordIs
  <1>3. PICK z \in Nat : z = (l + m) % Half /\ z = IF l + m < Half THEN l + m ELSE l + m - Half
    <2>1. CASE l + m < Half
      BY <2>1, HalfIs
    <2>2. CASE l + m >= Half
      <3>1. PICK x \in Nat : x = l + m - Half /\ x < Half
        BY <1>1, <1>2, <2>2, HalfIs
      <3>2. (x + Half) % Half = x
        BY <3>1, HalfIs
      <3> QED BY <2>2, <3>1, <3>2, HalfIs
    <2> QED BY <2>1, <2>2, HalfIs
  <1>4. PICK c \in {0, 1} : c = IF z < m THEN 1 ELSE 0
    OBVIOUS
  <1>5. l + m = c * Half + z
    <2>1. CASE l + m < Half
      BY <1>3, <1>4, <2>1, HalfIs, Products
    <2>2. CASE l + m >= Half
      BY <1>1, <1>2, <1>3, <1>4, <2>2, HalfIs, Products
    <2> QED BY <2>1, <2>2, HalfIs
  <1>6. PICK s \in Nat : s = h + k + c
    BY <1>4
  <1>7. s * Half = h * Half + k * Half + c * Half
    <2>1. h + k \in Nat /\ c \in Nat /\ Half \in Nat /\ s = (h + k) + c
      BY <1>6, HalfIs
    <2>2. s * Half = (h + k) * Half + c * Half /\ (h + k) * Half = h * Half + k * Half
      BY <2>1, Products
    <2> QED BY <2>2
  <1>8. s * Half + z = Val(a) + Val(b)
    <2>1. h * Half \in Nat /\ k * Half \in Nat /\ c * Half \in Nat
      BY HalfIs, Products
    <2> QED BY <1>1, <1>2, <1>5, <1>7, <2>1
  <1>9. s < Half
    <2> SUFFICES ASSUME Half <= s PROVE FALSE
      BY HalfIs
    <2>1. Half * Half <= s * Half /\ s * Half \in Nat
      BY HalfIs, Products
    <2> QED BY <1>8, <2>1, HalfIs
  <1>10. s % Half = s
    BY <1>9, HalfIs
  <1>11. Add(a, b) = <<s, z>>
    BY <1>1, <1>2, <1>3, <1>4, <1>6, <1>10 DEF Add
  <1>12. Val(Add(a, b)) = s * Half + z
    BY <1>11 DEF Val
  <1> QED BY <1>8, <1>12, AddType

LEMMA SubIs ==
    ASSUME NEW a \in Dword, NEW b \in Dword, Val(b) <= Val(a)
    PROVE  Sub(a, b) \in Dword /\ Val(Sub(a, b)) = Val(a) - Val(b)
  <1>1. PICK h \in Nat, l \in Nat :
          h = a[1] /\ l = a[2] /\ l < Half /\ h < Half /\ Val(a) = h * Half + l
    BY DwordIs
  <1>2. PICK k \in Nat, m \in Nat :
          k = b[1] /\ m = b[2] /\ m < Half /\ k < Half /\ Val(b) = k * Half + m
    BY DwordIs
  <1>3. PICK c \in {0, 1} : c = IF l < m THEN 1 ELSE 0
    OBVIOUS
  <1>4. PICK x \in Nat : x = (l + Half - m) % Half /\ x < Half /\ l + c * Half = m + x
    <2>1. CASE l < m
      <3>1. PICK x \in Nat : x = l + Half - m /\ x < Half
        BY <1>1, <1>2, <2>1, HalfIs
      <3>2. x % Half = x
        BY <3>1, HalfIs
      <3> QED BY <1>3, <2>1, <3>1, <3>2, HalfIs, Products
    <2>2. CASE l >= m
      <3>1. PICK x \in Nat : x = l - m /\ x < Half /\ l + Half - m = x + Half
        BY <1>1, <1>2, <2>2, HalfIs
      <3>2. (x + Half) % Half = x
        BY <3>1, HalfIs
      <3>3. c * Half = 0
        BY <1>3, <2>2, HalfIs, Products
      <3> QED BY <1>1, <1>2, <3>1, <3>2, <3>3
    <2> QED BY <2>1, <2>2
  <1>5. k + c <= h
    <2>1. (h < k => Val(a) < Val(b)) /\ (h = k => (Val(a) < Val(b) <=> l < m))
      BY <1>1, <1>2, ValSplits
    <2>2. ~(Val(a) < Val(b))
      BY DwordIs
    <2> QED BY <1>3, <2>1, <2>2
  <1>6. PICK y \in Nat : h = (y + k) + c /\ y < Half
    <2>1. h - (k + c) \in Nat /\ h = ((h - (k + c)) + k) + c /\ h - (k + c) < Half
      BY <1>1, <1>2, <1>3, <1>5, HalfIs
    <2> QED BY <2>1
  <1>7. (h + 2 * Half - k - c) % Half = y
    <2>1. h + 2 * Half - k - c = y + 2 * Half
      BY <1>6, HalfIs
    <2>2. (y + 2 * Half) % Half = y
      BY <1>6, HalfIs
    <2> QED BY <2>1, <2>2
  <1>8. Sub(a, b) = <<y, x>>
    BY <1>1, <1>2, <1>3, <1>4, <1>7 DEF Sub
  <1>9. Val(b) + (y * Half + x) = Val(a)
    <2>1. /\ h * Half = (y + k) * Half + c * Half /\ (y + k) * Half = y * Half + k * Half
          /\ y * Half \in Nat /\ k * Half \in Nat /\ c * Half \in Nat
      BY <1>6, HalfIs, Products
    <2> QED BY <1>1, <1>2, <1>4, <2>1
  <1>10. y \in Halves /\ x \in Halves /\ y * Half \in Nat
    BY <1>4, <1>6, HalfIs DEF Halves
  <1>11. Val(Sub(a, b)) = y * Half + x
    BY <1>8 DEF Val
  <1>12. Sub(a, b) \in Dword
    BY <1>8, <1>10 DEF Dword
  <1> QED BY <1>9, <1>10, <1>11, <1>12, DwordIs
-----------------------------------------------------------------------------
(* Types.                                                                  *)

FwType == [pc : Pc, arg : Dword, now : Dword, time : Dword, cmp : Dword, seen : 0 .. MaxTime]

LEMMA TypeIs ==
    ASSUME TypeOK
    PROVE  /\ mtime \in Nat /\ mcycle \in Nat /\ mcycle <= mtime /\ mtime <= MaxTime
           /\ mtime < Top /\ mcycle < Top /\ Lead \in Nat /\ mtime = mcycle + Lead
           /\ mtimecmp \in Dword /\ fw \in FwType
           /\ fw.pc \in Pc /\ fw.arg \in Dword /\ fw.now \in Dword /\ fw.time \in Dword
           /\ fw.cmp \in Dword /\ fw.seen \in Nat /\ fw.seen <= MaxTime
           /\ offset.valid \in BOOLEAN /\ offset.value \in Dword
           /\ due.set \in BOOLEAN /\ due.request \in Nat /\ due.at \in Nat
           /\ skew \in Nat /\ skew <= MaxSkew
  <1>1. /\ mtime \in Nat /\ mcycle \in Nat /\ mcycle <= mtime /\ mtime <= MaxTime
        /\ skew \in Nat /\ skew <= MaxSkew
    BY HalfIs DEF TypeOK
  <1>2. /\ fw \in FwType /\ fw.pc \in Pc /\ fw.arg \in Dword /\ fw.now \in Dword
        /\ fw.time \in Dword /\ fw.cmp \in Dword /\ fw.seen \in 0 .. MaxTime
    BY DEF TypeOK, FwType
  <1>3. /\ offset.valid \in BOOLEAN /\ offset.value \in Dword
        /\ due.set \in BOOLEAN /\ due.request \in 0 .. Top - 1 /\ due.at \in 0 .. MaxTime
        /\ mtimecmp \in Dword
    BY DEF TypeOK
  <1> QED BY <1>1, <1>2, <1>3, HalfIs DEF Lead

LEMMA ZeroIs == Zero \in Dword /\ Val(Zero) = 0 /\ 0 \in Halves
  BY HalfIs DEF Zero, Dword, Val, Halves

LEMMA HeldType == Held \in FwType /\ [Held EXCEPT !.pc = "linux"] \in FwType
  <1>1. 0 \in 0 .. MaxTime
    BY HalfIs
  <1> QED BY <1>1, ZeroIs DEF Held, FwType, Pc

LEMMA InitInvariant == Init => IInv
  <1> SUFFICES ASSUME Init PROVE IInv
    OBVIOUS
  <1>1. fw = Held /\ fw.pc = "held" /\ due = NoDue /\ ~due.set /\ mcycle = 0 /\ mtime = 0
    BY DEF Init, Held, NoDue
  <1>2. NoDue \in [set : BOOLEAN, request : 0 .. Top - 1, at : 0 .. MaxTime]
    BY HalfIs DEF NoDue
  <1>3. TypeOK
    BY <1>1, <1>2, ZeroIs, HeldType, HalfIs DEF Init, TypeOK, FwType
  <1> QED BY <1>1, <1>3 DEF IInv, HeldOK, MtimeOK, TimeOK, OffsetOK, ArgOK, CmpOK, DueOK, Calibrating

\* The values of the two counters, as they are read.
LEMMA ReadIs ==
    ASSUME TypeOK
    PROVE  /\ Split(mtime)[1] = mtime \div Half /\ Split(mtime)[2] = mtime % Half
           /\ Split(mcycle)[1] = mcycle \div Half /\ Split(mcycle)[2] = mcycle % Half
           /\ mtime \div Half \in Halves /\ mtime % Half \in Halves
           /\ mcycle \div Half \in Halves /\ mcycle % Half \in Halves
           /\ Split(mtime) \in Dword /\ Val(Split(mtime)) = mtime
  BY TypeIs, SplitIs

LEMMA PairType ==
    ASSUME NEW h \in Halves, NEW l \in Halves
    PROVE  <<h, l>> \in Dword /\ <<h, l>>[1] = h /\ <<h, l>>[2] = l
           /\ Val(<<h, l>>) = h * Half + l
  BY DEF Dword, Val

\* Steps of the firmware that only move on and load registers.
LEMMA FwStepType ==
    ASSUME TypeOK, fw' \in FwType, UNCHANGED <<mtime, mcycle, mtimecmp, offset, due, skew>>
    PROVE  TypeOK'
  BY DEF TypeOK, FwType
-----------------------------------------------------------------------------
(* Time passes.                                                            *)

LEMMA TickInvariant ==
    ASSUME IInv, Tick
    PROVE  IInv'
  <1>1. TypeOK /\ UNCHANGED <<mtimecmp, fw, offset, due, skew>> /\ mtime' = mtime + 1 /\ mtime < MaxTime
    BY DEF IInv, Tick
  <1>2. CASE fw.pc = "held"
    <2>1. mcycle' = 0
      BY <1>2 DEF Tick
    <2>2. TypeOK'
      BY <1>1, <2>1, TypeIs, HalfIs DEF TypeOK
    <2> QED BY <1>1, <1>2, <2>1, <2>2 DEF IInv, HeldOK, MtimeOK, TimeOK, OffsetOK, ArgOK, CmpOK, DueOK,
                                         Calibrating
  <1>3. CASE fw.pc # "held"
    <2>1. mcycle' = mcycle + 1 /\ Lead' = Lead /\ Lead \in Nat /\ mcycle \in Nat /\ mtime \in Nat
      BY <1>1, <1>3, TypeIs DEF Tick, Lead
    <2>2. TypeOK'
      BY <1>1, <2>1, TypeIs, HalfIs DEF TypeOK
    <2>3. mtime \div Half <= mtime' \div Half /\ mcycle \div Half <= mcycle' \div Half
      BY <1>1, <2>1, DivMono
    <2>4. /\ mtime \div Half \in Nat /\ mtime' \div Half \in Nat /\ mcycle \div Half \in Nat
          /\ mcycle' \div Half \in Nat
      BY <1>1, <2>1, HalfIs
    <2>5. fw.now[1] \in Nat /\ fw.time[1] \in Nat /\ fw.seen \in Nat /\ MaxSkew \in Nat
      BY <1>1, TypeIs, DwordIs, HalfIs
    <2>6. MtimeOK'
      <3>1. fw.pc = "mtime_lo" => fw.now[1] <= mtime' \div Half
        BY <2>3, <2>4, <2>5 DEF IInv, MtimeOK
      <3>2. fw.pc \in Calibrating => fw.seen <= mcycle + 1 /\ (mcycle + 1) - fw.seen <= MaxSkew
        BY <2>1, <2>5 DEF IInv, MtimeOK, Tick
      <3>3. fw.seen <= mcycle => fw.seen <= mcycle + 1
        BY <2>1, <2>5
      <3> QED BY <1>1, <2>1, <3>1, <3>2, <3>3 DEF IInv, MtimeOK
    <2>7. TimeOK'
      <3>1. fw.pc = "time_lo" => fw.time[1] <= mcycle' \div Half
        BY <2>3, <2>4, <2>5 DEF IInv, TimeOK
      <3>2. fw.seen .. mcycle \subseteq fw.seen .. mcycle + 1
        BY <2>1, <2>5
      <3> QED BY <1>1, <2>1, <3>1, <3>2 DEF IInv, TimeOK
    <2> QED BY <1>1, <1>3, <2>1, <2>2, <2>6, <2>7
            DEF IInv, HeldOK, OffsetOK, ArgOK, CmpOK, DueOK
  <1> QED BY <1>2, <1>3
-----------------------------------------------------------------------------
(* The reads.                                                              *)

LEMMA ReadFrame ==
    ASSUME IInv, fw' \in FwType, UNCHANGED <<mtime, mcycle, mtimecmp, offset, due, skew>>,
           fw.pc \notin {"held", "cmp_lo", "cmp_hi"},
           fw'.pc \notin {"held", "cmp_off", "cmp_lo", "cmp_hi"}
    PROVE  TypeOK' /\ HeldOK' /\ OffsetOK' /\ CmpOK' /\ DueOK' /\ Lead' = Lead
  <1>1. TypeOK'
    BY FwStepType DEF IInv
  <1>2. Lead' = Lead
    BY DEF Lead
  <1> QED BY <1>1, <1>2 DEF IInv, HeldOK, OffsetOK, CmpOK, DueOK

LEMMA SetTimerInvariant ==
    ASSUME NoWrap, IInv, SetTimer
    PROVE  IInv'
  <1>1. TypeOK /\ fw \in FwType /\ UNCHANGED <<mtime, mcycle, mtimecmp, offset, due, skew>>
    BY TypeIs DEF IInv, SetTimer, Time
  <1>2. PICK r \in Requests : fw' = [fw EXCEPT !.pc = "mtime_hi", !.arg = Split(r)]
    BY DEF SetTimer
  <1>3. r \in Nat /\ r < Top /\ r + MaxTime < Top
    BY TimerAssumption, HalfIs DEF NoWrap
  <1>4. Split(r) \in Dword /\ Val(Split(r)) = r
    BY <1>3, SplitIs
  <1>5. fw.pc = "linux" /\ fw'.pc = "mtime_hi" /\ fw'.arg = Split(r) /\ fw' \in FwType
    BY <1>1, <1>2, <1>4 DEF SetTimer, FwType, Pc
  <1>6. TypeOK' /\ HeldOK' /\ OffsetOK' /\ CmpOK' /\ DueOK'
    BY <1>1, <1>5, ReadFrame
  <1> QED BY <1>3, <1>4, <1>5, <1>6 DEF IInv, MtimeOK, TimeOK, ArgOK, Calibrating

LEMMA MtimeHiInvariant ==
    ASSUME IInv, MtimeHi
    PROVE  IInv'
  <1>1. TypeOK /\ fw \in FwType /\ UNCHANGED <<mtime, mcycle, mtimecmp, offset, due, skew>>
    BY TypeIs DEF IInv, MtimeHi, Time
  <1>2. <<mtime \div Half, 0>> \in Dword
    BY <1>1, ReadIs, ZeroIs, PairType
  <1>3. /\ fw.pc = "mtime_hi" /\ fw'.pc = "mtime_lo" /\ fw'.arg = fw.arg
        /\ fw'.now = <<mtime \div Half, 0>> /\ fw' \in FwType
    BY <1>1, <1>2, ReadIs DEF MtimeHi, FwType, Pc
  <1>4. TypeOK' /\ HeldOK' /\ OffsetOK' /\ CmpOK' /\ DueOK'
    BY <1>1, <1>3, ReadFrame
  <1>5. fw'.now[1] <= mtime' \div Half
    <2>1. mtime \div Half \in Nat
      BY <1>1, TypeIs, HalfIs
    <2> QED BY <1>1, <1>3, <2>1
  <1> QED BY <1>3, <1>4, <1>5 DEF IInv, MtimeOK, TimeOK, ArgOK, Calibrating

LEMMA MtimeLoInvariant ==
    ASSUME IInv, MtimeLo
    PROVE  IInv'
  <1>1. TypeOK /\ fw \in FwType /\ UNCHANGED <<mtime, mcycle, mtimecmp, offset, due, skew>>
    BY TypeIs DEF IInv, MtimeLo, Time
  <1>2. <<fw.now[1], mtime % Half>> \in Dword /\ mcycle \in 0 .. MaxTime
    <2>1. fw.now[1] \in Halves /\ mtime % Half \in Halves
      BY <1>1, TypeIs, DwordIs, ReadIs
    <2>2. mcycle \in 0 .. MaxTime
      BY <1>1, TypeIs, HalfIs
    <2> QED BY <2>1, <2>2, PairType
  <1>3. /\ fw.pc = "mtime_lo" /\ fw'.pc = "mtime_check" /\ fw'.arg = fw.arg
        /\ fw'.now = <<fw.now[1], mtime % Half>> /\ fw'.seen = mcycle /\ fw' \in FwType
    BY <1>1, <1>2, ReadIs DEF MtimeLo, FwType, Pc
  <1>4. TypeOK' /\ HeldOK' /\ OffsetOK' /\ CmpOK' /\ DueOK' /\ Lead' = Lead
    BY <1>1, <1>3, ReadFrame
  <1>5. fw'.seen + Lead' = mtime /\ fw'.now[1] <= mtime \div Half /\ fw'.now[2] = mtime % Half
    BY <1>1, <1>3, <1>4, TypeIs DEF IInv, MtimeOK
  <1>6. fw'.seen <= mcycle' /\ mcycle' - fw'.seen <= MaxSkew
    BY <1>1, <1>3, TypeIs, HalfIs
  <1> QED BY <1>3, <1>4, <1>5, <1>6 DEF IInv, MtimeOK, TimeOK, ArgOK, Calibrating

\* Two reads of the high half that agree enclose a read of the low half: the
\* pair is the value the counter had then.
LEMMA NotTorn ==
    ASSUME NEW d \in Dword, NEW v \in Nat, NEW w \in Nat, v <= w, w < Top,
           d[1] <= v \div Half, d[2] = v % Half, d[1] = w \div Half
    PROVE  Val(d) = v
  <1>1. v \div Half <= w \div Half
    BY DivMono
  <1>2. PICK p \in Nat, r \in Nat : p = v \div Half /\ r = v % Half /\ r < Half /\ v = p * Half + r
    BY DivIs
  <1>3. d[1] = p
    <2>1. d[1] \in Nat
      BY DwordIs
    <2> QED BY <1>1, <1>2, <2>1
  <1> QED BY <1>2, <1>3, DwordIs

LEMMA MtimeCheckInvariant ==
    ASSUME IInv, MtimeCheck
    PROVE  IInv'
  <1>1. TypeOK /\ fw \in FwType /\ UNCHANGED <<mtime, mcycle, mtimecmp, offset, due, skew>>
    BY TypeIs DEF IInv, MtimeCheck, Time
  <1>2. /\ fw.pc = "mtime_check" /\ fw'.arg = fw.arg /\ fw'.now = fw.now /\ fw'.seen = fw.seen
        /\ fw'.pc = IF mtime \div Half = fw.now[1] THEN "time_hi" ELSE "mtime_hi"
        /\ fw' \in FwType
    BY <1>1, ReadIs DEF MtimeCheck, FwType, Pc
  <1>3. TypeOK' /\ HeldOK' /\ OffsetOK' /\ CmpOK' /\ DueOK' /\ Lead' = Lead
    BY <1>1, <1>2, ReadFrame
  <1>4. fw.seen <= mcycle /\ mcycle - fw.seen <= MaxSkew
    BY <1>2 DEF IInv, MtimeOK, Calibrating
  <1>5. mtime \div Half = fw.now[1] => Val(fw.now) = fw.seen + Lead
    <2>1. /\ fw.now[1] <= (fw.seen + Lead) \div Half /\ fw.now[2] = (fw.seen + Lead) % Half
      BY <1>2 DEF IInv, MtimeOK
    <2>2. fw.seen + Lead \in Nat /\ fw.seen + Lead <= mtime /\ mtime < Top /\ mtime \in Nat
      BY <1>1, <1>4, TypeIs
    <2>3. fw.now \in Dword
      BY <1>1, TypeIs
    <2> QED BY <2>1, <2>2, <2>3, NotTorn
  <1> QED BY <1>1, <1>2, <1>3, <1>4, <1>5 DEF IInv, MtimeOK, TimeOK, ArgOK, Calibrating

LEMMA TimeHiInvariant ==
    ASSUME IInv, TimeHi
    PROVE  IInv'
  <1>1. TypeOK /\ fw \in FwType /\ UNCHANGED <<mtime, mcycle, mtimecmp, offset, due, skew>>
    BY TypeIs DEF IInv, TimeHi, Time
  <1>2. <<mcycle \div Half, 0>> \in Dword
    BY <1>1, ReadIs, ZeroIs, PairType
  <1>3. /\ fw.pc = "time_hi" /\ fw'.pc = "time_lo" /\ fw'.arg = fw.arg /\ fw'.now = fw.now
        /\ fw'.seen = fw.seen /\ fw'.time = <<mcycle \div Half, 0>> /\ fw' \in FwType
    BY <1>1, <1>2, ReadIs DEF TimeHi, FwType, Pc
  <1>4. TypeOK' /\ HeldOK' /\ OffsetOK' /\ CmpOK' /\ DueOK' /\ Lead' = Lead
    BY <1>1, <1>3, ReadFrame
  <1>5. fw'.time[1] <= mcycle' \div Half
    <2>1. mcycle \div Half \in Nat
      BY <1>1, TypeIs, HalfIs
    <2> QED BY <1>1, <1>3, <2>1
  <1> QED BY <1>1, <1>3, <1>4, <1>5 DEF IInv, MtimeOK, TimeOK, ArgOK, Calibrating

LEMMA TimeLoInvariant ==
    ASSUME IInv, TimeLo
    PROVE  IInv'
  <1>1. TypeOK /\ fw \in FwType /\ UNCHANGED <<mtime, mcycle, mtimecmp, offset, due, skew>>
    BY TypeIs DEF IInv, TimeLo, Time
  <1>2. <<fw.time[1], mcycle % Half>> \in Dword
    <2>1. fw.time[1] \in Halves /\ mcycle % Half \in Halves
      BY <1>1, TypeIs, DwordIs, ReadIs
    <2> QED BY <2>1, PairType
  <1>3. /\ fw.pc = "time_lo" /\ fw'.pc = "time_check" /\ fw'.arg = fw.arg /\ fw'.now = fw.now
        /\ fw'.seen = fw.seen /\ fw'.time = <<fw.time[1], mcycle % Half>> /\ fw' \in FwType
    BY <1>1, <1>2, ReadIs DEF TimeLo, FwType, Pc
  <1>4. TypeOK' /\ HeldOK' /\ OffsetOK' /\ CmpOK' /\ DueOK' /\ Lead' = Lead
    BY <1>1, <1>3, ReadFrame
  <1>5. \E t \in fw'.seen .. mcycle' : fw'.time[1] <= t \div Half /\ fw'.time[2] = t % Half
    <2>1. mcycle \in fw.seen .. mcycle
      BY <1>1, <1>3, TypeIs DEF IInv, MtimeOK
    <2>2. fw'.time[1] <= mcycle \div Half /\ fw'.time[2] = mcycle % Half
      BY <1>3 DEF IInv, TimeOK
    <2> QED BY <1>1, <1>3, <2>1, <2>2
  <1> QED BY <1>1, <1>3, <1>4, <1>5 DEF IInv, MtimeOK, TimeOK, ArgOK, Calibrating

LEMMA TimeCheckInvariant ==
    ASSUME IInv, TimeCheck
    PROVE  IInv'
  <1>1. TypeOK /\ fw \in FwType /\ UNCHANGED <<mtime, mcycle, mtimecmp, offset, due, skew>>
    BY TypeIs DEF IInv, TimeCheck, Time
  <1>2. /\ fw.pc = "time_check" /\ fw'.arg = fw.arg /\ fw'.now = fw.now /\ fw'.seen = fw.seen
        /\ fw'.pc = IF mcycle \div Half = fw.time[1] THEN "deadline" ELSE "time_hi"
        /\ fw' \in FwType /\ fw'.time = fw.time
    BY <1>1, ReadIs DEF TimeCheck, FwType, Pc
  <1>3. TypeOK' /\ HeldOK' /\ OffsetOK' /\ CmpOK' /\ DueOK' /\ Lead' = Lead
    BY <1>1, <1>2, ReadFrame
  <1>4. fw.seen <= mcycle /\ mcycle - fw.seen <= MaxSkew
    BY <1>2 DEF IInv, MtimeOK, Calibrating
  <1>5. mcycle \div Half = fw.time[1] => Val(fw.time) - fw.seen \in 0 .. MaxSkew
    <2>1. PICK t \in fw.seen .. mcycle : fw.time[1] <= t \div Half /\ fw.time[2] = t % Half
      BY <1>2 DEF IInv, TimeOK
    <2>2. t \in Nat /\ fw.seen <= t /\ t <= mcycle /\ mcycle < Top /\ mcycle \in Nat /\ fw.seen \in Nat
      BY <1>1, TypeIs
    <2>3. mcycle \div Half = fw.time[1] => Val(fw.time) = t
      BY <1>1, <2>1, <2>2, TypeIs, NotTorn
    <2>4. t - fw.seen \in 0 .. MaxSkew
      BY <1>4, <2>2, HalfIs
    <2> QED BY <2>3, <2>4
  <1> QED BY <1>1, <1>2, <1>3, <1>4, <1>5 DEF IInv, MtimeOK, TimeOK, ArgOK, Calibrating
-----------------------------------------------------------------------------
(* The deadline and the compare register.                                  *)

LEMMA DeadlineInvariant ==
    ASSUME IInv, Deadline
    PROVE  IInv'
  <1>1. /\ TypeOK /\ fw \in FwType /\ UNCHANGED <<mtime, mcycle, mtimecmp, due>>
        /\ fw.pc = "deadline"
    BY TypeIs DEF IInv, Deadline, Time
  <1>2. /\ Lead' = Lead /\ Lead \in Nat /\ Lead >= BootTime /\ mtime = mcycle + Lead
        /\ mtime <= MaxTime /\ mtime \in Nat /\ mcycle \in Nat /\ skew \in Nat /\ fw.seen \in Nat
    BY <1>1, TypeIs DEF IInv, HeldOK, Lead
  <1>3. /\ fw.seen <= mcycle /\ Val(fw.now) = fw.seen + Lead
        /\ Val(fw.time) - fw.seen \in 0 .. MaxSkew
        /\ Val(fw.arg) + MaxTime < Top
    BY <1>1 DEF IInv, MtimeOK, TimeOK, ArgOK
  <1>4. /\ Val(fw.now) \in Nat /\ Val(fw.time) \in Nat /\ Val(fw.arg) \in Nat
        /\ fw.now \in Dword /\ fw.time \in Dword /\ fw.arg \in Dword
    BY <1>1, TypeIs, DwordIs
  <1>5. /\ offset' \in [valid : BOOLEAN, value : Dword] /\ offset'.valid /\ offset'.value \in Dword
        /\ skew' \in 0 .. MaxSkew /\ Val(offset'.value) + skew' = Lead
        /\ Val(offset'.value) \in Nat /\ (due.set => skew' = skew)
    <2>1. CASE offset.valid
      <3>1. offset' = offset /\ skew' = skew
        BY <2>1 DEF Deadline
      <3>2. Val(offset.value) + skew = Lead
        BY <1>1, <2>1 DEF IInv, OffsetOK
      <3> QED BY <1>1, <2>1, <3>1, <3>2, TypeIs, DwordIs DEF TypeOK
    <2>2. CASE ~offset.valid
      <3>1. /\ offset' = [valid |-> TRUE, value |-> Sub(fw.now, fw.time)]
            /\ skew' = Val(fw.time) - fw.seen
        BY <2>2 DEF Deadline
      <3>2. Val(fw.time) <= Val(fw.now)
        BY <1>2, <1>3, <1>4, HalfIs
      <3>3. Sub(fw.now, fw.time) \in Dword /\ Val(Sub(fw.now, fw.time)) = Val(fw.now) - Val(fw.time)
        BY <1>4, <3>2, SubIs
      <3>4. Val(fw.now) - Val(fw.time) + (Val(fw.time) - fw.seen) = Lead
        BY <1>2, <1>3, <1>4
      <3>5. Val(fw.now) - Val(fw.time) \in Nat
        BY <1>4, <3>2
      <3>6. ~due.set
        BY <2>2 DEF IInv, OffsetOK
      <3> QED BY <1>3, <3>1, <3>3, <3>4, <3>5, <3>6
    <2> QED BY <2>1, <2>2
  <1>6. PICK asked \in Dword : asked = Add(fw.arg, offset'.value) /\
                               Val(asked) = Val(fw.arg) + Val(offset'.value)
    <2>1. skew' \in Nat /\ MaxTime \in Nat /\ Top \in Nat
      BY <1>5, HalfIs
    <2>2. Val(fw.arg) + Val(offset'.value) < Top
      BY <1>2, <1>3, <1>4, <1>5, <2>1
    <2> QED BY <1>4, <1>5, <2>2, AddIs
  <1>7. PICK least \in Dword : least = Add(fw.now, <<0, Window>>) /\
                               Val(least) = fw.seen + Lead + Window
    <2>1. <<0, Window>> \in Dword /\ Val(<<0, Window>>) = Window
      <3>1. 0 \in Halves /\ Window \in Halves /\ 0 * Half + Window = Window
        BY HalfIs DEF Halves
      <3> QED BY <3>1, PairType
    <2>2. Val(fw.now) + Window < Top
      BY <1>2, <1>3, HalfIs
    <2> QED BY <1>3, <1>4, <2>1, <2>2, AddIs
  <1>8. PICK cmp \in Dword : /\ cmp = IF Less(asked, least) THEN least ELSE asked
                             /\ fw' = [fw EXCEPT !.pc = "cmp_off", !.cmp = cmp]
    BY <1>6, <1>7 DEF Deadline
  <1>9. /\ fw'.pc = "cmp_off" /\ fw'.cmp = cmp /\ fw'.arg = fw.arg /\ fw'.seen = fw.seen
        /\ fw'.now = fw.now /\ fw' \in FwType
    BY <1>1, <1>8 DEF FwType, Pc
  <1>10. TypeOK'
    BY <1>1, <1>5, <1>9 DEF TypeOK, FwType
  <1>11. HeldOK' /\ MtimeOK' /\ TimeOK' /\ OffsetOK' /\ ArgOK'
    BY <1>1, <1>2, <1>3, <1>5, <1>9 DEF HeldOK, MtimeOK, TimeOK, OffsetOK, ArgOK, Calibrating
  <1>12. CmpOK'
    <2>1. Less(asked, least) <=> Val(asked) < Val(least)
      BY LessIs
    <2>2. Val(asked) \in Nat /\ Val(least) \in Nat /\ skew' \in Nat
      BY <1>5, DwordIs, HalfIs
    <2>3. Val(asked) + skew' = Val(fw.arg) + Lead
      BY <1>2, <1>4, <1>5, <1>6, <2>2
    <2>4. /\ Val(cmp) >= fw.seen + Lead + Window
          /\ Val(cmp) + skew' >= Val(fw.arg) + Lead
          /\ Val(cmp) + skew' = Val(fw.arg) + Lead \/ Val(cmp) = fw.seen + Lead + Window
      <3>1. CASE Less(asked, least)
        BY <1>2, <1>4, <1>7, <1>8, <2>1, <2>2, <2>3, <3>1
      <3>2. CASE ~Less(asked, least)
        BY <1>2, <1>4, <1>7, <1>8, <2>1, <2>2, <2>3, <3>2
      <3> QED BY <3>1, <3>2
    <2> QED BY <1>2, <1>5, <1>9, <2>4 DEF CmpOK
  <1>13. DueOK'
    BY <1>1, <1>2, <1>5, <1>9 DEF IInv, DueOK
  <1> QED BY <1>10, <1>11, <1>12, <1>13 DEF IInv

LEMMA CmpOffInvariant ==
    ASSUME IInv, CmpOff
    PROVE  IInv'
  <1>1. /\ TypeOK /\ fw \in FwType /\ UNCHANGED <<mtime, mcycle, offset, skew>>
        /\ fw.pc = "cmp_off" /\ Lead' = Lead
    BY TypeIs DEF IInv, CmpOff, Time, Lead
  <1>2. /\ fw'.pc = "cmp_lo" /\ fw' \in FwType /\ fw'.arg = fw.arg /\ fw'.seen = fw.seen
        /\ fw'.now = fw.now /\ fw'.cmp = fw.cmp
    BY <1>1 DEF CmpOff, FwType, Pc
  <1>3. Half - 1 \in Halves /\ mtimecmp[2] \in Halves
    BY <1>1, TypeIs, DwordIs, HalfIs DEF Halves
  <1>4. mtimecmp' \in Dword /\ mtimecmp'[1] = Half - 1
    BY <1>3, PairType DEF CmpOff
  <1>5. due' = [set |-> TRUE, request |-> Val(fw.arg), at |-> mcycle]
    BY DEF CmpOff
  <1>6. due' \in [set : BOOLEAN, request : 0 .. Top - 1, at : 0 .. MaxTime]
    <2>1. Val(fw.arg) \in 0 .. Top - 1 /\ mcycle \in 0 .. MaxTime
      BY <1>1, TypeIs, DwordIs, HalfIs
    <2> QED BY <1>5, <2>1
  <1>7. TypeOK'
    BY <1>1, <1>2, <1>4, <1>6 DEF TypeOK, FwType
  <1>8. fw.seen <= mcycle /\ offset.valid
    BY <1>1 DEF IInv, MtimeOK, CmpOK
  <1> QED BY <1>1, <1>2, <1>4, <1>5, <1>7, <1>8
          DEF IInv, HeldOK, MtimeOK, TimeOK, OffsetOK, ArgOK, CmpOK, DueOK, Calibrating

LEMMA CmpLoInvariant ==
    ASSUME IInv, CmpLo
    PROVE  IInv'
  <1>1. /\ TypeOK /\ fw \in FwType /\ UNCHANGED <<mtime, mcycle, offset, due, skew>>
        /\ fw.pc = "cmp_lo" /\ Lead' = Lead
    BY TypeIs DEF IInv, CmpLo, Time, Lead
  <1>2. /\ fw'.pc = "cmp_hi" /\ fw' \in FwType /\ fw'.arg = fw.arg /\ fw'.seen = fw.seen
        /\ fw'.now = fw.now /\ fw'.cmp = fw.cmp
    BY <1>1 DEF CmpLo, FwType, Pc
  <1>3. mtimecmp[1] \in Halves /\ fw.cmp[2] \in Halves
    BY <1>1, TypeIs, DwordIs
  <1>4. mtimecmp' \in Dword /\ mtimecmp'[1] = mtimecmp[1] /\ mtimecmp'[2] = fw.cmp[2]
    BY <1>3, PairType DEF CmpLo
  <1>5. TypeOK'
    BY <1>1, <1>2, <1>4 DEF TypeOK, FwType
  <1> QED BY <1>1, <1>2, <1>4, <1>5
          DEF IInv, HeldOK, MtimeOK, TimeOK, OffsetOK, ArgOK, CmpOK, DueOK, Calibrating

LEMMA CmpHiInvariant ==
    ASSUME IInv, CmpHi
    PROVE  IInv'
  <1>1. /\ TypeOK /\ UNCHANGED <<mtime, mcycle, offset, due, skew>>
        /\ fw.pc = "cmp_hi" /\ Lead' = Lead /\ fw' = [Held EXCEPT !.pc = "linux"]
    BY DEF IInv, CmpHi, Time, Lead
  <1>2. fw'.pc = "linux" /\ fw' \in FwType
    BY <1>1, HeldType DEF Held
  <1>3. fw.cmp \in Dword /\ mtimecmp[2] = fw.cmp[2]
    BY <1>1, TypeIs DEF IInv, CmpOK
  <1>4. mtimecmp' = fw.cmp
    <2>1. mtimecmp' = <<fw.cmp[1], fw.cmp[2]>>
      BY <1>3 DEF CmpHi
    <2> QED BY <1>3, <2>1, DwordIs
  <1>5. TypeOK'
    BY <1>1, <1>2, <1>3, <1>4 DEF TypeOK, FwType
  <1>6. /\ Val(fw.cmp) >= fw.seen + Lead + Window /\ Val(fw.cmp) + skew >= due.request + Lead
        /\ \/ Val(fw.cmp) + skew = due.request + Lead
           \/ Val(fw.cmp) = fw.seen + Lead + Window
        /\ fw.seen <= due.at /\ due.set
    BY <1>1 DEF IInv, CmpOK
  <1>7. /\ fw.seen \in Nat /\ Lead \in Nat /\ due.at \in Nat /\ Window \in Nat /\ 1 <= Window
        /\ Val(fw.cmp) \in Nat
    BY <1>1, <1>3, TypeIs, DwordIs, HalfIs
  <1>8. mtimecmp' # Zero
    BY <1>4, <1>6, <1>7, ZeroIs
  <1>9. Val(fw.cmp) = fw.seen + Lead + Window => Val(fw.cmp) <= due.at + Lead + Window
    BY <1>6, <1>7
  <1>10. DueOK'
    BY <1>1, <1>4, <1>6, <1>8, <1>9 DEF DueOK
  <1> QED BY <1>1, <1>2, <1>5, <1>10
          DEF IInv, HeldOK, MtimeOK, TimeOK, OffsetOK, ArgOK, CmpOK, Calibrating
-----------------------------------------------------------------------------
(* The boot launcher.                                                      *)

LEMMA RebootInvariant ==
    ASSUME IInv, Reboot
    PROVE  IInv'
  <1>1. /\ fw' = Held /\ fw'.pc = "held" /\ due' = NoDue /\ ~due'.set /\ mcycle' = 0 /\ mtime' = 0
        /\ mtimecmp' = Zero /\ UNCHANGED <<offset, skew>>
    BY DEF Reboot, Held, NoDue
  <1>2. NoDue \in [set : BOOLEAN, request : 0 .. Top - 1, at : 0 .. MaxTime]
    BY HalfIs DEF NoDue
  <1>3. TypeOK'
    BY <1>1, <1>2, ZeroIs, HeldType, HalfIs DEF IInv, TypeOK, FwType
  <1> QED BY <1>1, <1>3 DEF IInv, HeldOK, MtimeOK, TimeOK, OffsetOK, ArgOK, CmpOK, DueOK, Calibrating

LEMMA ReleaseInvariant ==
    ASSUME IInv, Release
    PROVE  IInv'
  <1>1. /\ TypeOK /\ fw \in FwType /\ UNCHANGED <<mtime, mcycle, mtimecmp, due>>
        /\ mtime >= BootTime /\ mcycle = 0 /\ ~due.set
        /\ offset' = [valid |-> FALSE, value |-> Zero] /\ skew' = 0
    BY TypeIs DEF IInv, HeldOK, Release, Time
  <1>2. fw'.pc = "linux" /\ fw' \in FwType
    BY <1>1 DEF Release, FwType, Pc
  <1>3. TypeOK'
    BY <1>1, <1>2, ZeroIs, HalfIs DEF TypeOK, FwType
  <1>4. Lead' >= BootTime
    BY <1>1, TypeIs, HalfIs DEF Lead
  <1> QED BY <1>1, <1>2, <1>3, <1>4
          DEF IInv, HeldOK, MtimeOK, TimeOK, OffsetOK, ArgOK, CmpOK, DueOK, Calibrating
-----------------------------------------------------------------------------
(* The theorems.                                                           *)

LEMMA StepInvariant ==
    ASSUME NoWrap, IInv, [Next]_vars
    PROVE  IInv'
  <1>1. CASE Next
    BY <1>1, TickInvariant, SetTimerInvariant, MtimeHiInvariant, MtimeLoInvariant, MtimeCheckInvariant,
       TimeHiInvariant, TimeLoInvariant, TimeCheckInvariant, DeadlineInvariant, CmpOffInvariant,
       CmpLoInvariant, CmpHiInvariant, RebootInvariant, ReleaseInvariant DEF Next
  <1>2. CASE UNCHANGED vars
    BY <1>2 DEF vars, IInv, TypeOK, HeldOK, MtimeOK, TimeOK, OffsetOK, ArgOK, CmpOK, DueOK, Lead
  <1> QED BY <1>1, <1>2

(* The timer's invariant (program_timer of the firmware, mmio_timer.sv):   *)
(* no read is torn, the offset is the counters' distance but for the time  *)
(* the calibration took, and the compare value is the deadline.            *)
THEOREM Invariance == NoWrap => (Spec => []IInv)
  <1> SUFFICES ASSUME NoWrap PROVE Spec => []IInv
    OBVIOUS
  <1>1. IInv /\ [Next]_vars => IInv'
    BY StepInvariant
  <1> QED BY <1>1, InitInvariant, PTL DEF Spec

\* When the interrupt line is up.
LEMMA IrqIs ==
    ASSUME TypeOK
    PROVE  irq_timer <=> mtimecmp # Zero /\ Val(mtimecmp) <= mtime
  <1>1. Split(mtime) \in Dword /\ mtimecmp \in Dword /\ Val(Split(mtime)) = mtime
    BY TypeIs, ReadIs
  <1>2. Less(Split(mtime), mtimecmp) <=> mtime < Val(mtimecmp)
    BY <1>1, LessIs
  <1> QED BY <1>1, <1>2, TypeIs, DwordIs DEF irq_timer

(* The interrupt line is never up before the requested time by more than   *)
(* the offset was measured wrong, for halves, windows and requests of any  *)
(* size that do not wrap (program_timer).                                  *)
THEOREM InterruptNeverEarly == NoWrap => (Spec => []NeverEarly)
  <1> SUFFICES ASSUME NoWrap PROVE Spec => []NeverEarly
    OBVIOUS
  <1>1. IInv => NeverEarly
    <2> SUFFICES ASSUME IInv, due.set, irq_timer PROVE mcycle + skew >= due.request
      BY DEF NeverEarly, IInv
    <2>1. TypeOK /\ Val(mtimecmp) <= mtime /\ Val(mtimecmp) \in Nat
      BY IrqIs, TypeIs, DwordIs DEF IInv
    <2>2. CASE fw.pc \in {"cmp_lo", "cmp_hi"}
      <3>1. mtimecmp[1] = Half - 1 /\ mtimecmp \in Dword
        BY <2>1, <2>2, TypeIs DEF IInv, CmpOK
      <3>2. (Half - 1) * Half = Top - Half
        BY HalfIs
      <3>3. Val(mtimecmp) >= Top - Half
        BY <3>1, <3>2, DwordIs, HalfIs
      <3> QED BY <2>1, <3>3, TypeIs, HalfIs
    <2>3. CASE fw.pc \notin {"cmp_lo", "cmp_hi"}
      <3>1. Val(mtimecmp) + skew >= due.request + Lead
        BY <2>3 DEF IInv, DueOK
      <3> QED BY <2>1, <3>1, TypeIs
    <2> QED BY <2>2, <2>3
  <1> QED BY <1>1, Invariance, PTL

(* Nor is it late: once the requested time has come, and the window after  *)
(* the call has passed, it is up until the next call reprograms it.        *)
THEOREM InterruptNeverLate == NoWrap => (Spec => []NeverLate)
  <1> SUFFICES ASSUME NoWrap PROVE Spec => []NeverLate
    OBVIOUS
  <1>1. IInv => NeverLate
    <2> SUFFICES ASSUME IInv, due.set, fw.pc \notin {"cmp_lo", "cmp_hi"},
                        mcycle >= due.request, mcycle >= due.at + Window
                 PROVE  irq_timer
      BY DEF NeverLate
    <2>1. /\ TypeOK /\ mtimecmp # Zero
          /\ \/ Val(mtimecmp) + skew = due.request + Lead
             \/ Val(mtimecmp) <= due.at + Lead + Window
      BY DEF IInv, DueOK
    <2>2. mtimecmp \in Dword /\ Val(mtimecmp) \in Nat /\ Window \in Nat
      BY <2>1, TypeIs, DwordIs, HalfIs
    <2>3. Val(mtimecmp) <= mtime
      BY <2>1, <2>2, TypeIs
    <2> QED BY <2>1, <2>3, IrqIs
  <1> QED BY <1>1, Invariance, PTL
=============================================================================
