-------------------------- MODULE SbiConsole_proofs --------------------------
(***************************************************************************)
(* The console rings for rings, counters and streams of any size: the      *)
(* launcher mirrors every character once and in order, the firmware never  *)
(* runs more than a ring ahead, and no key reaches Linux twice.            *)
(***************************************************************************)
EXTENDS SbiConsole, Integers, TLAPS

(***************************************************************************)
(* The inductive invariant.                                                *)
(***************************************************************************)

\* A character that has been mirrored but not yet handed back to the firmware.
Unreturned == IF ps.pc = "mirror_head" THEN 1 ELSE 0

\* The counters tell how much is under way, and the ring holds just that: the
\* slot of each counter value between the launcher's and the firmware's has the
\* character that is due there.
OutOK ==
  /\ shown <= sent
  /\ Distance(out.total, ps.last) = sent - shown
  /\ Distance(out.total, out.head) = sent - shown + Unreturned
  /\ sent - shown + Unreturned <= OutBytes
OutBytesOK ==
  \A c \in Counter : Distance(c, ps.last) < sent - shown =>
    out.byte[c % OutBytes] = shown + 1 + Distance(c, ps.last)

\* What the firmware knows while it prints: only the launcher moves, and it
\* only makes room.
PutOK ==
  /\ fw.pc \in {"put_head", "put_byte", "put_publish"} => fw.t0 = out.total
  /\ fw.pc \in {"put_total", "put_head", "put_byte", "put_publish"} => sent < MaxOut
  /\ fw.pc \in {"put_byte", "put_publish"} => sent - shown + Unreturned < OutBytes
  /\ fw.pc = "put_publish" => out.byte[fw.t0 % OutBytes] = sent + 1

\* What the launcher knows while it mirrors: the total it has read is not ahead.
MirrorOK ==
  /\ ps.pc \in {"mirror_byte", "mirror_head"} =>
       Distance(ps.total, ps.last) <= sent - shown
  /\ ps.pc = "mirror_byte" => ps.total # ps.last

\* The scratch is cleared only while the CPU is held.
HeldOK == ps.pc \in {"clear", "release"} => fw.pc = "halted"

\* Keys that have left the UART.
Popped == typed - Len(rx)
RxOK == Len(rx) <= typed /\ \A i \in 1 .. Len(rx) : rx[i] = Popped + i

\* The input ring: a byte is there from when it is stored, before it is published.
Unpublished == IF ps.pc = "pump_publish" THEN 1 ELSE 0
Ring == {c \in Counter :
           Distance(c, in.head) < Distance(in.tail, in.head) + Unpublished}
KeyAt(c) == in.byte[c % InBytes]
MailFull == mail.valid \/ ps.pc = "pump_set"

InOK ==
  /\ Distance(in.tail, in.head) + Unpublished <= InBytes
  /\ fw.pc \in {"get_tail", "get_byte", "get_advance"} => fw.t0 = in.head
  /\ fw.pc \in {"get_byte", "get_advance"} => in.head # in.tail
  /\ fw.pc = "get_advance" => fw.a0 = KeyAt(in.head)
  /\ ps.pc \in {"pump_ring", "pump_publish"} => ps.tail = in.tail
  /\ ps.pc \in {"pump_tail", "pump_ring", "pump_publish"} =>
       /\ Distance(in.tail, in.head) <= Distance(in.tail, ps.head)
       /\ Distance(in.tail, ps.head) + Unpublished <= InBytes

\* The mailbox has one side at a time.
MailOK ==
  /\ ps.pc \in {"pump_char", "pump_set"} => ~mail.valid
  /\ fw.pc \in {"get_char", "get_clear"} => mail.valid
  /\ fw.pc = "get_clear" => fw.a0 = mail.char

\* Every key is in one place: the UART, a slot of the ring, the mailbox, or given
\* to Linux.
RingKeys ==
  \A c \in Ring : KeyAt(c) \in 1 .. Popped /\ \A d \in Ring : c # d => KeyAt(c) # KeyAt(d)
MailKeys ==
  MailFull => mail.char \in 1 .. Popped /\ \A c \in Ring : KeyAt(c) # mail.char
GivenKeys ==
  \A i \in 1 .. Len(given) :
    /\ given[i] \in 1 .. Popped
    /\ \A c \in Ring : KeyAt(c) # given[i]
    /\ MailFull => mail.char # given[i]
    /\ \A j \in 1 .. Len(given) : i # j => given[i] # given[j]

Output == OutOK /\ OutBytesOK /\ PutOK /\ MirrorOK
Input == RxOK /\ InOK /\ MailOK /\ RingKeys /\ MailKeys /\ GivenKeys
IInv == TypeOK /\ HeldOK /\ Output /\ Input
-----------------------------------------------------------------------------
(* Counters.                                                               *)

LEMMA SuccIs ==
    ASSUME NEW c \in Counter
    PROVE  /\ Succ(c) = IF c = Wrap - 1 THEN 0 ELSE c + 1
           /\ Succ(c) \in Counter
  BY ConsoleAssumption DEF Succ, Counter

LEMMA DistanceIs ==
    ASSUME NEW a \in Counter, NEW b \in Counter
    PROVE  /\ Distance(a, b) = IF a >= b THEN a - b ELSE a + Wrap - b
           /\ Distance(a, b) \in Counter /\ Distance(a, b) \in Nat /\ Distance(a, b) < Wrap
           /\ a \in Nat /\ a < Wrap /\ b \in Nat /\ b < Wrap /\ Wrap \in Nat
  <1> USE ConsoleAssumption
  <1>1. CASE a >= b
    <2>1. a + Wrap - b = (a - b) + Wrap /\ a - b \in 0 .. Wrap - 1 /\ Wrap \in Nat \ {0}
      BY <1>1, ConsoleAssumption DEF Counter
    <2>2. ((a - b) + Wrap) % Wrap = a - b
      BY <2>1
    <2> QED BY <1>1, <2>1, <2>2 DEF Distance, Counter
  <1>2. CASE a < b
    BY <1>2, ConsoleAssumption DEF Distance, Counter
  <1> QED BY <1>1, <1>2, ConsoleAssumption DEF Counter

\* Two counters less than a ring apart use different slots.
LEMMA SlotsApart ==
    ASSUME NEW n \in Nat \ {0}, Wrap % n = 0, NEW a \in Counter, NEW b \in Counter,
           a # b, Distance(a, b) < n
    PROVE  a % n # b % n
  <1>1. PICK m \in Nat : Wrap = m * n
    BY ConsoleAssumption
  <1>2. a \in Nat /\ b \in Nat /\ n > 0
    BY ConsoleAssumption DEF Counter
  <1>p. PICK p \in Nat, r \in Nat : p = a \div n /\ r = a % n /\ r < n /\ a = p * n + r
    BY <1>2
  <1>q. PICK q \in Nat, s \in Nat : q = b \div n /\ s = b % n /\ s < n /\ b = q * n + s
    BY <1>2
  <1> SUFFICES ASSUME r = s PROVE FALSE
    BY <1>p, <1>q
  <1>3. a - b = (p - q) * n
    BY <1>2, <1>p, <1>q
  <1>4. ASSUME NEW k \in Int, 0 < k * n, k * n < n PROVE FALSE
    BY <1>4
  <1>5. CASE a >= b
    <2>1. 0 < a - b /\ a - b < n
      BY <1>5, DistanceIs, ConsoleAssumption DEF Counter
    <2>2. p - q \in Int
      OBVIOUS
    <2> QED BY <1>3, <1>4, <2>1, <2>2
  <1>6. CASE a < b
    <2>1. a + Wrap - b = (p - q + m) * n
      BY <1>1, <1>3, <1>6, ConsoleAssumption DEF Counter
    <2>2. 0 < a + Wrap - b /\ a + Wrap - b < n
      BY <1>6, DistanceIs, ConsoleAssumption DEF Counter
    <2>3. p - q + m \in Int
      OBVIOUS
    <2> QED BY <1>4, <2>1, <2>2, <2>3
  <1> QED BY <1>5, <1>6 DEF Counter

LEMMA SlotIn ==
    ASSUME NEW n \in Nat \ {0}, NEW c \in Counter
    PROVE  c % n \in 0 .. n - 1
  BY DEF Counter
-----------------------------------------------------------------------------
(* Types.                                                                  *)

LEMMA InitType == Init => TypeOK /\ HeldOK
  <1> SUFFICES ASSUME Init PROVE TypeOK /\ HeldOK
    OBVIOUS
  <1>1. 0 \in Counter /\ 0 \in Chars /\ 0 \in Keys /\ 0 \in 0 .. MaxBoots
    BY ConsoleAssumption DEF Counter, Chars, Keys
  <1>2. out \in [byte : [0 .. OutBytes - 1 -> Chars], total : Counter, head : Counter]
    BY <1>1 DEF Init, ClearedOut
  <1>3. in \in [byte : [0 .. InBytes - 1 -> Keys], head : Counter, tail : Counter]
    BY <1>1 DEF Init, ClearedIn
  <1>4. mail \in [char : Keys, valid : BOOLEAN] /\ magic \in BOOLEAN
    BY <1>1 DEF Init, NoMail
  <1>5. fw \in [pc : FwPc, t0 : Counter, a0 : Keys]
    BY <1>1 DEF Init, FwPc
  <1>6. ps \in [pc : PsPc, loop : BOOLEAN, head : Counter, tail : Counter,
                total : Counter, last : Counter]
    BY <1>1 DEF Init, PsPc
  <1>7. rx \in Seq(Keys) /\ given \in Seq(Keys)
    BY DEF Init
  <1>8. HeldOK
    BY DEF Init, HeldOK
  <1> QED BY <1>1, <1>2, <1>3, <1>4, <1>5, <1>6, <1>7, <1>8 DEF Init, TypeOK

LEMMA FwType ==
    ASSUME TypeOK, HeldOK, PutOK, FwNext
    PROVE  TypeOK' /\ HeldOK'
  <1> USE DEF TypeOK, HeldOK, FwOnly, FwGoto, FwPc
  <1>1. CASE SbiPutchar BY <1>1 DEF SbiPutchar
  <1>2. CASE SbiGetchar BY <1>2 DEF SbiGetchar
  <1>3. CASE SbiSystemReset BY <1>3 DEF SbiSystemReset
  <1>4. CASE PutTotal BY <1>4 DEF PutTotal
  <1>5. CASE PutHead BY <1>5 DEF PutHead
  <1>6. CASE PutByte
    <2>1. sent + 1 \in Chars
      BY <1>6, ConsoleAssumption DEF PutByte, PutOK, Chars
    <2> QED BY <1>6, <2>1 DEF PutByte
  <1>7. CASE PutPublish
    <2>1. sent + 1 \in Chars /\ Succ(fw.t0) \in Counter
      BY <1>7, SuccIs, ConsoleAssumption DEF PutPublish, PutOK, Chars
    <2> QED BY <1>7, <2>1 DEF PutPublish
  <1>8. CASE GetHead BY <1>8 DEF GetHead
  <1>9. CASE GetTail BY <1>9 DEF GetTail
  <1>10. CASE GetByte
    <2>1. in.byte[fw.t0 % InBytes] \in Keys
      BY SlotIn, ConsoleAssumption
    <2> QED BY <1>10, <2>1 DEF GetByte
  <1>11. CASE GetAdvance
    <2>1. Succ(fw.t0) \in Counter
      BY SuccIs
    <2>2. given' \in Seq(Keys)
      BY <1>11 DEF GetAdvance
    <2>3. in' \in [byte : [0 .. InBytes - 1 -> Keys], head : Counter, tail : Counter]
      BY <1>11, <2>1 DEF GetAdvance
    <2> QED BY <1>11, <2>2, <2>3 DEF GetAdvance
  <1>12. CASE GetValid BY <1>12 DEF GetValid
  <1>13. CASE GetChar BY <1>13 DEF GetChar
  <1>14. CASE GetClear
    <2>1. given' \in Seq(Keys)
      BY <1>14 DEF GetClear
    <2> QED BY <1>14, <2>1 DEF GetClear
  <1> QED BY <1>1, <1>2, <1>3, <1>4, <1>5, <1>6, <1>7, <1>8, <1>9, <1>10, <1>11, <1>12,
             <1>13, <1>14 DEF FwNext

LEMMA PsType ==
    ASSUME TypeOK, HeldOK, PsNext
    PROVE  TypeOK' /\ HeldOK'
  <1> USE DEF TypeOK, HeldOK, PsOnly, PsPc
  <1>1. CASE PumpHead BY <1>1 DEF PumpHead
  <1>2. CASE PumpTail BY <1>2 DEF PumpTail
  <1>3. CASE PumpByte
    <2>1. Head(rx) \in Keys /\ Tail(rx) \in Seq(Keys)
      BY <1>3 DEF PumpByte, PumpRoom
    <2> QED BY <1>3, <2>1 DEF PumpByte
  <1>4. CASE PumpPublish
    <2>1. Succ(ps.tail) \in Counter
      BY SuccIs
    <2> QED BY <1>4, <2>1 DEF PumpPublish
  <1>5. CASE PumpRingDone BY <1>5 DEF PumpRingDone
  <1>6. CASE PumpValid BY <1>6 DEF PumpValid, AfterPump
  <1>7. CASE PumpChar
    <2>1. Head(rx) \in Keys /\ Tail(rx) \in Seq(Keys)
      BY <1>7 DEF PumpChar
    <2> QED BY <1>7, <2>1 DEF PumpChar
  <1>8. CASE PumpNothing BY <1>8 DEF PumpNothing, AfterPump
  <1>9. CASE PumpSet BY <1>9 DEF PumpSet, AfterPump
  <1>10. CASE MirrorTotal
    <2>1. OutBytes \in Counter
      BY ConsoleAssumption DEF Counter
    <2>2. Distance(out.total, OutBytes) \in Counter
      BY <2>1, DistanceIs
    <2> QED BY <1>10, <2>2 DEF MirrorTotal
  <1>11. CASE MirrorByte
    <2>1. out.byte[ps.last % OutBytes] \in Chars /\ Succ(ps.last) \in Counter
      BY SlotIn, SuccIs, ConsoleAssumption
    <2> QED BY <1>11, <2>1 DEF MirrorByte
  <1>12. CASE MirrorHead BY <1>12 DEF MirrorHead
  <1>13. CASE CheckReset
    <2>1. PICK l \in BOOLEAN : ps' = [ps EXCEPT !.pc = "pump_head", !.loop = l]
      BY <1>13 DEF CheckReset
    <2> QED BY <1>13, <2>1 DEF CheckReset
  <1>14. CASE Reboot BY <1>14 DEF Reboot, FwPc
  <1>15. CASE Hold BY <1>15 DEF Hold, FwPc
  <1>16. CASE Clear
    <2>1. 0 \in Counter /\ 0 \in Chars /\ 0 \in Keys
      BY ConsoleAssumption DEF Counter, Chars, Keys
    <2>2. ClearedOut \in [byte : [0 .. OutBytes - 1 -> Chars], total : Counter, head : Counter]
      BY <2>1 DEF ClearedOut
    <2>3. ClearedIn \in [byte : [0 .. InBytes - 1 -> Keys], head : Counter, tail : Counter]
      BY <2>1 DEF ClearedIn
    <2>4. NoMail \in [char : Keys, valid : BOOLEAN]
      BY <2>1 DEF NoMail
    <2> QED BY <1>16, <2>1, <2>2, <2>3, <2>4 DEF Clear
  <1>17. CASE Release
    <2>1. boots + 1 \in 0 .. MaxBoots
      BY <1>17, ConsoleAssumption DEF Release
    <2> QED BY <1>17, <2>1 DEF Release, FwPc
  <1> QED BY <1>1, <1>2, <1>3, <1>4, <1>5, <1>6, <1>7, <1>8, <1>9, <1>10, <1>11, <1>12,
             <1>13, <1>14, <1>15, <1>16, <1>17 DEF PsNext

LEMMA TypeType ==
    ASSUME TypeOK, HeldOK, Type
    PROVE  TypeOK' /\ HeldOK'
  <1>1. typed + 1 \in Keys
    BY ConsoleAssumption DEF Type, TypeOK, Keys
  <1> QED BY <1>1 DEF Type, TypeOK, HeldOK
-----------------------------------------------------------------------------
(* The output ring.                                                        *)

LEMMA DistanceZero ==
    ASSUME NEW a \in Counter, NEW b \in Counter
    PROVE  Distance(a, b) = 0 <=> a = b
  BY DistanceIs

LEMMA DistanceSame ==
    ASSUME NEW a \in Counter, NEW b \in Counter, NEW c \in Counter,
           Distance(a, c) = Distance(b, c)
    PROVE  a = b
  <1>1. Distance(a, c) = IF a >= c THEN a - c ELSE a + Wrap - c
    BY DistanceIs
  <1>2. Distance(b, c) = IF b >= c THEN b - c ELSE b + Wrap - c
    BY DistanceIs
  <1>3. a \in Nat /\ a < Wrap /\ b \in Nat /\ b < Wrap /\ c \in Nat /\ c < Wrap /\ Wrap \in Nat
    BY DistanceIs
  <1>4. (IF a >= c THEN a - c ELSE a + Wrap - c) = (IF b >= c THEN b - c ELSE b + Wrap - c)
    BY <1>1, <1>2, Zenon
  <1>5. CASE a >= c /\ b >= c
    BY <1>3, <1>4, <1>5
  <1>6. CASE a < c /\ b < c
    BY <1>3, <1>4, <1>6
  <1>7. CASE a >= c /\ b < c
    BY <1>3, <1>4, <1>7
  <1>8. CASE a < c /\ b >= c
    BY <1>3, <1>4, <1>8
  <1> QED BY <1>3, <1>5, <1>6, <1>7, <1>8

\* The producer moves on.
LEMMA DistanceUp ==
    ASSUME NEW a \in Counter, NEW b \in Counter, Distance(a, b) < Wrap - 1
    PROVE  Distance(Succ(a), b) = Distance(a, b) + 1
  <1>1. Succ(a) \in Counter /\ Succ(a) = IF a = Wrap - 1 THEN 0 ELSE a + 1
    BY SuccIs
  <1>2. /\ Distance(a, b) = IF a >= b THEN a - b ELSE a + Wrap - b
        /\ a \in Nat /\ a < Wrap /\ b \in Nat /\ b < Wrap /\ Wrap \in Nat
    BY DistanceIs
  <1>3. Distance(Succ(a), b) = IF Succ(a) >= b THEN Succ(a) - b ELSE Succ(a) + Wrap - b
    BY <1>1, DistanceIs
  <1> QED BY <1>1, <1>2, <1>3

\* The consumer follows.
LEMMA DistanceDown ==
    ASSUME NEW a \in Counter, NEW b \in Counter, a # b
    PROVE  Distance(a, Succ(b)) = Distance(a, b) - 1
  <1>1. Succ(b) \in Counter /\ Succ(b) = IF b = Wrap - 1 THEN 0 ELSE b + 1
    BY SuccIs
  <1>2. /\ Distance(a, b) = IF a >= b THEN a - b ELSE a + Wrap - b
        /\ a \in Nat /\ a < Wrap /\ b \in Nat /\ b < Wrap /\ Wrap \in Nat
    BY DistanceIs
  <1>3. Distance(a, Succ(b)) = IF a >= Succ(b) THEN a - Succ(b) ELSE a + Wrap - Succ(b)
    BY <1>1, DistanceIs
  <1> QED BY <1>1, <1>2, <1>3

\* Two slots in use are different ones.
LEMMA UsedApart ==
    ASSUME NEW n \in Nat \ {0}, Wrap % n = 0,
           NEW a \in Counter, NEW b \in Counter, NEW c \in Counter, a # b,
           Distance(a, c) < n, Distance(b, c) < n
    PROVE  a % n # b % n
  <1>1. Distance(a, c) = (IF a >= c THEN a - c ELSE a + Wrap - c) /\ a \in Nat /\ a < Wrap
    BY DistanceIs
  <1>2. Distance(b, c) = (IF b >= c THEN b - c ELSE b + Wrap - c) /\ b \in Nat /\ b < Wrap
    BY DistanceIs
  <1>3. /\ Distance(a, b) = (IF a >= b THEN a - b ELSE a + Wrap - b)
        /\ Distance(b, a) = (IF b >= a THEN b - a ELSE b + Wrap - a)
        /\ c \in Nat /\ c < Wrap /\ Wrap \in Nat
    BY DistanceIs
  <1>4. Distance(a, b) < n \/ Distance(b, a) < n
    BY <1>1, <1>2, <1>3
  <1> QED BY <1>4, SlotsApart

LEMMA OutTypes ==
    ASSUME TypeOK
    PROVE  /\ out.total \in Counter /\ out.head \in Counter /\ ps.last \in Counter
           /\ ps.total \in Counter /\ fw.t0 \in Counter
           /\ sent \in Nat /\ shown \in Nat /\ Unreturned \in {0, 1}
           /\ out.byte \in [0 .. OutBytes - 1 -> Chars]
  BY ConsoleAssumption DEF TypeOK, Chars, Unreturned

LEMMA InitOutput == Init => Output
  <1> SUFFICES ASSUME Init PROVE Output
    OBVIOUS
  <1>1. 0 \in Counter
    BY ConsoleAssumption DEF Counter
  <1>2. Distance(0, 0) = 0
    BY <1>1, DistanceZero
  <1>3. OutOK
    BY <1>2, ConsoleAssumption DEF Init, OutOK, ClearedOut, Unreturned
  <1>4. OutBytesOK
    BY <1>1, DistanceIs DEF Init, OutBytesOK, Counter
  <1> QED BY <1>3, <1>4 DEF Init, Output, PutOK, MirrorOK

\* Steps that neither print nor mirror.
LEMMA OutFrame ==
    ASSUME Output, UNCHANGED <<out, sent, shown>>, ps'.last = ps.last, Unreturned' = Unreturned
    PROVE  OutOK' /\ OutBytesOK'
  BY DEF Output, OutOK, OutBytesOK

LEMMA PutByteOutput ==
    ASSUME TypeOK, Output, PutByte
    PROVE  Output'
  <1> DEFINE slot == fw.t0 % OutBytes
  <1>1. /\ fw.pc = "put_byte" /\ fw'.pc = "put_publish" /\ fw'.t0 = fw.t0 /\ fw.t0 = out.total
        /\ UNCHANGED <<ps, sent, shown>>
    BY DEF PutByte, FwGoto, FwOnly, TypeOK, Output, PutOK
  <1>2. slot \in 0 .. OutBytes - 1 /\ OutBytes \in Nat \ {0} /\ Wrap % OutBytes = 0
    BY OutTypes, SlotIn, ConsoleAssumption
  <1>3. /\ out'.total = out.total /\ out'.head = out.head
        /\ out'.byte = [out.byte EXCEPT ![slot] = sent + 1]
    BY DEF PutByte, TypeOK
  <1>4. sent - shown + Unreturned < OutBytes /\ sent < MaxOut
    BY <1>1 DEF Output, PutOK
  <1>5. OutOK'
    BY <1>1, <1>3 DEF Output, OutOK, Unreturned
  <1>6. OutBytesOK'
    <2> SUFFICES ASSUME NEW c \in Counter, Distance(c, ps.last) < sent - shown
                 PROVE  out'.byte[c % OutBytes] = shown + 1 + Distance(c, ps.last)
      BY <1>1 DEF OutBytesOK
    <2>1. Distance(out.total, ps.last) = sent - shown /\ Distance(out.total, ps.last) < OutBytes
      BY <1>4, OutTypes, ConsoleAssumption DEF Output, OutOK
    <2>2. Distance(c, ps.last) < OutBytes /\ c # out.total
      <3>1. Distance(c, ps.last) \in Nat /\ sent - shown \in Int
        BY OutTypes, DistanceIs
      <3> QED BY <2>1, <3>1, ConsoleAssumption
    <2>3. c % OutBytes # slot /\ c % OutBytes \in 0 .. OutBytes - 1
      BY <1>1, <1>2, <2>1, <2>2, OutTypes, UsedApart, SlotIn
    <2>4. out'.byte[c % OutBytes] = out.byte[c % OutBytes]
      BY <1>2, <1>3, <2>3, OutTypes
    <2> QED BY <2>4 DEF Output, OutBytesOK
  <1>7. PutOK'
    <2>1. out'.byte[slot] = sent + 1
      BY <1>2, <1>3, OutTypes
    <2> QED BY <1>1, <1>3, <1>4, <2>1 DEF PutOK, Unreturned
  <1>8. MirrorOK'
    BY <1>1 DEF Output, MirrorOK
  <1> QED BY <1>5, <1>6, <1>7, <1>8 DEF Output

LEMMA PutPublishOutput ==
    ASSUME TypeOK, Output, PutPublish
    PROVE  Output'
  <1>1. /\ fw.pc = "put_publish" /\ fw'.pc = "linux" /\ fw.t0 = out.total
        /\ UNCHANGED <<ps, shown>> /\ sent' = sent + 1
    BY DEF PutPublish, FwGoto, FwOnly, TypeOK, Output, PutOK
  <1>2. out'.total = Succ(out.total) /\ out'.head = out.head /\ out'.byte = out.byte
    BY <1>1 DEF PutPublish, TypeOK
  <1>3. /\ sent - shown + Unreturned < OutBytes /\ out.byte[out.total % OutBytes] = sent + 1
        /\ shown <= sent
    BY <1>1 DEF Output, PutOK, OutOK
  <1>4. /\ Distance(out.total, ps.last) = sent - shown
        /\ Distance(out.total, out.head) = sent - shown + Unreturned
    BY DEF Output, OutOK
  <1>5. /\ Distance(out'.total, ps.last) = sent - shown + 1
        /\ Distance(out'.total, out.head) = sent - shown + Unreturned + 1
    BY <1>2, <1>3, <1>4, OutTypes, DistanceUp, ConsoleAssumption
  <1>6. OutOK'
    BY <1>1, <1>2, <1>3, <1>5, OutTypes, ConsoleAssumption DEF OutOK, Unreturned
  <1>7. OutBytesOK'
    <2> SUFFICES ASSUME NEW c \in Counter, Distance(c, ps.last) < sent' - shown
                 PROVE  out.byte[c % OutBytes] = shown + 1 + Distance(c, ps.last)
      BY <1>1, <1>2 DEF OutBytesOK
    <2> USE <1>1
    <2>1. CASE Distance(c, ps.last) < sent - shown
      BY <2>1 DEF Output, OutBytesOK
    <2>2. CASE ~(Distance(c, ps.last) < sent - shown)
      <3>1. Distance(c, ps.last) = sent - shown
        <4>1. Distance(c, ps.last) \in Nat
          BY OutTypes, DistanceIs
        <4> QED BY <2>2, <4>1, OutTypes
      <3>2. c = out.total
        BY <1>4, <3>1, OutTypes, DistanceSame
      <3> QED BY <1>3, <3>1, <3>2, OutTypes
    <2> QED BY <2>1, <2>2
  <1>8. PutOK'
    BY <1>1 DEF PutOK
  <1>9. MirrorOK'
    <2>1. Distance(ps.total, ps.last) \in Nat
      BY OutTypes, DistanceIs
    <2> QED BY <1>1, <2>1, OutTypes DEF Output, MirrorOK
  <1> QED BY <1>6, <1>7, <1>8, <1>9 DEF Output

LEMMA FwOutput ==
    ASSUME TypeOK, Output, FwNext
    PROVE  Output'
  <1>1. ASSUME UNCHANGED <<out, ps, sent, shown>>, PutOK'
        PROVE  Output'
    BY <1>1, OutFrame DEF Output, MirrorOK, Unreturned
  <1> USE DEF FwGoto, FwOnly, TypeOK
  <1>2. CASE SbiPutchar \/ SbiGetchar \/ SbiSystemReset
    <2>1. UNCHANGED <<out, ps, sent, shown>> /\ fw'.pc \in {"put_total", "get_head", "halted"}
          /\ (fw'.pc = "put_total" => sent < MaxOut)
      BY <1>2 DEF SbiPutchar, SbiGetchar, SbiSystemReset
    <2> QED BY <1>1, <2>1 DEF PutOK
  <1>3. CASE PutTotal
    <2>1. UNCHANGED <<out, ps, sent, shown>> /\ PutOK'
      BY <1>3 DEF PutTotal, Output, PutOK
    <2> QED BY <1>1, <2>1
  <1>4. CASE PutHead
    <2>1. /\ UNCHANGED <<out, ps, sent, shown>> /\ fw'.t0 = fw.t0 /\ fw.pc = "put_head"
          /\ fw'.pc = IF Distance(fw.t0, out.head) < OutBytes THEN "put_byte" ELSE "put_total"
      BY <1>4 DEF PutHead
    <2>2. PutOK'
      BY <2>1 DEF Output, PutOK, OutOK, Unreturned
    <2> QED BY <1>1, <2>1, <2>2
  <1>5. CASE GetHead \/ GetTail \/ GetByte \/ GetAdvance \/ GetValid \/ GetChar \/ GetClear
    <2>1. UNCHANGED <<out, ps, sent, shown>>
      BY <1>5 DEF GetHead, GetTail, GetByte, GetAdvance, GetValid, GetChar, GetClear
    <2>2. fw'.pc \in {"get_tail", "get_byte", "get_valid", "get_advance", "get_char",
                      "get_clear", "linux"}
      BY <1>5 DEF GetHead, GetTail, GetByte, GetAdvance, GetValid, GetChar, GetClear
    <2>3. PutOK'
      BY <2>2 DEF PutOK
    <2> QED BY <1>1, <2>1, <2>3
  <1> QED BY <1>2, <1>3, <1>4, <1>5, PutByteOutput, PutPublishOutput DEF FwNext

\* Steps of the launcher outside the mirror.
PumpStep ==
  \/ PumpHead \/ PumpTail \/ PumpByte \/ PumpPublish \/ PumpRingDone
  \/ PumpValid \/ PumpChar \/ PumpNothing \/ PumpSet

LEMMA PumpFrame ==
    ASSUME TypeOK, PumpStep \/ CheckReset \/ Hold \/ Reboot \/ Release
    PROVE  /\ UNCHANGED <<out, sent, shown>> /\ ps'.last = ps.last
           /\ ps.pc \notin {"mirror_byte", "mirror_head"}
           /\ ps'.pc \notin {"mirror_byte", "mirror_head"}
           /\ fw' = fw \/ fw'.pc \in {"linux", "halted"}
  <1> USE DEF TypeOK, PsOnly
  <1>1. CASE PumpStep
    <2>1. UNCHANGED <<out, sent, shown, fw>>
      BY <1>1 DEF PumpStep, PumpHead, PumpTail, PumpByte, PumpPublish, PumpRingDone, PumpValid,
                  PumpChar, PumpNothing, PumpSet
    <2>2. /\ ps'.last = ps.last
          /\ ps.pc \notin {"mirror_byte", "mirror_head"}
          /\ ps'.pc \notin {"mirror_byte", "mirror_head"}
      BY <1>1 DEF PumpStep, PumpHead, PumpTail, PumpByte, PumpPublish, PumpRingDone, PumpValid,
                  PumpChar, PumpNothing, PumpSet, AfterPump
    <2> QED BY <2>1, <2>2
  <1>2. CASE CheckReset
    <2>1. PICK l \in BOOLEAN : ps' = [ps EXCEPT !.pc = "pump_head", !.loop = l]
      BY <1>2 DEF CheckReset
    <2> QED BY <1>2, <2>1 DEF CheckReset
  <1>3. CASE Hold BY <1>3 DEF Hold
  <1>4. CASE Reboot BY <1>4 DEF Reboot
  <1>5. CASE Release BY <1>5 DEF Release
  <1> QED BY <1>1, <1>2, <1>3, <1>4, <1>5

LEMMA MirrorTotalOutput ==
    ASSUME TypeOK, Output, MirrorTotal
    PROVE  Output'
  <1>1. Distance(out.total, ps.last) = sent - shown /\ sent - shown <= OutBytes
    BY OutTypes, ConsoleAssumption DEF Output, OutOK, Unreturned, MirrorTotal
  <1>2. ~(Distance(out.total, ps.last) > OutBytes)
    BY <1>1, OutTypes, ConsoleAssumption
  <1>3. /\ UNCHANGED <<out, sent, shown, fw>> /\ ps'.last = ps.last /\ ps'.total = out.total
        /\ ps.pc = "mirror_total"
        /\ ps'.pc = IF out.total = ps.last THEN "check_reset" ELSE "mirror_byte"
    BY <1>2 DEF MirrorTotal, PsOnly, TypeOK
  <1>4. OutOK' /\ OutBytesOK'
    BY <1>3, OutFrame DEF Unreturned
  <1>5. PutOK'
    BY <1>3 DEF Output, PutOK, Unreturned
  <1>6. MirrorOK'
    BY <1>1, <1>3, OutTypes DEF MirrorOK
  <1> QED BY <1>4, <1>5, <1>6 DEF Output

\* The character that is mirrored is the next one.
LEMMA MirrorsNext ==
    ASSUME TypeOK, Output, MirrorByte
    PROVE  /\ shown' = shown + 1 /\ shown < sent /\ ps.last # out.total
           /\ ps'.last = Succ(ps.last)
  <1>1. ps.pc = "mirror_byte" /\ ps'.last = Succ(ps.last)
    BY DEF MirrorByte, TypeOK
  <1>2. ps.total # ps.last /\ Distance(ps.total, ps.last) <= sent - shown
    BY <1>1 DEF Output, MirrorOK
  <1>3. Distance(ps.total, ps.last) \in Nat /\ Distance(ps.total, ps.last) # 0
    BY <1>2, OutTypes, DistanceIs, DistanceZero
  <1>4. shown < sent /\ Distance(ps.last, ps.last) = 0
    BY <1>2, <1>3, OutTypes, DistanceZero
  <1>5. ps.last # out.total
    BY <1>4, OutTypes DEF Output, OutOK
  <1>6. out.byte[ps.last % OutBytes] = shown + 1
    <2>1. Distance(ps.last, ps.last) < sent - shown
      BY <1>4, OutTypes
    <2>2. out.byte[ps.last % OutBytes] = shown + 1 + Distance(ps.last, ps.last)
      BY <2>1, OutTypes DEF Output, OutBytesOK
    <2> QED BY <1>4, <2>2, OutTypes
  <1> QED BY <1>1, <1>4, <1>5, <1>6 DEF MirrorByte

LEMMA MirrorByteOutput ==
    ASSUME TypeOK, Output, MirrorByte
    PROVE  Output'
  <1>1. shown' = shown + 1 /\ shown < sent /\ ps.last # out.total /\ ps'.last = Succ(ps.last)
    BY MirrorsNext
  <1>2. /\ UNCHANGED <<out, fw, sent>> /\ ps.pc = "mirror_byte" /\ ps'.pc = "mirror_head"
        /\ ps'.total = ps.total
    BY DEF MirrorByte, PsOnly, TypeOK
  <1>3. Unreturned = 0 /\ Unreturned' = 1
    BY <1>2 DEF Unreturned
  <1>4. /\ Distance(out.total, ps.last) = sent - shown
        /\ Distance(out.total, out.head) = sent - shown /\ sent - shown <= OutBytes
    BY <1>3, OutTypes DEF Output, OutOK
  <1>5. Distance(out.total, ps'.last) = sent - shown'
    BY <1>1, <1>4, OutTypes, DistanceDown
  <1>6. OutOK'
    BY <1>1, <1>2, <1>3, <1>4, <1>5, OutTypes DEF OutOK
  <1>7. OutBytesOK'
    <2> SUFFICES ASSUME NEW c \in Counter, Distance(c, ps'.last) < sent - shown'
                 PROVE  out.byte[c % OutBytes] = shown' + 1 + Distance(c, ps'.last)
      BY <1>2 DEF OutBytesOK
    <2>1. Succ(ps.last) \in Counter
      BY OutTypes, SuccIs
    <2>2. c # ps.last
      <3>1. CASE c = ps.last
        \* A full turn of the counters away.
        <4>1. Distance(ps.last, Succ(ps.last)) = Wrap - 1
          <5>1. /\ Succ(ps.last) = IF ps.last = Wrap - 1 THEN 0 ELSE ps.last + 1
                /\ Succ(ps.last) \in Counter /\ ps.last \in Counter
            BY OutTypes, SuccIs
          <5>2. /\ Distance(ps.last, Succ(ps.last)) =
                     IF ps.last >= Succ(ps.last) THEN ps.last - Succ(ps.last)
                     ELSE ps.last + Wrap - Succ(ps.last)
                /\ ps.last \in Nat /\ ps.last < Wrap
            BY <5>1, DistanceIs
          <5> QED BY <5>1, <5>2, ConsoleAssumption
        <4>2. sent - shown <= OutBytes /\ OutBytes < Wrap
          BY <1>4, ConsoleAssumption
        <4> QED BY <1>1, <3>1, <4>1, <4>2, OutTypes, ConsoleAssumption
      <3> QED BY <3>1
    <2>3. Distance(c, ps'.last) = Distance(c, ps.last) - 1
      BY <1>1, <2>2, OutTypes, DistanceDown
    <2>4. Distance(c, ps.last) \in Nat
      BY OutTypes, DistanceIs
    <2>5. Distance(c, ps.last) < sent - shown
      BY <1>1, <2>3, <2>4, OutTypes
    <2>6. out.byte[c % OutBytes] = shown + 1 + Distance(c, ps.last)
      BY <2>5 DEF Output, OutBytesOK
    <2> QED BY <1>1, <2>3, <2>4, <2>6, OutTypes
  <1>8. PutOK'
    BY <1>1, <1>2, <1>3, OutTypes DEF Output, PutOK
  <1>9. MirrorOK'
    <2>1. ps.total # ps.last /\ Distance(ps.total, ps.last) <= sent - shown
      BY <1>2 DEF Output, MirrorOK
    <2>2. Distance(ps.total, ps'.last) = Distance(ps.total, ps.last) - 1
      BY <1>1, <2>1, OutTypes, DistanceDown
    <2>3. Distance(ps.total, ps.last) \in Nat
      BY OutTypes, DistanceIs
    <2> QED BY <1>1, <1>2, <2>1, <2>2, <2>3, OutTypes DEF MirrorOK
  <1> QED BY <1>6, <1>7, <1>8, <1>9 DEF Output

LEMMA MirrorHeadOutput ==
    ASSUME TypeOK, Output, MirrorHead
    PROVE  Output'
  <1>1. /\ UNCHANGED <<fw, sent, shown>> /\ ps.pc = "mirror_head"
        /\ ps'.last = ps.last /\ ps'.total = ps.total
        /\ ps'.pc = IF ps.last = ps.total THEN "check_reset" ELSE "mirror_byte"
        /\ out'.total = out.total /\ out'.head = ps.last /\ out'.byte = out.byte
    BY DEF MirrorHead, PsOnly, TypeOK
  <1>2. Unreturned = 1 /\ Unreturned' = 0
    BY <1>1 DEF Unreturned
  <1>3. OutOK'
    BY <1>1, <1>2, OutTypes, ConsoleAssumption DEF Output, OutOK
  <1>4. OutBytesOK'
    BY <1>1 DEF Output, OutBytesOK
  <1>5. PutOK'
    BY <1>1, <1>2, OutTypes, ConsoleAssumption DEF Output, PutOK
  <1>6. MirrorOK'
    BY <1>1 DEF Output, MirrorOK
  <1> QED BY <1>3, <1>4, <1>5, <1>6 DEF Output

LEMMA ClearOutput ==
    ASSUME TypeOK, HeldOK, Output, Clear
    PROVE  Output'
  <1>1. /\ fw'.pc = "halted" /\ ps'.pc = "release" /\ ps'.last = 0
        /\ out'.total = 0 /\ out'.head = 0 /\ sent' = sent /\ shown' = sent
    BY DEF Clear, HeldOK, PsOnly, TypeOK, ClearedOut
  <1>2. 0 \in Counter
    BY ConsoleAssumption DEF Counter
  <1>3. Distance(0, 0) = 0
    BY <1>2, DistanceZero
  <1>4. OutOK'
    BY <1>1, <1>3, OutTypes, ConsoleAssumption DEF OutOK, Unreturned
  <1>5. OutBytesOK'
    <2>1. ASSUME NEW c \in Counter PROVE ~(Distance(c, 0) < sent - sent)
      BY <1>2, OutTypes, DistanceIs
    <2> QED BY <1>1, <2>1 DEF OutBytesOK
  <1> QED BY <1>1, <1>4, <1>5 DEF Output, PutOK, MirrorOK

LEMMA PsOutput ==
    ASSUME TypeOK, HeldOK, Output, PsNext
    PROVE  Output'
  <1>1. CASE PumpStep \/ CheckReset \/ Hold \/ Reboot \/ Release
    <2>1. /\ UNCHANGED <<out, sent, shown>> /\ ps'.last = ps.last
          /\ ps.pc \notin {"mirror_byte", "mirror_head"}
          /\ ps'.pc \notin {"mirror_byte", "mirror_head"}
          /\ fw' = fw \/ fw'.pc \in {"linux", "halted"}
      BY <1>1, PumpFrame
    <2>2. Unreturned' = Unreturned
      BY <2>1 DEF Unreturned
    <2>3. OutOK' /\ OutBytesOK'
      BY <2>1, <2>2, OutFrame
    <2>4. PutOK'
      BY <2>1, <2>2 DEF Output, PutOK
    <2> QED BY <2>1, <2>3, <2>4 DEF Output, MirrorOK
  <1> QED BY <1>1, MirrorTotalOutput, MirrorByteOutput, MirrorHeadOutput, ClearOutput
          DEF PsNext, PumpStep
-----------------------------------------------------------------------------
(* The input ring, the mailbox and the keys.                               *)

LEMMA InTypes ==
    ASSUME TypeOK
    PROVE  /\ in.head \in Counter /\ in.tail \in Counter
           /\ ps.head \in Counter /\ ps.tail \in Counter /\ fw.t0 \in Counter
           /\ in.byte \in [0 .. InBytes - 1 -> Keys]
           /\ rx \in Seq(Keys) /\ given \in Seq(Keys) /\ Keys \subseteq Nat
           /\ typed \in Nat /\ Len(rx) \in Nat /\ Popped \in Int
           /\ Unpublished \in {0, 1}
           /\ InBytes \in Nat \ {0} /\ Wrap % InBytes = 0 /\ InBytes < Wrap /\ Wrap \in Nat
           /\ mail.valid \in BOOLEAN /\ mail.char \in Keys
  BY ConsoleAssumption DEF TypeOK, Keys, Unpublished, Popped

LEMMA InitInput == Init => Input
  <1> SUFFICES ASSUME Init PROVE Input
    OBVIOUS
  <1>1. 0 \in Counter
    BY ConsoleAssumption DEF Counter
  <1>2. Distance(0, 0) = 0
    BY <1>1, DistanceZero
  <1>3. InOK
    BY <1>2, ConsoleAssumption DEF Init, InOK, ClearedIn, Unpublished
  <1>4. Ring = {}
    <2>1. ASSUME NEW c \in Counter PROVE ~(Distance(c, 0) < Distance(0, 0) + 0)
      BY <1>1, <1>2, DistanceIs
    <2> QED BY <2>1 DEF Init, Ring, ClearedIn, Unpublished
  <1>5. RxOK /\ MailOK
    BY DEF Init, RxOK, MailOK
  <1>6. ~MailFull /\ Len(given) = 0
    BY DEF Init, MailFull, NoMail
  <1> QED BY <1>3, <1>4, <1>5, <1>6 DEF Input, RingKeys, MailKeys, GivenKeys

\* Steps that move no key.
LEMMA KeysFrame ==
    ASSUME Input, UNCHANGED <<in, mail, given, rx, typed>>,
           Unpublished' = Unpublished, MailFull' <=> MailFull
    PROVE  RxOK' /\ RingKeys' /\ MailKeys' /\ GivenKeys'
  <1>1. Ring' = Ring /\ Popped' = Popped
    BY DEF Ring, Popped
  <1> QED BY <1>1 DEF Input, RxOK, RingKeys, MailKeys, GivenKeys, KeyAt, Popped

LEMMA GetAdvanceInput ==
    ASSUME TypeOK, Input, GetAdvance
    PROVE  Input'
  <1>1. /\ fw.pc = "get_advance" /\ fw'.pc = "linux" /\ fw.t0 = in.head /\ in.head # in.tail
        /\ fw.a0 = KeyAt(in.head)
    BY DEF GetAdvance, FwGoto, TypeOK, Input, InOK
  <1>2. /\ in'.head = Succ(in.head) /\ in'.tail = in.tail /\ in'.byte = in.byte
        /\ given' = Append(given, fw.a0) /\ UNCHANGED <<ps, rx, typed, mail>>
    BY <1>1 DEF GetAdvance, FwOnly, TypeOK
  <1>3. /\ Unpublished' = Unpublished /\ (MailFull' <=> MailFull) /\ Popped' = Popped
        /\ \A c : KeyAt(c)' = KeyAt(c)
    BY <1>2 DEF Unpublished, MailFull, Popped, KeyAt
  <1>4. Succ(in.head) \in Counter /\ Distance(in.tail, Succ(in.head)) = Distance(in.tail, in.head) - 1
    BY <1>1, InTypes, SuccIs, DistanceDown
  <1>5. Distance(in.tail, in.head) \in Nat /\ Distance(in.tail, in.head) + Unpublished <= InBytes
    BY InTypes, DistanceIs DEF Input, InOK
  <1>6. in.head \in Ring
    <2>1. Distance(in.head, in.head) = 0 /\ Distance(in.tail, in.head) # 0
      BY <1>1, InTypes, DistanceZero
    <2> QED BY <1>5, <2>1, InTypes DEF Ring
  <1>7. ASSUME NEW c \in Ring' PROVE c \in Ring /\ c # in.head
    <2>1. c \in Counter /\ Distance(c, Succ(in.head)) < Distance(in.tail, in.head) - 1 + Unpublished
      BY <1>2, <1>3, <1>4 DEF Ring
    <2>2. CASE c = in.head
      <3>1. Distance(in.head, Succ(in.head)) = Wrap - 1
        <4>1. Succ(in.head) = IF in.head = Wrap - 1 THEN 0 ELSE in.head + 1
          BY InTypes, SuccIs
        <4>2. /\ Distance(in.head, Succ(in.head)) =
                   IF in.head >= Succ(in.head) THEN in.head - Succ(in.head)
                   ELSE in.head + Wrap - Succ(in.head)
              /\ in.head \in Nat /\ Succ(in.head) \in Nat /\ Wrap \in Nat
          BY <1>4, InTypes, DistanceIs
        <4> QED BY <4>1, <4>2
      <3> QED BY <1>5, <2>1, <2>2, <3>1, InTypes
    <2>3. CASE c # in.head
      <3>1. Distance(c, Succ(in.head)) = Distance(c, in.head) - 1 /\ Distance(c, in.head) \in Nat
        BY <2>1, <2>3, InTypes, DistanceDown, DistanceIs
      <3>2. Distance(c, in.head) < Distance(in.tail, in.head) + Unpublished
        BY <1>5, <2>1, <3>1, InTypes
      <3> QED BY <2>1, <2>3, <3>2 DEF Ring
    <2> QED BY <2>2, <2>3
  <1>8. RingKeys' /\ MailKeys'
    BY <1>2, <1>3, <1>7 DEF Input, RingKeys, MailKeys
  <1>9. GivenKeys'
    <2>1. fw.a0 \in 1 .. Popped /\ (MailFull => mail.char # fw.a0)
      BY <1>1, <1>6 DEF Input, RingKeys, MailKeys
    <2>2. \A c \in Ring' : KeyAt(c) # fw.a0
      BY <1>1, <1>6, <1>7 DEF Input, RingKeys
    <2>3. \A i \in 1 .. Len(given) : given[i] # fw.a0
      BY <1>1, <1>6 DEF Input, GivenKeys
    <2>4. /\ Len(given') = Len(given) + 1 /\ Len(given) \in Nat
          /\ \A i \in 1 .. Len(given) : given'[i] = given[i]
          /\ given'[Len(given) + 1] = fw.a0
      BY <1>2, InTypes
    <2>5. ASSUME NEW i \in 1 .. Len(given)
          PROVE  /\ given[i] \in 1 .. Popped /\ (MailFull => mail.char # given[i])
                 /\ \A c \in Ring' : KeyAt(c) # given[i]
                 /\ \A j \in 1 .. Len(given) : i # j => given[i] # given[j]
      BY <1>7 DEF Input, GivenKeys
    <2>6. \A i \in 1 .. Len(given') : i = Len(given) + 1 \/ i \in 1 .. Len(given)
      BY <2>4
    <2> QED BY <1>2, <1>3, <2>1, <2>2, <2>3, <2>4, <2>5, <2>6 DEF GivenKeys
  <1>10. RxOK' /\ MailOK'
    BY <1>1, <1>2, <1>3 DEF Input, RxOK, MailOK
  <1>11. InOK'
    <2>1. Distance(in'.tail, in'.head) = Distance(in.tail, in.head) - 1
      BY <1>2, <1>4
    <2>2. Distance(in.tail, ps.head) \in Nat
      BY InTypes, DistanceIs
    <2> QED BY <1>1, <1>2, <1>3, <1>5, <2>1, <2>2, InTypes DEF Input, InOK
  <1> QED BY <1>8, <1>9, <1>10, <1>11 DEF Input

LEMMA GetClearInput ==
    ASSUME TypeOK, Input, GetClear
    PROVE  Input'
  <1>1. fw.pc = "get_clear" /\ fw'.pc = "linux"
    BY DEF GetClear, FwGoto, TypeOK
  <1>2. mail.valid /\ fw.a0 = mail.char /\ MailFull /\ ps.pc \notin {"pump_char", "pump_set"}
    BY <1>1 DEF Input, MailOK, MailFull
  <1>3. /\ ~mail'.valid /\ given' = Append(given, mail.char)
        /\ UNCHANGED <<in, ps, rx, typed>>
    BY <1>2 DEF GetClear, FwOnly, TypeOK
  <1>4. /\ Unpublished' = Unpublished /\ ~MailFull' /\ Popped' = Popped /\ Ring' = Ring
        /\ \A c : KeyAt(c)' = KeyAt(c)
    BY <1>2, <1>3 DEF Unpublished, MailFull, Popped, KeyAt, Ring
  <1>5. RingKeys' /\ MailKeys'
    BY <1>4 DEF Input, RingKeys, MailKeys
  <1>6. GivenKeys'
    <2>1. mail.char \in 1 .. Popped /\ \A c \in Ring : KeyAt(c) # mail.char
      BY <1>2 DEF Input, MailKeys
    <2>2. /\ Len(given') = Len(given) + 1 /\ Len(given) \in Nat
          /\ \A i \in 1 .. Len(given) : given'[i] = given[i]
          /\ given'[Len(given) + 1] = mail.char
      BY <1>3, InTypes
    <2>3. ASSUME NEW i \in 1 .. Len(given)
          PROVE  /\ given[i] \in 1 .. Popped /\ mail.char # given[i]
                 /\ \A c \in Ring : KeyAt(c) # given[i]
                 /\ \A j \in 1 .. Len(given) : i # j => given[i] # given[j]
      BY <1>2 DEF Input, GivenKeys
    <2>4. \A i \in 1 .. Len(given') : i = Len(given) + 1 \/ i \in 1 .. Len(given)
      BY <2>2
    <2> QED BY <1>4, <2>1, <2>2, <2>3, <2>4 DEF GivenKeys
  <1>7. RxOK' /\ MailOK' /\ InOK'
    BY <1>1, <1>2, <1>3, <1>4 DEF Input, RxOK, MailOK, InOK
  <1> QED BY <1>5, <1>6, <1>7 DEF Input

\* The UART hands over the next key.
LEMMA PopsNext ==
    ASSUME TypeOK, RxOK, rx # <<>>, rx' = Tail(rx), typed' = typed
    PROVE  /\ Head(rx) = Popped + 1 /\ Popped' = Popped + 1 /\ RxOK' /\ Popped \in Nat
  <1>1. /\ Len(rx) \in Nat /\ Len(rx) >= 1 /\ Head(rx) = rx[1] /\ Len(rx') = Len(rx) - 1
        /\ \A i \in 1 .. Len(rx) - 1 : rx'[i] = rx[i + 1]
    BY InTypes
  <1>2. Popped' = Popped + 1 /\ Popped \in Nat
    BY <1>1, InTypes DEF Popped, RxOK
  <1>3. \A i \in 1 .. Len(rx) : rx[i] = Popped + i
    BY DEF RxOK
  <1>4. rx[1] = Popped + 1 /\ \A i \in 1 .. Len(rx) - 1 : rx[i + 1] = Popped + (i + 1)
    BY <1>1, <1>3
  <1>5. Len(rx') <= typed' /\ \A i \in 1 .. Len(rx') : rx'[i] = Popped' + i
    BY <1>1, <1>2, <1>4, InTypes DEF RxOK
  <1> QED BY <1>1, <1>2, <1>4, <1>5 DEF RxOK

LEMMA PumpByteInput ==
    ASSUME TypeOK, Input, PumpByte
    PROVE  Input'
  <1>1. /\ ps.pc = "pump_ring" /\ ps'.pc = "pump_publish" /\ Unpublished = 0 /\ Unpublished' = 1
        /\ ps.tail = in.tail /\ ps'.tail = ps.tail /\ ps'.head = ps.head
        /\ rx # <<>> /\ rx' = Tail(rx) /\ UNCHANGED <<mail, fw, typed, given>>
    BY DEF PumpByte, PumpRoom, PsOnly, TypeOK, Input, InOK, Unpublished
  <1>2. /\ in'.head = in.head /\ in'.tail = in.tail
        /\ in'.byte = [in.byte EXCEPT ![in.tail % InBytes] = Head(rx)]
    BY <1>1 DEF PumpByte, TypeOK
  <1>3. Head(rx) = Popped + 1 /\ Popped' = Popped + 1 /\ RxOK' /\ Popped \in Nat
    BY <1>1, PopsNext DEF Input
  <1>4. /\ Distance(in.tail, in.head) <= Distance(in.tail, ps.head)
        /\ Distance(in.tail, ps.head) < InBytes
    BY <1>1 DEF PumpByte, PumpRoom, Input, InOK
  <1>5. /\ Distance(in.tail, in.head) \in Nat /\ Distance(in.tail, ps.head) \in Nat
        /\ in.tail % InBytes \in 0 .. InBytes - 1
    BY InTypes, DistanceIs, SlotIn
  <1>6. Distance(in.tail, in.head) < InBytes
    BY <1>4, <1>5, InTypes
  <1>7. KeyAt(in.tail)' = Popped + 1
    BY <1>2, <1>3, <1>5, InTypes DEF KeyAt
  <1>8. ASSUME NEW c \in Counter, c # in.tail, Distance(c, in.head) < InBytes
        PROVE  KeyAt(c)' = KeyAt(c)
    <2>1. c % InBytes # in.tail % InBytes
      BY <1>6, <1>8, InTypes, UsedApart
    <2>2. c % InBytes \in 0 .. InBytes - 1
      BY InTypes, SlotIn
    <2> QED BY <1>2, <2>1, <2>2, InTypes DEF KeyAt
  <1>9. Ring \subseteq Counter /\ \A c \in Ring : Distance(c, in.head) < Distance(in.tail, in.head)
    BY <1>1, InTypes, <1>5 DEF Ring
  <1>10. \A c \in Ring : c # in.tail /\ KeyAt(c)' = KeyAt(c)
    <2> TAKE c \in Ring
    <2>1. c \in Counter /\ Distance(c, in.head) < Distance(in.tail, in.head)
      BY <1>9
    <2>2. Distance(c, in.head) \in Nat
      BY <2>1, InTypes, DistanceIs
    <2>3. c # in.tail /\ Distance(c, in.head) < InBytes
      BY <1>5, <1>6, <2>1, <2>2, InTypes
    <2> QED BY <1>8, <2>1, <2>3
  <1>11. ASSUME NEW c \in Ring' PROVE c \in Ring \/ c = in.tail
    <2>1. c \in Counter /\ Distance(c, in.head) < Distance(in.tail, in.head) + 1
      BY <1>1, <1>2 DEF Ring
    <2>2. Distance(c, in.head) \in Nat
      BY <2>1, InTypes, DistanceIs
    <2>3. CASE Distance(c, in.head) = Distance(in.tail, in.head)
      BY <2>1, <2>3, InTypes, DistanceSame
    <2>4. CASE Distance(c, in.head) < Distance(in.tail, in.head)
      BY <1>1, <1>5, <2>1, <2>4 DEF Ring
    <2> QED BY <1>5, <2>1, <2>2, <2>3, <2>4
  <1>12. RingKeys'
    <2>1. \A c \in Ring : KeyAt(c) \in 1 .. Popped /\ KeyAt(c) # Popped + 1
      BY <1>3 DEF Input, RingKeys
    <2>2. \A c \in Ring' : KeyAt(c)' \in 1 .. Popped'
      BY <1>2, <1>3, <1>7, <1>10, <1>11, <2>1 DEF KeyAt
    <2>3. ASSUME NEW c \in Ring', NEW d \in Ring', c # d PROVE KeyAt(c)' # KeyAt(d)'
      BY <1>2, <1>7, <1>10, <1>11, <2>1, <2>3 DEF Input, RingKeys, KeyAt
    <2> QED BY <2>2, <2>3 DEF RingKeys
  <1>13. MailFull' <=> MailFull
    BY <1>1 DEF MailFull
  <1>14. MailKeys'
    <2>1. MailFull => mail.char \in 1 .. Popped /\ mail.char # Popped + 1 /\ mail.char \in 1 .. Popped + 1
      BY <1>3 DEF Input, MailKeys
    <2> QED BY <1>1, <1>2, <1>3, <1>7, <1>10, <1>11, <1>13, <2>1 DEF Input, MailKeys, KeyAt
  <1>15. GivenKeys'
    <2>1. ASSUME NEW i \in 1 .. Len(given)
          PROVE  given[i] \in 1 .. Popped /\ given[i] # Popped + 1 /\ given[i] \in 1 .. Popped + 1
      BY <1>3 DEF Input, GivenKeys
    <2> QED BY <1>1, <1>2, <1>3, <1>7, <1>10, <1>11, <1>13, <2>1 DEF Input, GivenKeys, KeyAt
  <1>16. InOK'
    <2>1. in.head # in.tail => KeyAt(in.head)' = KeyAt(in.head)
      <3>1. Distance(in.head, in.head) = 0
        BY InTypes, DistanceZero
      <3> QED BY <1>2, <1>8, <3>1, InTypes DEF KeyAt
    <2>2. Distance(in.tail, in.head) + 1 <= InBytes /\ Distance(in.tail, ps.head) + 1 <= InBytes
      BY <1>4, <1>5, InTypes
    <2> QED BY <1>1, <1>2, <1>4, <2>1, <2>2 DEF Input, InOK, KeyAt
  <1>17. MailOK'
    BY <1>1 DEF Input, MailOK
  <1> QED BY <1>3, <1>12, <1>14, <1>15, <1>16, <1>17 DEF Input

LEMMA PumpPublishInput ==
    ASSUME TypeOK, Input, PumpPublish
    PROVE  Input'
  <1>1. /\ ps.pc = "pump_publish" /\ ps'.pc = "pump_ring" /\ Unpublished = 1 /\ Unpublished' = 0
        /\ ps.tail = in.tail /\ ps'.tail = Succ(in.tail) /\ ps'.head = ps.head
        /\ UNCHANGED <<mail, fw, typed, given, rx>>
    BY DEF PumpPublish, PsOnly, TypeOK, Input, InOK, Unpublished
  <1>2. in'.head = in.head /\ in'.tail = Succ(in.tail) /\ in'.byte = in.byte
    BY <1>1 DEF PumpPublish, TypeOK
  <1>3. /\ Distance(in.tail, in.head) <= Distance(in.tail, ps.head)
        /\ Distance(in.tail, in.head) + 1 <= InBytes /\ Distance(in.tail, ps.head) + 1 <= InBytes
        /\ Distance(in.tail, in.head) \in Nat /\ Distance(in.tail, ps.head) \in Nat
    BY <1>1, InTypes, DistanceIs DEF Input, InOK
  <1>4. /\ Distance(in.tail, in.head) < Wrap - 1 /\ Distance(in.tail, ps.head) < Wrap - 1
    BY <1>3, InTypes
  <1>5. /\ Distance(Succ(in.tail), in.head) = Distance(in.tail, in.head) + 1
        /\ Distance(Succ(in.tail), ps.head) = Distance(in.tail, ps.head) + 1
    BY <1>4, InTypes, DistanceUp
  <1>6. in.head # Succ(in.tail)
    <2>1. Distance(in.head, in.head) = 0
      BY InTypes, DistanceZero
    <2>2. Distance(Succ(in.tail), in.head) # 0
      BY <1>3, <1>5
    <2> QED BY <2>1, <2>2
  <1>7. Ring' = Ring
    BY <1>1, <1>2, <1>3, <1>5 DEF Ring
  <1>8. /\ (MailFull' <=> MailFull) /\ Popped' = Popped
        /\ \A c : KeyAt(c)' = KeyAt(c)
    BY <1>1, <1>2 DEF MailFull, Popped, KeyAt
  <1>9. RxOK' /\ RingKeys' /\ MailKeys' /\ GivenKeys'
    BY <1>1, <1>7, <1>8 DEF Input, RxOK, RingKeys, MailKeys, GivenKeys
  <1>10. InOK'
    BY <1>1, <1>2, <1>3, <1>5, <1>6, InTypes DEF Input, InOK, KeyAt
  <1>11. MailOK'
    BY <1>1 DEF Input, MailOK
  <1> QED BY <1>9, <1>10, <1>11 DEF Input

LEMMA PumpCharInput ==
    ASSUME TypeOK, Input, PumpChar
    PROVE  Input'
  <1>1. /\ ps.pc = "pump_char" /\ ps'.pc = "pump_set" /\ Unpublished = 0 /\ Unpublished' = 0
        /\ ps'.tail = ps.tail /\ ps'.head = ps.head /\ ~mail.valid
        /\ rx # <<>> /\ rx' = Tail(rx) /\ UNCHANGED <<in, fw, typed, given>>
        /\ mail'.char = Head(rx) /\ mail'.valid = mail.valid
    BY DEF PumpChar, PsOnly, TypeOK, Input, MailOK, Unpublished
  <1>2. Head(rx) = Popped + 1 /\ Popped' = Popped + 1 /\ RxOK' /\ Popped \in Nat
    BY <1>1, PopsNext DEF Input
  <1>3. Ring' = Ring /\ \A c : KeyAt(c)' = KeyAt(c)
    BY <1>1 DEF Ring, KeyAt
  <1>4. \A c \in Ring : KeyAt(c) \in 1 .. Popped + 1 /\ KeyAt(c) # Popped + 1
    BY <1>2 DEF Input, RingKeys
  <1>5. RingKeys'
    BY <1>2, <1>3, <1>4 DEF Input, RingKeys
  <1>6. MailKeys'
    BY <1>1, <1>2, <1>3, <1>4 DEF MailKeys
  <1>7. GivenKeys'
    <2>1. ASSUME NEW i \in 1 .. Len(given)
          PROVE  given[i] \in 1 .. Popped + 1 /\ given[i] # Popped + 1
      BY <1>2 DEF Input, GivenKeys
    <2> QED BY <1>1, <1>2, <1>3, <2>1 DEF Input, GivenKeys
  <1>8. InOK' /\ MailOK'
    BY <1>1 DEF Input, InOK, MailOK, KeyAt
  <1> QED BY <1>2, <1>5, <1>6, <1>7, <1>8 DEF Input

LEMMA PumpSetInput ==
    ASSUME TypeOK, Input, PumpSet
    PROVE  Input'
  <1>1. /\ ps.pc = "pump_set" /\ ps'.pc \in {"mirror_total", "pump_head"}
        /\ UNCHANGED <<in, fw, typed, given, rx>>
        /\ mail'.char = mail.char /\ mail'.valid
    BY DEF PumpSet, PsOnly, TypeOK, AfterPump
  <1>2. Unpublished = 0 /\ Unpublished' = 0 /\ MailFull /\ MailFull' /\ ~mail.valid
    BY <1>1 DEF Unpublished, MailFull, Input, MailOK
  <1>3. Ring' = Ring /\ Popped' = Popped /\ \A c : KeyAt(c)' = KeyAt(c)
    BY <1>1, <1>2 DEF Ring, KeyAt, Popped
  <1>4. RxOK' /\ RingKeys' /\ MailKeys' /\ GivenKeys'
    BY <1>1, <1>2, <1>3 DEF Input, RxOK, RingKeys, MailKeys, GivenKeys
  <1>5. InOK' /\ MailOK'
    BY <1>1, <1>2 DEF Input, InOK, MailOK, KeyAt
  <1> QED BY <1>4, <1>5 DEF Input

LEMMA ClearInput ==
    ASSUME TypeOK, HeldOK, Input, Clear
    PROVE  Input'
  <1>1. /\ ps'.pc = "release" /\ fw'.pc = "halted" /\ UNCHANGED <<typed, given, rx>>
        /\ in'.head = 0 /\ in'.tail = 0 /\ mail' = NoMail
    BY DEF Clear, HeldOK, PsOnly, TypeOK, ClearedIn
  <1>2. 0 \in Counter /\ Distance(0, 0) = 0
    BY ConsoleAssumption, DistanceZero DEF Counter
  <1>3. Unpublished' = 0 /\ ~MailFull' /\ Popped' = Popped
    BY <1>1 DEF Unpublished, MailFull, NoMail, Popped
  <1>4. Ring' = {}
    <2>1. ASSUME NEW c \in Counter PROVE ~(Distance(c, 0) < Distance(0, 0) + 0)
      BY <1>2, DistanceIs
    <2> QED BY <1>1, <1>3, <2>1 DEF Ring
  <1>5. RxOK' /\ RingKeys' /\ MailKeys' /\ GivenKeys'
    BY <1>1, <1>3, <1>4 DEF Input, RxOK, RingKeys, MailKeys, GivenKeys
  <1>6. InOK' /\ MailOK'
    BY <1>1, <1>2, <1>3, InTypes DEF InOK, MailOK, NoMail
  <1> QED BY <1>5, <1>6 DEF Input

LEMMA TypeInput ==
    ASSUME TypeOK, Input, Type
    PROVE  Input'
  <1>1. /\ typed' = typed + 1 /\ rx' = Append(rx, typed + 1)
        /\ UNCHANGED <<in, mail, fw, ps, given>>
    BY DEF Type
  <1>2. /\ Len(rx') = Len(rx) + 1 /\ rx'[Len(rx) + 1] = typed + 1
        /\ \A i \in 1 .. Len(rx) : rx'[i] = rx[i]
    BY <1>1, InTypes
  <1>3. Popped' = Popped
    BY <1>1, <1>2, InTypes DEF Popped
  <1>4. Len(rx) <= typed /\ \A i \in 1 .. Len(rx) : rx[i] = Popped + i
    BY DEF Input, RxOK
  <1>5. Popped + (Len(rx) + 1) = typed + 1 /\ Len(rx') <= typed'
    BY <1>1, <1>2, <1>4, InTypes DEF Popped
  <1>6. \A i \in 1 .. Len(rx') : i = Len(rx) + 1 \/ i \in 1 .. Len(rx)
    BY <1>2, InTypes
  <1>7. RxOK'
    BY <1>2, <1>3, <1>4, <1>5, <1>6 DEF RxOK
  <1>8. Ring' = Ring /\ Unpublished' = Unpublished /\ (MailFull' <=> MailFull)
    BY <1>1 DEF Ring, Unpublished, MailFull
  <1>9. RingKeys' /\ MailKeys' /\ GivenKeys'
    BY <1>1, <1>3, <1>8 DEF Input, RingKeys, MailKeys, GivenKeys, KeyAt
  <1>10. InOK' /\ MailOK'
    BY <1>1, <1>8 DEF Input, InOK, MailOK, KeyAt
  <1> QED BY <1>7, <1>9, <1>10 DEF Input

LEMMA FwInput ==
    ASSUME TypeOK, Input, FwNext
    PROVE  Input'
  <1>1. CASE GetAdvance BY <1>1, GetAdvanceInput
  <1>2. CASE GetClear BY <1>2, GetClearInput
  <1>3. CASE ~GetAdvance /\ ~GetClear
    <2>1. UNCHANGED <<in, mail, given, ps, rx, typed>>
      BY <1>3 DEF FwNext, FwOnly, SbiPutchar, SbiGetchar, SbiSystemReset, PutTotal, PutHead, PutByte,
                  PutPublish, GetHead, GetTail, GetByte, GetValid, GetChar
    <2>2. Unpublished' = Unpublished /\ (MailFull' <=> MailFull)
      BY <2>1 DEF Unpublished, MailFull
    <2>3. RxOK' /\ RingKeys' /\ MailKeys' /\ GivenKeys'
      BY <2>1, <2>2, KeysFrame
    <2>4. ASSUME SbiPutchar \/ SbiGetchar \/ SbiSystemReset \/ PutTotal \/ PutHead \/ PutByte
                 \/ PutPublish
          PROVE  fw'.pc \notin {"get_tail", "get_byte", "get_advance", "get_char", "get_clear"}
      BY <2>4 DEF TypeOK, FwGoto, SbiPutchar, SbiGetchar, SbiSystemReset, PutTotal, PutHead,
                  PutByte, PutPublish
    <2>5. ASSUME GetHead \/ GetTail \/ GetByte \/ GetValid \/ GetChar
          PROVE  /\ fw'.pc \in {"get_tail", "get_byte", "get_advance"} => fw'.t0 = in.head
                 /\ fw'.pc \in {"get_byte", "get_advance"} => in.head # in.tail
                 /\ fw'.pc = "get_advance" => fw'.a0 = KeyAt(in.head)
                 /\ fw'.pc \in {"get_char", "get_clear"} => mail.valid
                 /\ fw'.pc = "get_clear" => fw'.a0 = mail.char
      <3>1. CASE GetHead BY <3>1 DEF GetHead, TypeOK
      <3>2. CASE GetTail BY <3>2 DEF GetTail, TypeOK, Input, InOK
      <3>3. CASE GetByte BY <3>3 DEF GetByte, TypeOK, Input, InOK, KeyAt
      <3>4. CASE GetValid BY <3>4 DEF GetValid, TypeOK
      <3>5. CASE GetChar BY <3>5 DEF GetChar, TypeOK, Input, MailOK
      <3> QED BY <2>5, <3>1, <3>2, <3>3, <3>4, <3>5
    <2>6. InOK'
      BY <1>3, <2>1, <2>2, <2>4, <2>5 DEF Input, InOK, FwNext, KeyAt
    <2>7. MailOK'
      BY <1>3, <2>1, <2>4, <2>5 DEF Input, MailOK, FwNext
    <2> QED BY <2>3, <2>6, <2>7 DEF Input
  <1> QED BY <1>1, <1>2, <1>3

LEMMA PsInput ==
    ASSUME TypeOK, HeldOK, Input, PsNext
    PROVE  Input'
  <1>1. CASE PumpHead \/ PumpTail \/ PumpRingDone \/ PumpValid \/ PumpNothing
    <2>1. UNCHANGED <<in, mail, given, rx, typed, fw>>
      BY <1>1 DEF PsOnly, PumpHead, PumpTail, PumpRingDone, PumpValid, PumpNothing
    <2>2. /\ ps.pc \notin {"pump_publish", "pump_set"} /\ ps'.pc \notin {"pump_publish", "pump_set"}
          /\ ps'.pc = "pump_char" => ~mail.valid
          /\ ps'.pc = "pump_ring" => ps'.tail = in.tail
          /\ ps'.pc \in {"pump_tail", "pump_ring"} =>
               \/ ps'.head = in.head
               \/ ps'.head = ps.head /\ ps.pc = "pump_tail"
      <3>1. CASE PumpHead BY <3>1 DEF PumpHead, TypeOK
      <3>2. CASE PumpTail BY <3>2 DEF PumpTail, TypeOK
      <3>3. CASE PumpRingDone BY <3>3 DEF PumpRingDone, TypeOK
      <3>4. CASE PumpValid BY <3>4 DEF PumpValid, TypeOK, AfterPump
      <3>5. CASE PumpNothing BY <3>5 DEF PumpNothing, TypeOK, AfterPump
      <3> QED BY <1>1, <3>1, <3>2, <3>3, <3>4, <3>5
    <2>3. Unpublished' = Unpublished /\ Unpublished = 0 /\ (MailFull' <=> MailFull)
      BY <2>1, <2>2 DEF Unpublished, MailFull
    <2>4. Distance(in.tail, in.head) \in Nat
      BY InTypes, DistanceIs
    <2>5. InOK'
      BY <2>1, <2>2, <2>3, <2>4, InTypes DEF Input, InOK, KeyAt
    <2>6. MailOK'
      BY <2>1, <2>2 DEF Input, MailOK
    <2> QED BY <2>1, <2>3, <2>5, <2>6, KeysFrame DEF Input
  <1>2. CASE MirrorTotal \/ MirrorByte \/ MirrorHead \/ CheckReset \/ Reboot \/ Hold \/ Release
    <2>1. UNCHANGED <<in, mail, given, rx, typed>>
      BY <1>2 DEF PsOnly, MirrorTotal, MirrorByte, MirrorHead, CheckReset, Reboot, Hold, Release
    <2>2. fw' = fw \/ fw'.pc \in {"linux", "halted"}
      BY <1>2 DEF TypeOK, PsOnly, MirrorTotal, MirrorByte, MirrorHead, CheckReset, Reboot, Hold,
                  Release
    <2>3. /\ ps.pc \notin {"pump_tail", "pump_ring", "pump_publish", "pump_char", "pump_set"}
          /\ ps'.pc \notin {"pump_tail", "pump_ring", "pump_publish", "pump_char", "pump_set"}
      <3>1. CASE CheckReset
        <4>1. PICK l \in BOOLEAN : ps' = [ps EXCEPT !.pc = "pump_head", !.loop = l]
          BY <3>1 DEF CheckReset
        <4> QED BY <3>1, <4>1 DEF CheckReset, TypeOK
      <3> QED BY <1>2, <3>1 DEF TypeOK, MirrorTotal, MirrorByte, MirrorHead, Reboot, Hold, Release
    <2>4. Unpublished' = Unpublished /\ (MailFull' <=> MailFull)
      BY <2>1, <2>3 DEF Unpublished, MailFull
    <2>5. InOK' /\ MailOK'
      BY <2>1, <2>2, <2>3, <2>4 DEF Input, InOK, MailOK, KeyAt
    <2> QED BY <2>1, <2>4, <2>5, KeysFrame DEF Input
  <1> QED BY <1>1, <1>2, PumpByteInput, PumpPublishInput, PumpCharInput, PumpSetInput, ClearInput
          DEF PsNext
-----------------------------------------------------------------------------
(* The theorems.                                                           *)

LEMMA InitInvariant == Init => IInv
  <1>1. Init => TypeOK /\ HeldOK
    BY InitType
  <1> QED BY <1>1, InitOutput, InitInput DEF IInv

LEMMA StepInvariant ==
    ASSUME IInv, Next
    PROVE  IInv'
  <1>1. TypeOK /\ HeldOK /\ Output /\ Input /\ PutOK
    BY DEF IInv, Output
  <1>2. CASE FwNext
    BY <1>1, <1>2, FwType, FwOutput, FwInput DEF IInv
  <1>3. CASE PsNext
    BY <1>1, <1>3, PsType, PsOutput, PsInput DEF IInv
  <1>4. CASE Type
    <2>1. UNCHANGED <<out, sent, shown, ps, fw>>
      BY <1>4 DEF Type
    <2>2. Output'
      BY <1>1, <2>1 DEF Output, OutOK, OutBytesOK, PutOK, MirrorOK, Unreturned
    <2> QED BY <1>1, <1>4, <2>2, TypeType, TypeInput DEF IInv
  <1> QED BY <1>2, <1>3, <1>4 DEF Next

LEMMA StutterInvariant ==
    ASSUME IInv, UNCHANGED vars
    PROVE  IInv'
  BY DEF vars, IInv, TypeOK, HeldOK, Output, Input, OutOK, OutBytesOK, PutOK, MirrorOK, Unreturned,
         RxOK, InOK, MailOK, RingKeys, MailKeys, GivenKeys, Popped, Ring, KeyAt, MailFull, Unpublished

(* The invariant of the console rings holds of every reachable state: what *)
(* the counters of both sides say is what the slots hold, and every key is *)
(* in one place (linux_boot_firmware.zx32.s, ps_linux_boot.c).             *)
THEOREM Invariance == Spec => []IInv
  <1>1. IInv /\ [Next]_vars => IInv'
    BY StepInvariant, StutterInvariant
  <1> QED BY <1>1, InitInvariant, PTL DEF Spec

(* The firmware never runs more than a ring ahead of the counter it has    *)
(* been handed back, and the launcher's branch that skips lost characters  *)
(* (ps_linux_boot.c, print_linux_console_mirror) is never taken, whatever  *)
(* the ring's size and wherever the counters wrap.                         *)
THEOREM FirmwareNeverSkips == Spec => []NeverSkips
  <1>1. IInv => NeverSkips
    <2> SUFFICES ASSUME IInv PROVE NeverSkips
      OBVIOUS
    <2>1. TypeOK /\ OutOK
      BY DEF IInv, Output
    <2>2. sent - shown <= OutBytes /\ sent - shown + Unreturned <= OutBytes
      <3>1. sent \in Nat /\ shown \in Nat /\ OutBytes \in Nat /\ Unreturned \in {0, 1}
        BY <2>1, ConsoleAssumption DEF TypeOK, Chars, Unreturned
      <3> QED BY <2>1, <3>1 DEF OutOK
    <2> QED BY <2>1, <2>2 DEF OutOK, NeverSkips
  <1> QED BY <1>1, Invariance, PTL

(* No key reaches Linux twice, through the ring or through the mailbox, and *)
(* only keys that were typed do (sbi_console_getchar and                   *)
(* pump_linux_console_input).                                              *)
THEOREM KeysReachLinuxOnce == Spec => []KeysOnce
  <1>1. IInv => KeysOnce
    <2> SUFFICES ASSUME IInv, NEW i \in 1 .. Len(given), NEW j \in 1 .. Len(given)
                 PROVE  given[i] \in 1 .. typed /\ (i # j => given[i] # given[j])
      BY DEF KeysOnce
    <2>1. /\ given[i] \in 1 .. Popped /\ (i # j => given[i] # given[j])
      BY DEF IInv, Input, GivenKeys
    <2>2. Popped <= typed /\ Popped \in Int /\ typed \in Nat
      BY InTypes DEF IInv, Popped
    <2> QED BY <2>1, <2>2
  <1> QED BY <1>1, Invariance, PTL

(* Every character that print_linux_console_mirror (ps_linux_boot.c)       *)
(* prints is the one after the last it printed, so none is lost or         *)
(* printed twice; only the clearing of the scratch at a reboot gives       *)
(* characters up.                                                          *)
THEOREM MirrorsInOrder == Spec => OutputInOrder
  <1>1. IInv /\ [Next]_vars =>
          [/\ MirrorByte => shown' = shown + 1
           /\ shown' # shown => MirrorByte \/ Clear]_vars
    <2> SUFFICES ASSUME IInv, Next
                 PROVE  /\ MirrorByte => shown' = shown + 1
                        /\ shown' # shown => MirrorByte \/ Clear
      BY DEF vars
    <2>1. MirrorByte => shown' = shown + 1
      BY MirrorsNext DEF IInv
    <2>2. FwNext \/ Type => shown' = shown
      BY DEF FwNext, Type, SbiPutchar, SbiGetchar, SbiSystemReset, PutTotal, PutHead, PutByte,
             PutPublish, GetHead, GetTail, GetByte, GetAdvance, GetValid, GetChar, GetClear
    <2>3. PsNext => MirrorByte \/ Clear \/ shown' = shown
      BY DEF PsNext, PumpHead, PumpTail, PumpByte, PumpPublish, PumpRingDone, PumpValid,
             PumpChar, PumpNothing, PumpSet, MirrorTotal, MirrorHead, CheckReset, Reboot, Hold,
             Release
    <2> QED BY <2>1, <2>2, <2>3 DEF Next
  <1> QED BY <1>1, Invariance, PTL DEF Spec, OutputInOrder
-----------------------------------------------------------------------------
(* What the liveness of the console rests on.                              *)

\* Where a key can be.
InUart(k) == \E i \in 1 .. Len(rx) : rx[i] = k
InRing(k) == \E c \in Ring : KeyAt(c) = k
InMail(k) == MailFull /\ mail.char = k
Given(k) == \E i \in 1 .. Len(given) : given[i] = k
Somewhere(k) == InUart(k) \/ InRing(k) \/ InMail(k) \/ Given(k)

\* A key that has been typed stays in one of these places, or is in the ring or the
\* mailbox when a reboot clears them.
KeyKept ==
  \A k \in Keys : Somewhere(k) =>
    Somewhere(k)' \/ (ps.pc = "clear" /\ (InRing(k) \/ InMail(k)))

\* A sequence that grows keeps what it has.
LEMMA AppendKeeps ==
    ASSUME NEW s \in Seq(Keys), NEW k, NEW x \in Keys
    PROVE  /\ \E i \in 1 .. Len(Append(s, x)) : Append(s, x)[i] = x
           /\ ((\E j \in 1 .. Len(s) : s[j] = k) =>
                 \E j \in 1 .. Len(Append(s, x)) : Append(s, x)[j] = k)
  <1>1. /\ Len(Append(s, x)) = Len(s) + 1 /\ Len(s) \in Nat
        /\ Append(s, x)[Len(s) + 1] = x
        /\ \A i \in 1 .. Len(s) : Append(s, x)[i] = s[i]
    OBVIOUS
  <1>2. Len(s) + 1 \in 1 .. Len(s) + 1 /\ \A i \in 1 .. Len(s) : i \in 1 .. Len(s) + 1
    BY <1>1
  <1> QED BY <1>1, <1>2

\* The key at the front of the UART leaves it, the others stay.
LEMMA UartPops ==
    ASSUME TypeOK, rx # <<>>, rx' = Tail(rx), NEW k, InUart(k)
    PROVE  k = Head(rx) \/ InUart(k)'
  <1>1. /\ Len(rx) \in Nat /\ Len(rx) >= 1 /\ Head(rx) = rx[1] /\ Len(rx') = Len(rx) - 1
        /\ \A i \in 1 .. Len(rx) - 1 : rx'[i] = rx[i + 1]
    BY InTypes
  <1>2. PICK i \in 1 .. Len(rx) : rx[i] = k
    BY DEF InUart
  <1>3. CASE i = 1
    BY <1>1, <1>2, <1>3
  <1>4. CASE i # 1
    <2>1. i - 1 \in 1 .. Len(rx) - 1 /\ (i - 1) + 1 = i
      BY <1>1, <1>4
    <2>2. rx'[i - 1] = k
      BY <1>1, <1>2, <2>1
    <2> QED BY <1>1, <2>1, <2>2 DEF InUart
  <1> QED BY <1>3, <1>4

\* sbi_console_getchar takes the oldest key of the ring, ...
LEMMA GetAdvanceKeeps ==
    ASSUME TypeOK, Input, GetAdvance, NEW k \in Keys, Somewhere(k)
    PROVE  Somewhere(k)'
  <1>1. fw.t0 = in.head /\ fw.a0 = KeyAt(in.head) /\ in.head # in.tail /\ fw.a0 \in Keys
    BY DEF GetAdvance, FwGoto, TypeOK, Input, InOK
  <1>2. /\ in'.head = Succ(in.head) /\ in'.tail = in.tail /\ in'.byte = in.byte
        /\ given' = Append(given, fw.a0) /\ UNCHANGED <<ps, rx, mail>>
    BY <1>1 DEF GetAdvance, FwOnly, TypeOK
  <1>3. /\ Unpublished' = Unpublished /\ (MailFull' <=> MailFull)
        /\ \A c : KeyAt(c)' = KeyAt(c)
    BY <1>2 DEF Unpublished, MailFull, KeyAt
  <1>4. (k = fw.a0 => Given(k)') /\ (Given(k) => Given(k)')
    <2>1. given \in Seq(Keys)
      BY InTypes
    <2>2. /\ \E i \in 1 .. Len(Append(given, fw.a0)) : Append(given, fw.a0)[i] = fw.a0
          /\ (\E j \in 1 .. Len(given) : given[j] = k) =>
               \E j \in 1 .. Len(Append(given, fw.a0)) : Append(given, fw.a0)[j] = k
      <3>1. fw.a0 \in Keys
        BY <1>1
      <3> QED BY <2>1, <3>1, AppendKeeps, Zenon
    <2>3. given' = Append(given, fw.a0)
      BY <1>2
    <2> QED BY <2>2, <2>3, Zenon DEF Given
  <1>5. ASSUME NEW c \in Ring, c # in.head PROVE c \in Ring'
    <2>1. /\ Distance(c, Succ(in.head)) = Distance(c, in.head) - 1
          /\ Distance(in.tail, Succ(in.head)) = Distance(in.tail, in.head) - 1
      BY <1>1, <1>5, InTypes, DistanceDown DEF Ring
    <2>2. Distance(c, in.head) \in Nat /\ Distance(in.tail, in.head) \in Nat
      BY InTypes, DistanceIs DEF Ring
    <2>3. Distance(c, in.head) < Distance(in.tail, in.head) + Unpublished /\ c \in Counter
      BY DEF Ring
    <2>4. Distance(c, Succ(in.head)) < Distance(in.tail, Succ(in.head)) + Unpublished
      BY <2>1, <2>2, <2>3, InTypes
    <2> QED BY <1>2, <1>3, <2>3, <2>4 DEF Ring
  <1>6. CASE InRing(k)
    <2>1. PICK c \in Ring : KeyAt(c) = k
      BY <1>6 DEF InRing
    <2>2. CASE c = in.head
      BY <1>1, <1>4, <2>1, <2>2 DEF Somewhere
    <2>3. CASE c # in.head
      BY <1>2, <1>5, <2>1, <2>3 DEF Somewhere, InRing, KeyAt
    <2> QED BY <2>2, <2>3
  <1>7. CASE InUart(k) \/ InMail(k)
    BY <1>2, <1>3, <1>7 DEF Somewhere, InUart, InMail
  <1> QED BY <1>4, <1>6, <1>7 DEF Somewhere

\* ... or the key of the mailbox.
LEMMA GetClearKeeps ==
    ASSUME TypeOK, Input, GetClear, NEW k \in Keys, Somewhere(k)
    PROVE  Somewhere(k)'
  <1>1. fw.a0 = mail.char /\ mail.char \in Keys
    BY InTypes DEF GetClear, FwGoto, Input, MailOK
  <1>2. given' = Append(given, mail.char) /\ UNCHANGED <<in, ps, rx>>
    BY <1>1 DEF GetClear, FwOnly
  <1>3. (k = mail.char => Given(k)') /\ (Given(k) => Given(k)')
    <2>1. given \in Seq(Keys)
      BY InTypes
    <2>2. /\ \E i \in 1 .. Len(Append(given, mail.char)) : Append(given, mail.char)[i] = mail.char
          /\ (\E j \in 1 .. Len(given) : given[j] = k) =>
               \E j \in 1 .. Len(Append(given, mail.char)) : Append(given, mail.char)[j] = k
      <3>1. mail.char \in Keys
        BY <1>1
      <3> QED BY <2>1, <3>1, AppendKeeps, Zenon
    <2>3. given' = Append(given, mail.char)
      BY <1>2
    <2> QED BY <2>2, <2>3, Zenon DEF Given
  <1>4. InMail(k) => Given(k)'
    BY <1>3 DEF InMail
  <1>5. (InUart(k) => InUart(k)') /\ (InRing(k) => InRing(k)')
    BY <1>2 DEF InUart, InRing, Ring, KeyAt, Unpublished
  <1> QED BY <1>3, <1>4, <1>5 DEF Somewhere

\* pump_linux_console_input puts a key into a free slot, ...
LEMMA PumpByteKeeps ==
    ASSUME TypeOK, Input, PumpByte, NEW k \in Keys, Somewhere(k)
    PROVE  Somewhere(k)'
  <1>1. /\ ps.pc = "pump_ring" /\ Unpublished = 0 /\ Unpublished' = 1
        /\ ps.tail = in.tail /\ rx # <<>> /\ rx' = Tail(rx) /\ UNCHANGED <<mail, given>>
        /\ ps'.pc = "pump_publish"
    BY DEF PumpByte, PumpRoom, PsOnly, TypeOK, Input, InOK, Unpublished
  <1>2. /\ in'.head = in.head /\ in'.tail = in.tail
        /\ in'.byte = [in.byte EXCEPT ![in.tail % InBytes] = Head(rx)]
    BY <1>1 DEF PumpByte, TypeOK
  <1>3. /\ Distance(in.tail, in.head) \in Nat /\ Distance(in.tail, ps.head) \in Nat
        /\ in.tail % InBytes \in 0 .. InBytes - 1
    BY InTypes, DistanceIs, SlotIn
  <1>4. Distance(in.tail, in.head) < InBytes
    <2>1. /\ Distance(in.tail, in.head) <= Distance(in.tail, ps.head)
          /\ Distance(in.tail, ps.head) < InBytes
      BY <1>1 DEF PumpByte, PumpRoom, Input, InOK
    <2> QED BY <1>3, <2>1, InTypes
  <1>5. in.tail \in Ring' /\ KeyAt(in.tail)' = Head(rx)
    <2>1. in.tail \in Counter /\ Distance(in.tail, in.head) < Distance(in.tail, in.head) + 1
      BY <1>3, InTypes
    <2>2. in.tail \in Ring'
      BY <1>1, <1>2, <2>1 DEF Ring
    <2> QED BY <1>2, <1>3, <2>2, InTypes DEF KeyAt
  <1>6. ASSUME NEW c \in Ring PROVE c \in Ring' /\ KeyAt(c)' = KeyAt(c)
    <2>1. /\ c \in Counter /\ Distance(c, in.head) < Distance(in.tail, in.head)
          /\ Distance(c, in.head) \in Nat
      <3>1. c \in Counter /\ Distance(c, in.head) < Distance(in.tail, in.head) + Unpublished
        BY DEF Ring
      <3>2. Distance(c, in.head) \in Nat
        BY <3>1, InTypes, DistanceIs
      <3> QED BY <1>1, <1>3, <3>1, <3>2
    <2>2. c # in.tail /\ Distance(c, in.head) < InBytes
      BY <1>3, <1>4, <2>1, InTypes
    <2>3. c % InBytes # in.tail % InBytes /\ c % InBytes \in 0 .. InBytes - 1
      BY <1>4, <2>1, <2>2, InTypes, UsedApart, SlotIn
    <2>4. Distance(c, in.head) < Distance(in.tail, in.head) + 1
      BY <1>3, <2>1
    <2>5. c \in Ring'
      BY <1>1, <1>2, <2>1, <2>4 DEF Ring
    <2> QED BY <1>2, <2>3, <2>5, InTypes DEF KeyAt
  <1>7. InUart(k) => k = Head(rx) \/ InUart(k)'
    BY <1>1, UartPops
  <1>8. k = Head(rx) => InRing(k)'
    BY <1>2, <1>5 DEF InRing, KeyAt
  <1>9. InRing(k) => InRing(k)'
    BY <1>2, <1>6 DEF InRing, KeyAt
  <1>10. (InMail(k) => InMail(k)') /\ (Given(k) => Given(k)')
    BY <1>1 DEF InMail, Given, MailFull
  <1> QED BY <1>7, <1>8, <1>9, <1>10 DEF Somewhere

\* ... or, when the ring is full, into the mailbox that it has found empty.
LEMMA PumpCharKeeps ==
    ASSUME TypeOK, Input, PumpChar, NEW k \in Keys, Somewhere(k)
    PROVE  Somewhere(k)'
  <1>1. /\ ps.pc = "pump_char" /\ ps'.pc = "pump_set" /\ ~mail.valid
        /\ rx # <<>> /\ rx' = Tail(rx) /\ UNCHANGED <<in, given>>
        /\ mail'.char = Head(rx)
    BY DEF PumpChar, PsOnly, TypeOK, Input, MailOK
  <1>2. ~InMail(k) /\ (k = Head(rx) => InMail(k)')
    BY <1>1 DEF InMail, MailFull
  <1>3. InUart(k) => k = Head(rx) \/ InUart(k)'
    BY <1>1, UartPops
  <1>4. (InRing(k) => InRing(k)') /\ (Given(k) => Given(k)')
    BY <1>1 DEF InRing, Given, Ring, KeyAt, Unpublished
  <1> QED BY <1>2, <1>3, <1>4 DEF Somewhere

LEMMA PumpPublishKeeps ==
    ASSUME TypeOK, Input, PumpPublish, NEW k \in Keys, Somewhere(k)
    PROVE  Somewhere(k)'
  <1>1. /\ ps.pc = "pump_publish" /\ ps'.pc = "pump_ring" /\ Unpublished = 1 /\ Unpublished' = 0
        /\ ps.tail = in.tail /\ UNCHANGED <<mail, given, rx>>
    BY DEF PumpPublish, PsOnly, TypeOK, Input, InOK, Unpublished
  <1>2. in'.head = in.head /\ in'.tail = Succ(in.tail) /\ in'.byte = in.byte
    BY <1>1 DEF PumpPublish, TypeOK
  <1>3. Distance(in.tail, in.head) + 1 <= InBytes /\ Distance(in.tail, in.head) \in Nat
    BY <1>1, InTypes, DistanceIs DEF Input, InOK
  <1>4. Distance(Succ(in.tail), in.head) = Distance(in.tail, in.head) + 1
    BY <1>3, InTypes, DistanceUp
  <1>5. Ring' = Ring
    BY <1>1, <1>2, <1>3, <1>4 DEF Ring
  <1> QED BY <1>1, <1>2, <1>5 DEF Somewhere, InUart, InRing, InMail, Given, KeyAt, MailFull

\* Steps that move no key.
LEMMA PlacesFrame ==
    ASSUME UNCHANGED <<in, mail, given, rx>>, Unpublished' = Unpublished, MailFull' <=> MailFull,
           NEW k, Somewhere(k)
    PROVE  Somewhere(k)'
  BY DEF Somewhere, InUart, InRing, InMail, Given, Ring, KeyAt

LEMMA PsKeeps ==
    ASSUME TypeOK, Input, PsNext, NEW k \in Keys, Somewhere(k)
    PROVE  Somewhere(k)' \/ (ps.pc = "clear" /\ (InRing(k) \/ InMail(k)))
  <1>1. CASE PumpHead \/ PumpTail \/ PumpRingDone \/ PumpValid \/ PumpNothing
    <2>1. UNCHANGED <<in, mail, given, rx>>
      BY <1>1 DEF PumpHead, PumpTail, PumpRingDone, PumpValid, PumpNothing
    <2>2. /\ ps.pc \notin {"pump_publish", "pump_set"}
          /\ ps'.pc \notin {"pump_publish", "pump_set"}
      BY <1>1 DEF PumpHead, PumpTail, PumpRingDone, PumpValid, PumpNothing, AfterPump, TypeOK
    <2>3. Unpublished' = Unpublished /\ (MailFull' <=> MailFull)
      BY <2>1, <2>2 DEF Unpublished, MailFull
    <2> QED BY <2>1, <2>3, PlacesFrame
  <1>2. CASE MirrorTotal \/ MirrorByte \/ MirrorHead \/ CheckReset \/ Reboot \/ Hold \/ Release
    <2>1. UNCHANGED <<in, mail, given, rx>>
      BY <1>2 DEF MirrorTotal, MirrorByte, MirrorHead, CheckReset, Reboot, Hold, Release
    <2>2. /\ ps.pc \notin {"pump_publish", "pump_set"}
          /\ ps'.pc \notin {"pump_publish", "pump_set"}
      <3>1. CASE CheckReset
        <4>1. PICK l \in BOOLEAN : ps' = [ps EXCEPT !.pc = "pump_head", !.loop = l]
          BY <3>1 DEF CheckReset
        <4> QED BY <3>1, <4>1 DEF CheckReset, TypeOK
      <3> QED BY <1>2, <3>1 DEF TypeOK, MirrorTotal, MirrorByte, MirrorHead, Reboot, Hold, Release
    <2>3. Unpublished' = Unpublished /\ (MailFull' <=> MailFull)
      BY <2>1, <2>2 DEF Unpublished, MailFull
    <2> QED BY <2>1, <2>3, PlacesFrame
  <1>3. CASE PumpSet
    <2>1. /\ ps.pc = "pump_set" /\ ps'.pc \in {"mirror_total", "pump_head"}
          /\ UNCHANGED <<in, given, rx>> /\ mail'.char = mail.char /\ mail'.valid
      BY <1>3 DEF PumpSet, TypeOK, AfterPump
    <2> QED BY <2>1 DEF Somewhere, InUart, InRing, InMail, Given, Ring, KeyAt, Unpublished, MailFull
  <1>4. CASE Clear
    BY <1>4 DEF Clear, Somewhere, InUart, Given
  <1> QED
    BY <1>1, <1>2, <1>3, <1>4, PumpByteKeeps, PumpPublishKeeps, PumpCharKeeps DEF PsNext

LEMMA FwKeeps ==
    ASSUME TypeOK, Input, FwNext, NEW k \in Keys, Somewhere(k)
    PROVE  Somewhere(k)'
  <1>1. CASE ~GetAdvance /\ ~GetClear
    <2>1. UNCHANGED <<in, mail, given, ps, rx>>
      BY <1>1 DEF FwNext, FwOnly, SbiPutchar, SbiGetchar, SbiSystemReset, PutTotal, PutHead, PutByte,
                  PutPublish, GetHead, GetTail, GetByte, GetValid, GetChar
    <2> QED BY <2>1, PlacesFrame DEF Unpublished, MailFull
  <1> QED BY <1>1, GetAdvanceKeeps, GetClearKeeps

\* The safety half of KeyArrives: between the UART, the ring, the mailbox and Linux no
\* step of either side drops a key or overwrites it, whatever the sizes and wherever the
\* counters wrap; a reboot gives up only what it finds in the ring and the mailbox.
THEOREM NoKeyLost == Spec => [][KeyKept]_vars
  <1>1. IInv /\ [Next]_vars => [KeyKept]_vars
    <2> SUFFICES ASSUME IInv, Next, NEW k \in Keys, Somewhere(k)
                 PROVE  Somewhere(k)' \/ (ps.pc = "clear" /\ (InRing(k) \/ InMail(k)))
      BY DEF KeyKept
    <2>1. TypeOK /\ Input
      BY DEF IInv
    <2>2. CASE Type
      <3>1. /\ rx' = Append(rx, typed + 1) /\ UNCHANGED <<in, mail, given, ps>>
            /\ typed + 1 \in Keys
        BY <2>1, <2>2, ConsoleAssumption DEF Type, TypeOK, Keys
      <3>2. InUart(k) => InUart(k)'
        BY <2>1, <3>1, InTypes, AppendKeeps DEF InUart
      <3> QED BY <3>1, <3>2 DEF Somewhere, InRing, InMail, Given, Ring, KeyAt, Unpublished, MailFull
    <2> QED BY <2>1, <2>2, FwKeeps, PsKeeps DEF Next
  <1> QED BY <1>1, Invariance, PTL DEF Spec

\* The firmware finds the ring full only while the launcher has a character to mirror or
\* a count to hand back.
RoomIsDue ==
  Distance(out.total, out.head) >= OutBytes =>
    out.total # ps.last \/ ps.pc = "mirror_head"

\* The safety half of PutReturns: console_wait_space never waits for a launcher that
\* takes the ring to be empty, after a wrap of the counters and after a reboot either.
THEOREM FullRingIsDrained == Spec => []RoomIsDue
  <1>1. IInv => RoomIsDue
    <2> SUFFICES ASSUME IInv, Distance(out.total, out.head) >= OutBytes,
                        out.total = ps.last, ps.pc # "mirror_head"
                 PROVE  FALSE
      BY DEF RoomIsDue
    <2>1. TypeOK /\ OutOK /\ out.total \in Counter /\ ps.last \in Counter
      BY DEF IInv, Output, TypeOK
    <2>2. sent - shown = 0 /\ Unreturned = 0
      BY <2>1, DistanceZero DEF OutOK, Unreturned
    <2>3. Distance(out.total, out.head) = 0
      BY <2>1, <2>2 DEF OutOK
    <2> QED BY <2>3, ConsoleAssumption
  <1> QED BY <1>1, Invariance, PTL
=============================================================================
