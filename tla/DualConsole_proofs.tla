-------------------------- MODULE DualConsole_proofs --------------------------
(***************************************************************************)
(* The two panels for screens of any two sizes and any stream of bytes:    *)
(* each is a TextConsole of its own, both show their shadow arrays, and    *)
(* their parsers never part.                                               *)
(***************************************************************************)
EXTENDS DualConsole, TLAPS

Stages == {"ready", "hdmi", "lcd", "lcdTab"}

\* The inductive invariant.  The stages of a tab are reached only outside an
\* escape sequence: the LCD, which sees the tab last, would take it for a byte of
\* the sequence otherwise.
Inv ==
    /\ HDMI!Good(hdmi)
    /\ LCD!Good(lcd)
    /\ HDMI!SameParser(hdmi, lcd)
    /\ stage \in Stages
    /\ stage # "ready" => hdmi.esc = "none"

(***************************************************************************)
(* The two copies of the parser.                                           *)
(***************************************************************************)
LEMMA GeometryHolds == HDMI!Geometry /\ LCD!Geometry
  BY DualAssumption

LEMMA BytesAreNat == \A ch \in Bytes : ch \in Nat
  <1>1. HDMI!Geometry
    BY GeometryHolds
  <1> QED
    BY <1>1 DEF HDMI!Geometry

\* One SGR parameter gives both the same colour.
LEMMA SameSgr ==
    ASSUME NEW c, NEW d, HDMI!SameParser(c, d), NEW pen, NEW i
    PROVE  HDMI!SgrAfter(c, pen, i) = LCD!SgrAfter(d, pen, i)
  BY DEF HDMI!SameParser, HDMI!SgrAfter, LCD!SgrAfter, HDMI!SgrStep, LCD!SgrStep,
         HDMI!SgrColor, LCD!SgrColor, HDMI!Bright, LCD!Bright, HDMI!Plain, LCD!Plain

LEMMA SameColour ==
    ASSUME NEW c, NEW d, HDMI!Good(c), LCD!Good(d), HDMI!SameParser(c, d), NEW ch
    PROVE  HDMI!PenAfter(c, ch) = LCD!PenAfter(d, ch)
  <1> DEFINE h0 == HDMI!SgrAfter(c, c.pen, 0)
             h1 == HDMI!SgrAfter(c, h0, 1)
             h2 == HDMI!SgrAfter(c, h1, 2)
             h3 == HDMI!SgrAfter(c, h2, 3)
             l0 == LCD!SgrAfter(d, d.pen, 0)
             l1 == LCD!SgrAfter(d, l0, 1)
             l2 == LCD!SgrAfter(d, l1, 2)
             l3 == LCD!SgrAfter(d, l2, 3)
  <1>1. d.pen = c.pen /\ d.count = c.count /\ d.params = c.params
    BY DEF HDMI!SameParser
  <1>2. h0 = l0
    BY <1>1, SameSgr
  <1> HIDE DEF h0, l0
  <1>3. h1 = l1
    BY <1>2, SameSgr
  <1> HIDE DEF h1, l1
  <1>4. h2 = l2
    BY <1>3, SameSgr
  <1> HIDE DEF h2, l2
  <1>5. h3 = l3
    BY <1>4, SameSgr
  <1>6. HDMI!ApplySgr(c).pen = IF c.count = 0 THEN 7 ELSE h3
    BY DEF HDMI!ApplySgr, HDMI!Plain, HDMI!Good, HDMI!Console, h0, h1, h2
  <1>7. LCD!ApplySgr(d).pen = IF d.count = 0 THEN 7 ELSE l3
    BY DEF LCD!ApplySgr, LCD!Plain, LCD!Good, LCD!Console, l0, l1, l2
  <1> HIDE DEF h3, l3
  <1>8. HDMI!ApplySgr(c).pen = LCD!ApplySgr(d).pen
    BY <1>1, <1>5, <1>6, <1>7
  <1> QED
    BY <1>1, <1>8 DEF HDMI!PenAfter, LCD!PenAfter, HDMI!Plain, LCD!Plain,
                      HDMI!ColourFinal, LCD!ColourFinal

LEMMA SamePush ==
    ASSUME NEW c, NEW d, HDMI!Good(c), LCD!Good(d), HDMI!SameParser(c, d)
    PROVE  HDMI!SameParser(HDMI!CsiPushParam(c), LCD!CsiPushParam(d))
  BY DEF HDMI!CsiPushParam, LCD!CsiPushParam, HDMI!MaxParams, LCD!MaxParams,
         HDMI!SameParser, HDMI!Good, LCD!Good, HDMI!Console, LCD!Console

LEMMA SameComplete ==
    ASSUME NEW c, NEW d, HDMI!Good(c), LCD!Good(d), HDMI!SameParser(c, d), NEW ch
    PROVE  HDMI!SameParser(HDMI!Complete(c, ch), LCD!Complete(d, ch))
  <1> DEFINE b == HDMI!BeforeFinal(c)
             e == LCD!BeforeFinal(d)
  <1>1. HDMI!Good(b)
    BY GeometryHolds, HDMI!PushGood DEF HDMI!BeforeFinal
  <1>2. LCD!Good(e)
    BY GeometryHolds, LCD!PushGood DEF LCD!BeforeFinal
  <1>3. HDMI!SameParser(b, e)
    <2>1. d.have = c.have /\ d.count = c.count
      BY DEF HDMI!SameParser
    <2> QED
      BY <2>1, SamePush DEF HDMI!BeforeFinal, LCD!BeforeFinal
  <1>4. HDMI!Recolours(b, HDMI!Complete(c, ch), HDMI!PenAfter(b, ch)) /\ HDMI!Complete(c, ch).esc = "none"
    BY GeometryHolds, HDMI!CompleteGood
  <1>5. LCD!Recolours(e, LCD!Complete(d, ch), LCD!PenAfter(e, ch)) /\ LCD!Complete(d, ch).esc = "none"
    BY GeometryHolds, LCD!CompleteGood
  <1> HIDE DEF b, e
  <1>6. HDMI!PenAfter(b, ch) = LCD!PenAfter(e, ch)
    BY <1>1, <1>2, <1>3, SameColour
  <1> QED
    BY <1>3, <1>4, <1>5, <1>6 DEF HDMI!SameParser, HDMI!Recolours, LCD!Recolours

LEMMA SameParse ==
    ASSUME NEW c, NEW d, HDMI!Good(c), LCD!Good(d), HDMI!SameParser(c, d), NEW ch
    PROVE  HDMI!SameParser(HDMI!ParseStep(c, ch), LCD!ParseStep(d, ch))
  <1>1. HDMI!SameParser(HDMI!CsiPushParam(c), LCD!CsiPushParam(d))
    BY SamePush
  <1>2. HDMI!SameParser([HDMI!CsiReset(c) EXCEPT !.esc = "csi"], [LCD!CsiReset(d) EXCEPT !.esc = "csi"])
    BY DEF HDMI!SameParser, HDMI!CsiReset, LCD!CsiReset, HDMI!MaxParams, LCD!MaxParams,
           HDMI!Good, LCD!Good, HDMI!Console, LCD!Console
  <1>3. ASSUME NEW e PROVE HDMI!SameParser([c EXCEPT !.esc = e], [d EXCEPT !.esc = e])
    BY DEF HDMI!SameParser, HDMI!Good, LCD!Good, HDMI!Console, LCD!Console
  <1>4. ASSUME NEW v PROVE HDMI!SameParser([c EXCEPT !.value = v, !.have = TRUE],
                                           [d EXCEPT !.value = v, !.have = TRUE])
    BY DEF HDMI!SameParser, HDMI!Good, LCD!Good, HDMI!Console, LCD!Console
  <1>5. d.esc = c.esc /\ d.value = c.value /\ c.esc \in {"none", "esc", "csi"}
    BY DEF HDMI!SameParser, HDMI!Good, HDMI!Console
  <1> DEFINE v == (c.value * 10 + (ch - 48)) % Word
  <1>6. \/ \E e \in {"none", "esc"} : /\ HDMI!ParseStep(c, ch) = [c EXCEPT !.esc = e]
                                      /\ LCD!ParseStep(d, ch) = [d EXCEPT !.esc = e]
        \/ /\ HDMI!ParseStep(c, ch) = [HDMI!CsiReset(c) EXCEPT !.esc = "csi"]
           /\ LCD!ParseStep(d, ch) = [LCD!CsiReset(d) EXCEPT !.esc = "csi"]
        \/ HDMI!ParseStep(c, ch) = c /\ LCD!ParseStep(d, ch) = d
        \/ /\ HDMI!ParseStep(c, ch) = [c EXCEPT !.value = v, !.have = TRUE]
           /\ LCD!ParseStep(d, ch) = [d EXCEPT !.value = v, !.have = TRUE]
        \/ HDMI!ParseStep(c, ch) = HDMI!CsiPushParam(c) /\ LCD!ParseStep(d, ch) = LCD!CsiPushParam(d)
    BY <1>5 DEF HDMI!ParseStep, LCD!ParseStep, HDMI!Escape, LCD!Escape, HDMI!Digit, LCD!Digit,
                HDMI!Good, LCD!Good, HDMI!Console, LCD!Console
  <1> HIDE DEF v
  <1> QED
    BY <1>1, <1>2, <1>3, <1>4, <1>6

\* Redrawing one panel each leaves the parsers alike.
LEMMA SameRedraw ==
    ASSUME NEW c, NEW d, NEW e, NEW f, HDMI!SameParser(c, d), HDMI!Redraws(c, e), LCD!Redraws(d, f)
    PROVE  HDMI!SameParser(e, f)
  BY DEF HDMI!SameParser, LCD!SameParser, HDMI!Redraws, LCD!Redraws

LEMMA SamePrint ==
    ASSUME NEW c, NEW d, HDMI!Good(c), LCD!Good(d), HDMI!SameParser(c, d), NEW ch
    PROVE  HDMI!SameParser(HDMI!PrintByte(c, ch), LCD!PrintByte(d, ch))
  <1>1. HDMI!Redraws(c, HDMI!PrintByte(c, ch)) /\ LCD!Redraws(d, LCD!PrintByte(d, ch))
    BY GeometryHolds, HDMI!PrintGood, LCD!PrintGood
  <1> QED
    BY <1>1, SameRedraw

LEMMA SamePutc1 ==
    ASSUME NEW c, NEW d, HDMI!Good(c), LCD!Good(d), HDMI!SameParser(c, d), NEW ch \in Nat
    PROVE  HDMI!SameParser(HDMI!Putc1(c, ch), LCD!Putc1(d, ch))
  <1>1. /\ LCD!Completes(d, ch) <=> HDMI!Completes(c, ch)
        /\ LCD!Consumes(d, ch) <=> HDMI!Consumes(c, ch)
        /\ HDMI!Completes(c, ch) => HDMI!Consumes(c, ch)
        /\ LCD!ControlBytes = HDMI!ControlBytes
    BY DEF HDMI!SameParser, HDMI!Completes, LCD!Completes, HDMI!Consumes, LCD!Consumes,
           HDMI!Final, LCD!Final, HDMI!Escape, LCD!Escape, HDMI!ControlBytes, LCD!ControlBytes
  <1>2. CASE HDMI!Completes(c, ch)
    <2>1. HDMI!Putc1(c, ch) = HDMI!Complete(c, ch) /\ LCD!Putc1(d, ch) = LCD!Complete(d, ch)
      BY <1>1, <1>2 DEF HDMI!Putc1, LCD!Putc1
    <2> QED
      BY <2>1, SameComplete
  <1>3. CASE HDMI!Consumes(c, ch) /\ ~ HDMI!Completes(c, ch)
    <2>1. HDMI!Putc1(c, ch) = HDMI!ParseStep(c, ch) /\ LCD!Putc1(d, ch) = LCD!ParseStep(d, ch)
      BY <1>1, <1>3 DEF HDMI!Putc1, LCD!Putc1
    <2> QED
      BY <2>1, SameParse
  <1>4. CASE ~ HDMI!Consumes(c, ch) /\ ch \in HDMI!ControlBytes
    <2>1. HDMI!Putc1(c, ch) = HDMI!Control(c, ch) /\ LCD!Putc1(d, ch) = LCD!Control(d, ch)
      BY <1>1, <1>4 DEF HDMI!Putc1, LCD!Putc1
    <2>2. HDMI!Redraws(c, HDMI!Control(c, ch)) /\ LCD!Redraws(d, LCD!Control(d, ch))
      BY <1>1, <1>4, GeometryHolds, HDMI!ControlGood, LCD!ControlGood
    <2>3. HDMI!SameParser(HDMI!Control(c, ch), LCD!Control(d, ch))
      BY <2>2, SameRedraw
    <2> QED
      BY <2>1, <2>3
  <1>5. CASE ~ HDMI!Consumes(c, ch) /\ ch \notin HDMI!ControlBytes
    <2>1. HDMI!Putc1(c, ch) = HDMI!PrintByte(c, ch) /\ LCD!Putc1(d, ch) = LCD!PrintByte(d, ch)
      BY <1>1, <1>5 DEF HDMI!Putc1, LCD!Putc1
    <2> QED
      BY <2>1, SamePrint
  <1> QED
    BY <1>2, <1>3, <1>4, <1>5

(***************************************************************************)
(* The steps.                                                              *)
(***************************************************************************)
\* lcd_console_putc is putc1 of the LCD for a byte that starts no tab there.
LEMMA LcdPutcIsPutc1 ==
    ASSUME NEW ch, LcdPutc(ch)
    PROVE  lcd' = LCD!Putc1(lcd, ch) /\ ~ LCD!StartsTab(lcd, ch)
  <1>1. LCD!Completes(lcd, ch) => LCD!Consumes(lcd, ch)
    BY DEF LCD!Completes, LCD!Consumes
  <1>2. LCD!Tab = 9 /\ LCD!ControlBytes = {8, 10, 13, 127} /\ Tab = 9
    BY DEF LCD!Tab, LCD!ControlBytes, Tab
  <1>3. CASE LCD!Completes(lcd, ch)
    <2>1. lcd' = LCD!Complete(lcd, ch)
      BY <1>1, <1>3 DEF LcdPutc, LcdParse, LcdEdit, LcdMove, LcdColour, LcdControl, LcdPrint
    <2> QED
      BY <1>1, <1>3, <2>1 DEF LCD!Putc1, LCD!StartsTab
  <1>4. CASE LCD!Consumes(lcd, ch) /\ ~ LCD!Completes(lcd, ch)
    <2>1. lcd' = LCD!ParseStep(lcd, ch)
      BY <1>4 DEF LcdPutc, LcdParse, LcdEdit, LcdMove, LcdColour, LcdControl, LcdPrint
    <2> QED
      BY <1>4, <2>1 DEF LCD!Putc1, LCD!StartsTab
  <1>5. CASE ~ LCD!Consumes(lcd, ch)
    <2>1. \/ ch \in LCD!ControlBytes /\ lcd' = LCD!Control(lcd, ch)
          \/ ch \notin LCD!ControlBytes \cup {Tab} /\ lcd' = LCD!PrintByte(lcd, ch)
      BY <1>1, <1>5 DEF LcdPutc, LcdParse, LcdEdit, LcdMove, LcdColour, LcdControl, LcdPrint
    <2>2. ch # LCD!Tab
      BY <1>2, <2>1
    <2>3. lcd' = LCD!Putc1(lcd, ch)
      BY <1>1, <1>5, <2>1 DEF LCD!Putc1
    <2> QED
      BY <2>2, <2>3 DEF LCD!StartsTab
  <1> QED
    BY <1>3, <1>4, <1>5

\* A space that the LCD prints in the HDMI tab loop: no escape sequence is open.
LEMMA SpacePrinted ==
    ASSUME NEW d, d.esc = "none"
    PROVE  LCD!Putc1(d, Space) = LCD!PrintByte(d, Space)
  BY DEF LCD!Putc1, LCD!Completes, LCD!Consumes, LCD!Escape, LCD!ControlBytes, Space

LEMMA TurnKeeps ==
    ASSUME Inv, HdmiTabTurn, hdmi.esc = "none"
    PROVE  Inv'
  <1>1. HDMI!Good(hdmi) /\ LCD!Good(lcd) /\ HDMI!SameParser(hdmi, lcd)
    BY DEF Inv
  <1>2. lcd.esc = "none"
    BY <1>1 DEF HDMI!SameParser
  <1>3. lcd' = LCD!PrintByte(lcd, Space) /\ hdmi' = HDMI!PrintByte(hdmi, Space)
    BY <1>2, LcdPutcIsPutc1, SpacePrinted DEF HdmiTabTurn
  <1>4. HDMI!Redraws(hdmi, hdmi') /\ LCD!Redraws(lcd, lcd')
    BY <1>1, <1>3, GeometryHolds, HDMI!PrintGood, LCD!PrintGood
  <1>5. HDMI!Good(hdmi') /\ LCD!Good(lcd') /\ hdmi'.esc = "none"
    BY <1>4 DEF HDMI!Redraws, LCD!Redraws, HDMI!SameParser
  <1>6. HDMI!SameParser(hdmi', lcd')
    BY <1>1, <1>4, SameRedraw
  <1>7. stage' \in Stages
    BY DEF HdmiTabTurn, Stages
  <1> QED
    BY <1>5, <1>6, <1>7 DEF Inv

LEMMA PutcKeeps ==
    ASSUME Inv, NEW ch \in Bytes, ConsolePutc(ch)
    PROVE  Inv'
  <1>1. HDMI!Good(hdmi) /\ LCD!Good(lcd) /\ HDMI!SameParser(hdmi, lcd)
    BY DEF Inv
  <1>2. ch \in Nat /\ stage = "ready" /\ stage' = "ready"
    BY BytesAreNat DEF ConsolePutc, Stream, NextItem
  <1>3. hdmi' = HDMI!Putc1(hdmi, ch) /\ lcd' = LCD!Putc1(lcd, ch)
    BY LcdPutcIsPutc1 DEF ConsolePutc
  <1>4. HDMI!Good(hdmi') /\ LCD!Good(lcd')
    BY <1>1, <1>2, <1>3, GeometryHolds, HDMI!Putc1Good, LCD!Putc1Good
  <1>5. HDMI!SameParser(hdmi', lcd')
    BY <1>1, <1>2, <1>3, SamePutc1
  <1> QED
    BY <1>2, <1>4, <1>5 DEF Inv, Stages

LEMMA LcdTabKeeps ==
    ASSUME Inv, LcdTab
    PROVE  Inv'
  <1>1. HDMI!Good(hdmi) /\ LCD!Good(lcd) /\ HDMI!SameParser(hdmi, lcd) /\ hdmi.esc = "none"
    BY DEF Inv, LcdTab
  <1>2. lcd' = LCD!PrintByte(lcd, Space) /\ hdmi' = hdmi /\ stage' \in Stages
    BY DEF LcdTab, Stages
  <1>3. LCD!Redraws(lcd, lcd')
    BY <1>1, <1>2, GeometryHolds, LCD!PrintGood
  <1>4. LCD!Good(lcd') /\ HDMI!SameParser(hdmi', lcd')
    BY <1>1, <1>2, <1>3 DEF LCD!Redraws, LCD!SameParser, HDMI!SameParser
  <1> QED
    BY <1>1, <1>2, <1>4 DEF Inv

LEMMA InitKeeps ==
    ASSUME Inv, ConsoleInit
    PROVE  Inv'
  <1>1. HDMI!Good(hdmi) /\ LCD!Good(lcd) /\ HDMI!SameParser(hdmi, lcd)
    BY DEF Inv
  <1> DEFINE h == HDMI!ClearShadow(hdmi)
             l == LCD!ClearShadow(lcd)
  <1>2. HDMI!Recolours(hdmi, HDMI!Repaint(h), 7) /\ LCD!Recolours(lcd, LCD!Repaint(l), 7)
    BY <1>1, GeometryHolds, HDMI!ClearScreenGood, LCD!ClearScreenGood DEF HDMI!Plain, LCD!Plain
  <1>3. HDMI!Repaint(h).esc = "none" /\ LCD!Repaint(l).esc = "none"
    BY <1>1 DEF HDMI!Good, LCD!Good, HDMI!Console, LCD!Console, HDMI!Repaint, LCD!Repaint,
                HDMI!WriteWords, LCD!WriteWords, HDMI!ClearShadow, LCD!ClearShadow
  <1>4. hdmi' = HDMI!Repaint(h) /\ lcd' = LCD!Repaint(l) /\ stage' = "ready"
    BY DEF ConsoleInit
  <1> HIDE DEF h, l
  <1>5. HDMI!Good(hdmi') /\ LCD!Good(lcd') /\ HDMI!SameParser(hdmi', lcd')
    BY <1>1, <1>2, <1>3, <1>4 DEF HDMI!Recolours, LCD!Recolours, HDMI!SameParser
  <1> QED
    BY <1>4, <1>5 DEF Inv, Stages

LEMMA InitInv == Init => Inv
  <1> SUFFICES ASSUME Init PROVE Inv
    OBVIOUS
  <1>1. hdmi = HDMI!InitialScreen /\ lcd = LCD!InitialScreen /\ stage = "ready"
    BY DEF Init, HdmiConsoleInit, LcdConsoleInit
  <1>2. HDMI!Good(hdmi) /\ LCD!Good(lcd)
    BY <1>1, GeometryHolds, HDMI!InitialGood, LCD!InitialGood
  <1>3. HDMI!SameParser(hdmi, lcd)
    BY <1>1 DEF HDMI!SameParser, HDMI!InitialScreen, LCD!InitialScreen, HDMI!Plain, LCD!Plain,
                HDMI!MaxParams, LCD!MaxParams
  <1> QED
    BY <1>1, <1>2, <1>3 DEF Inv, Stages

LEMMA NextInv == Inv /\ [Next]_vars => Inv'
  <1> SUFFICES ASSUME Inv, [Next]_vars PROVE Inv'
    OBVIOUS
  <1>1. ASSUME NEW ch \in Bytes, ConsolePutc(ch) PROVE Inv'
    BY <1>1, PutcKeeps
  <1>2. CASE ConsoleTab
    <2>1. hdmi.esc = "none"
      BY <1>2 DEF ConsoleTab, HDMI!StartsTab, HDMI!Consumes
    <2> QED
      BY <1>2, <2>1, TurnKeeps DEF ConsoleTab
  <1>3. CASE HdmiTabLoop
    <2>1. hdmi.esc = "none"
      BY <1>3 DEF HdmiTabLoop, Inv
    <2> QED
      BY <1>3, <2>1, TurnKeeps DEF HdmiTabLoop
  <1>4. CASE LcdTab
    BY <1>4, LcdTabKeeps
  <1>5. CASE ConsoleInit
    BY <1>5, InitKeeps
  <1>6. CASE UNCHANGED vars
    BY <1>6 DEF vars, Inv
  <1> QED
    BY <1>1, <1>2, <1>3, <1>4, <1>5, <1>6 DEF Next

LEMMA InvHolds == Spec => []Inv
  BY InitInv, NextInv, PTL DEF Spec

(***************************************************************************)
(* The theorems.                                                           *)
(***************************************************************************)
\* hdmi_console_putc: for screens of any two sizes and every stream of bytes, each
\* panel shows what its shadow arrays hold.
THEOREM PanelsPainted == Spec => []BothPainted
  <1>1. Inv => BothPainted
    BY DEF Inv, BothPainted, HDMI!Good, LCD!Good, HDMI!Painted, LCD!Painted
  <1> QED
    BY <1>1, InvHolds, PTL

\* hdmi_console_consume_ansi and lcd_console_consume_ansi: however different the
\* two screens are, the two parsers go through the stream in step.
THEOREM ParsersInStep == Spec => []ParsersAgree
  <1>1. Inv => ParsersAgree
    BY DEF Inv, ParsersAgree, HDMI!SameParser
  <1> QED
    BY <1>1, InvHolds, PTL

LEMMA CountsKeep ==
    ASSUME items \in 0 .. MaxItems, length \in 0 .. MaxLength, [Next]_vars
    PROVE  items' \in 0 .. MaxItems /\ length' \in 0 .. MaxLength
  <1>1. MaxItems \in Nat /\ MaxLength \in Nat
    BY DualAssumption
  <1>2. ASSUME NEW ch, Stream(ch) PROVE items' \in 0 .. MaxItems /\ length' \in 0 .. MaxLength
    BY <1>1, <1>2 DEF Stream, NextItem
  <1>3. CASE HdmiTabLoop \/ LcdTab
    BY <1>3 DEF HdmiTabLoop, LcdTab
  <1>4. CASE ConsoleInit
    BY <1>1, <1>4 DEF ConsoleInit
  <1>5. CASE UNCHANGED vars
    BY <1>5 DEF vars
  <1> QED
    BY <1>2, <1>3, <1>4, <1>5 DEF Next, ConsolePutc, ConsoleTab

\* A tab goes on only towards its stop: of the eight columns between two stops the
\* loop that runs has one less to fill after each turn.
TowardsStop ==
    /\ HdmiTabLoop => \/ stage' = "lcd"
                      \/ stage' = "hdmi" /\ hdmi'.col % 8 = (hdmi.col % 8) + 1
    /\ LcdTab => \/ stage' = "ready"
                 \/ stage' = "lcdTab" /\ lcd'.col % 8 = (lcd.col % 8) + 1

\* The safety half of TabEnds: on screens of any two sizes, also when a row ends before
\* the stop and when the LCD scrolls in the middle of the HDMI's tab, neither loop prints
\* more than eight spaces.
THEOREM TabsMoveOn == Spec => [][TowardsStop]_vars
  <1>1. ASSUME Inv, HdmiTabLoop
        PROVE  stage' = "lcd" \/ (stage' = "hdmi" /\ hdmi'.col % 8 = (hdmi.col % 8) + 1)
    <2>1. HDMI!Geometry /\ HDMI!Good(hdmi)
      BY <1>1, GeometryHolds DEF Inv
    <2>2. /\ hdmi' = HDMI!PrintByte(hdmi, Space)
          /\ stage' = IF HDMI!TabEnded(hdmi') THEN "lcd" ELSE "hdmi"
      BY <1>1 DEF HdmiTabLoop, HdmiTabTurn
    <2> QED
      BY <2>1, <2>2, HDMI!TabTurn
  <1>2. ASSUME Inv, LcdTab
        PROVE  stage' = "ready" \/ (stage' = "lcdTab" /\ lcd'.col % 8 = (lcd.col % 8) + 1)
    <2>1. LCD!Geometry /\ LCD!Good(lcd)
      BY <1>2, GeometryHolds DEF Inv
    <2>2. /\ lcd' = LCD!PrintByte(lcd, Space)
          /\ stage' = IF LCD!TabEnded(lcd') THEN "ready" ELSE "lcdTab"
      BY <1>2 DEF LcdTab
    <2> QED
      BY <2>1, <2>2, LCD!TabTurn
  <1>3. Inv /\ [Next]_vars => [TowardsStop]_vars
    BY <1>1, <1>2 DEF TowardsStop
  <1> QED
    BY <1>3, InvHolds, PTL DEF Spec

\* Both consoles keep their types: no cursor leaves its screen, whatever numbers
\* the escape sequences hold.
THEOREM TypeCorrect == Spec => []TypeOK
  <1> DEFINE Counts == items \in 0 .. MaxItems /\ length \in 0 .. MaxLength
  <1>1. Init => Counts
    BY DualAssumption DEF Init
  <1>2. Counts /\ [Next]_vars => Counts'
    BY CountsKeep
  <1>3. Inv /\ Counts => TypeOK
    BY DEF Inv, TypeOK, HDMI!Good, LCD!Good, Stages
  <1> HIDE DEF Counts
  <1> QED
    BY <1>1, <1>2, <1>3, InvHolds, PTL DEF Spec

(***************************************************************************)
(* Each panel is a console of its own.                                     *)
(***************************************************************************)
LEMMA HdmiStep ==
    ASSUME Inv, [Next]_vars
    PROVE  [HDMI!Next]_(HDMI!vars)
  <1>1. ASSUME NEW ch \in Bytes, ConsolePutc(ch) PROVE HDMI!Putc(ch)
    BY <1>1 DEF ConsolePutc, Stream, NextItem, HDMI!Putc
  <1>2. ASSUME HdmiTabTurn PROVE HDMI!PutSpace
    BY <1>2 DEF HdmiTabTurn, HDMI!PutSpace, HDMI!Space, Space
  <1>3. CASE ConsoleTab
    <2>1. ~ (stage = "hdmi") /\ HDMI!StartsTab(hdmi, HDMI!Tab)
      BY <1>3 DEF ConsoleTab, Stream, NextItem, HDMI!Tab, Tab
    <2> QED
      BY <1>2, <1>3, <2>1 DEF ConsoleTab, HDMI!StartTab, HDMI!Next
  <1>4. CASE HdmiTabLoop
    BY <1>2, <1>4 DEF HdmiTabLoop, HDMI!NextTab, HDMI!Next
  <1>5. CASE LcdTab
    BY <1>5 DEF LcdTab, HDMI!vars
  <1>6. CASE ConsoleInit
    BY <1>6 DEF ConsoleInit, HDMI!Restart, HDMI!Next
  <1>7. CASE UNCHANGED vars
    BY <1>7 DEF vars, HDMI!vars
  <1> QED
    BY <1>1, <1>3, <1>4, <1>5, <1>6, <1>7 DEF Next, HDMI!Next

LEMMA LcdStep ==
    ASSUME Inv, [Next]_vars
    PROVE  [LCD!Next]_(LCD!vars)
  <1>1. ASSUME NEW ch \in Bytes, LcdPutc(ch), ~ (stage = "lcdTab"), ~ (stage' = "lcdTab")
        PROVE  LCD!Putc(ch)
    BY <1>1, LcdPutcIsPutc1 DEF LCD!Putc
  <1>2. Space \in Bytes
    BY GeometryHolds DEF LCD!Geometry, Space
  <1>3. ASSUME NEW ch \in Bytes, ConsolePutc(ch) PROVE LCD!Putc(ch)
    BY <1>1, <1>3 DEF ConsolePutc, Stream, NextItem
  <1>4. CASE ConsoleTab \/ HdmiTabLoop
    <2>1. LcdPutc(Space) /\ ~ (stage = "lcdTab") /\ ~ (stage' = "lcdTab")
      BY <1>4 DEF ConsoleTab, HdmiTabLoop, HdmiTabTurn, Stream, NextItem
    <2>2. LCD!Putc(Space)
      BY <1>1, <1>2, <2>1
    <2> QED
      BY <1>2, <2>2 DEF LCD!Next
  <1>5. CASE LcdTab
    <2>1. lcd.esc = "none" /\ stage \in {"lcd", "lcdTab"}
      BY <1>5 DEF LcdTab, Inv, HDMI!SameParser
    <2>2. LCD!StartsTab(lcd, LCD!Tab)
      BY <2>1 DEF LCD!StartsTab, LCD!Consumes, LCD!Escape, LCD!Tab
    <2>3. LCD!PutSpace
      BY <1>5 DEF LcdTab, LCD!PutSpace, LCD!Space, Space
    <2> QED
      BY <2>1, <2>2, <2>3 DEF LCD!StartTab, LCD!NextTab, LCD!Next
  <1>6. CASE ConsoleInit
    BY <1>6 DEF ConsoleInit, LCD!Restart, LCD!Next
  <1>7. CASE UNCHANGED vars
    BY <1>7 DEF vars, LCD!vars
  <1> QED
    BY <1>3, <1>4, <1>5, <1>6, <1>7 DEF Next, LCD!Next

\* The HDMI half of the fan-out implements TextConsole.
THEOREM HdmiRefines == Spec => HdmiIsConsole
  <1>1. Init => HDMI!Init
    BY DEF Init, HdmiConsoleInit, HDMI!Init
  <1>2. Inv /\ [Next]_vars => [HDMI!Next]_(HDMI!vars)
    BY HdmiStep
  <1> QED
    BY <1>1, <1>2, InvHolds, PTL DEF Spec, HdmiIsConsole, HDMI!Spec

\* The LCD half implements TextConsole, although it prints the spaces of the HDMI
\* panel's tab before its own: no tab reaches it inside an escape sequence.
THEOREM LcdRefines == Spec => LcdIsConsole
  <1>1. Init => LCD!Init
    BY DEF Init, LcdConsoleInit, LCD!Init
  <1>2. Inv /\ [Next]_vars => [LCD!Next]_(LCD!vars)
    BY LcdStep
  <1> QED
    BY <1>1, <1>2, InvHolds, PTL DEF Spec, LcdIsConsole, LCD!Spec

(* Both refinements together: what is proved of TextConsole holds of the   *)
(* HDMI panel and of the LCD, whatever the stream of bytes.  How the two   *)
(* streams are related is left open.                                       *)
THEOREM PanelsRefine == Spec => PanelsAreConsoles
  BY HdmiRefines, LcdRefines DEF PanelsAreConsoles

\* CSI n @ and CSI n P undo each other on both panels.
THEOREM InsertsUndone == Spec => []InsertUndone
  <1>1. Inv => InsertUndone
    <2> SUFFICES ASSUME Inv PROVE InsertUndone
      OBVIOUS
    <2>1. ASSUME NEW n \in 1 .. HdmiCols - hdmi.col
          PROVE  RowRestored(hdmi, HDMI!DeleteCells(HDMI!InsertCells(hdmi, n), n), HdmiCols, n)
      <3>1. HDMI!Good(hdmi) /\ DOMAIN hdmi.text = HDMI!Cell
        BY DEF Inv, HDMI!Good, HDMI!Console
      <3> QED
        BY <3>1, GeometryHolds, HDMI!DeleteUndoesInsert DEF RowRestored
    <2>2. ASSUME NEW n \in 1 .. LcdCols - lcd.col
          PROVE  RowRestored(lcd, LCD!DeleteCells(LCD!InsertCells(lcd, n), n), LcdCols, n)
      <3>1. LCD!Good(lcd) /\ DOMAIN lcd.text = LCD!Cell
        BY DEF Inv, LCD!Good, LCD!Console
      <3> QED
        BY <3>1, GeometryHolds, LCD!DeleteUndoesInsert DEF RowRestored
    <2> QED
      BY <2>1, <2>2 DEF InsertUndone
  <1> QED
    BY <1>1, InvHolds, PTL

\* @, K, P and X touch the cursor's row only, on both panels, for every number,
\* the ones whose sum with the column wraps among them.
THEOREM RowEditsLocal == Spec => RowEditsStay
  <1>1. ASSUME Inv, NEW ch \in {64, 75, 80, 88}, ConsolePutc(ch), HDMI!Completes(hdmi, ch)
        PROVE  KeepsRows(hdmi, hdmi', HdmiCols) /\ KeepsRows(lcd, lcd', LcdCols)
    <2>1. HDMI!Good(hdmi) /\ DOMAIN hdmi.text = HDMI!Cell /\ LCD!Good(lcd) /\ DOMAIN lcd.text = LCD!Cell
          /\ HDMI!SameParser(hdmi, lcd)
      BY <1>1 DEF Inv, HDMI!Good, HDMI!Console, LCD!Good, LCD!Console
    <2>2. LCD!Completes(lcd, ch)
      BY <1>1, <2>1 DEF HDMI!SameParser, HDMI!Completes, LCD!Completes, HDMI!Final, LCD!Final
    <2>3. hdmi' = HDMI!Putc1(hdmi, ch) /\ lcd' = LCD!Putc1(lcd, ch)
      BY <1>1, LcdPutcIsPutc1 DEF ConsolePutc
    <2>4. hdmi' = HDMI!Complete(hdmi, ch) /\ lcd' = LCD!Complete(lcd, ch)
      <3>1. HDMI!Consumes(hdmi, ch) /\ LCD!Consumes(lcd, ch)
        BY <1>1, <2>2 DEF HDMI!Completes, LCD!Completes, HDMI!Consumes, LCD!Consumes
      <3> QED
        BY <1>1, <2>2, <2>3, <3>1 DEF HDMI!Putc1, LCD!Putc1
    <2>5. ch \in HDMI!RowFinals /\ ch \in LCD!RowFinals
      BY <1>1 DEF HDMI!RowFinals, LCD!RowFinals
    <2>6. KeepsRows(hdmi, hdmi', HdmiCols)
      BY <2>1, <2>4, <2>5, GeometryHolds, HDMI!RowEditStays DEF KeepsRows
    <2>7. KeepsRows(lcd, lcd', LcdCols)
      BY <2>1, <2>4, <2>5, GeometryHolds, LCD!RowEditStays DEF KeepsRows
    <2> QED
      BY <2>6, <2>7
  <1> DEFINE Stays == \A ch \in {64, 75, 80, 88} :
                          ConsolePutc(ch) /\ HDMI!Completes(hdmi, ch) =>
                              KeepsRows(hdmi, hdmi', HdmiCols) /\ KeepsRows(lcd, lcd', LcdCols)
  <1>2. Inv /\ [Next]_vars => [Stays]_vars
    BY <1>1
  <1> QED
    BY <1>2, InvHolds, PTL DEF Spec, RowEditsStay
=============================================================================
