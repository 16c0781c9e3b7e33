----------------------------- MODULE DualConsole -----------------------------
(***************************************************************************)
(* The two panels of the launcher behind hdmi_console_putc, which gives    *)
(* every byte first to the HDMI console and then to the LCD console        *)
(* (hw_bringup/ps_linux_boot.c).  Both run the code of TextConsole over    *)
(* screens of their own, with parsers of their own.                        *)
(*                                                                         *)
(* The HDMI console expands a tab by calling the fan-out again, once per   *)
(* space: the LCD prints those spaces too, and then expands the tab itself.*)
(***************************************************************************)
EXTENDS Naturals, Sequences

CONSTANTS
    HdmiCols, HdmiRows, LcdCols, LcdRows,
    Word,
    Text,       \* the bytes of the stream outside escape sequences, ...
    Sequence,   \* ... and inside one
    MaxItems,   \* bound: text bytes and escape sequences in the stream
    MaxLength   \* bound: bytes of a sequence between ESC [ and its end

Bytes == Text \cup Sequence

VARIABLES
    hdmi, lcd,   \* the two consoles, records of TextConsole
    stage,       \* where hdmi_console_putc is: "ready", in the HDMI tab loop,
                 \* about to give the tab to the LCD, or in the LCD's loop
    items,       \* ghost: how many text bytes and sequences the stream held
    length       \* ghost: how far the present sequence is

vars == <<hdmi, lcd, stage, items, length>>

\* TextConsole with its theorems.
HDMI == INSTANCE TextConsole_proofs WITH Cols <- HdmiCols, Rows <- HdmiRows,
                                         con <- hdmi, tab <- (stage = "hdmi")
LCD == INSTANCE TextConsole_proofs WITH Cols <- LcdCols, Rows <- LcdRows,
                                        con <- lcd, tab <- (stage = "lcdTab")

Tab == 9
Space == 32

ASSUME DualAssumption ==
    /\ HDMI!Geometry
    /\ LCD!Geometry
    /\ MaxItems \in Nat
    /\ MaxLength \in Nat

HdmiConsoleInit == hdmi = HDMI!InitialScreen
LcdConsoleInit == lcd = LCD!InitialScreen

Init ==
    /\ HdmiConsoleInit
    /\ LcdConsoleInit
    /\ stage = "ready"
    /\ items = 0 /\ length = 0

(***************************************************************************)
(* lcd_console_putc, by what the byte is to the LCD's parser.              *)
(***************************************************************************)
LcdParse(ch) ==
    /\ LCD!Consumes(lcd, ch)
    /\ ~ LCD!Completes(lcd, ch)
    /\ lcd' = LCD!ParseStep(lcd, ch)

LcdEdit(ch) ==
    /\ LCD!Completes(lcd, ch)
    /\ ch \in LCD!EditFinals
    /\ lcd' = LCD!Complete(lcd, ch)

LcdMove(ch) ==
    /\ LCD!Completes(lcd, ch)
    /\ ch \in LCD!MoveFinals
    /\ lcd' = LCD!Complete(lcd, ch)

(* Mutant: the LCD skips the colours.                                      *)
LcdColour_ignored(ch) ==
    /\ LCD!Completes(lcd, ch)
    /\ ch \notin LCD!EditFinals \cup LCD!MoveFinals
    /\ lcd' = [lcd EXCEPT !.esc = "none"]

LcdColour(ch) ==
    /\ LCD!Completes(lcd, ch)
    /\ ch \notin LCD!EditFinals \cup LCD!MoveFinals
    /\ lcd' = LCD!Complete(lcd, ch)

LcdControl(ch) ==
    /\ ~ LCD!Consumes(lcd, ch)
    /\ ch \in LCD!ControlBytes
    /\ lcd' = LCD!Control(lcd, ch)

LcdPrint(ch) ==
    /\ ~ LCD!Consumes(lcd, ch)
    /\ ch \notin LCD!ControlBytes \cup {Tab}
    /\ lcd' = LCD!PrintByte(lcd, ch)

LcdPutc(ch) ==
    \/ LcdParse(ch) \/ LcdEdit(ch) \/ LcdMove(ch)
    \/ LcdColour(ch) \/ LcdControl(ch) \/ LcdPrint(ch)

(***************************************************************************)
(* hdmi_console_putc: the byte goes to the HDMI console and to the LCD.    *)
(***************************************************************************)
NextItem ==
    /\ stage = "ready"
    /\ items < MaxItems
    /\ items' = items + 1
    /\ length' = 0

Stream(ch) ==
    \/ hdmi.esc = "none" /\ ch \in Text /\ NextItem
    \/ /\ stage = "ready"
       /\ hdmi.esc # "none"
       /\ ch \in Sequence
       /\ length = MaxLength => HDMI!Final(ch)
       /\ length' = IF hdmi.esc = "csi" /\ ~ HDMI!Final(ch) THEN length + 1 ELSE 0
       /\ UNCHANGED items

ConsolePutc(ch) ==
    /\ Stream(ch)
    /\ ~ HDMI!StartsTab(hdmi, ch)
    /\ hdmi' = HDMI!Putc1(hdmi, ch)
    /\ LcdPutc(ch)
    /\ UNCHANGED stage

\* One turn of the HDMI tab loop: hdmi_console_putc(' ') for both panels.
HdmiTabTurn ==
    /\ hdmi' = HDMI!PrintByte(hdmi, Space)
    /\ LcdPutc(Space)
    /\ stage' = IF HDMI!TabEnded(hdmi') THEN "lcd" ELSE "hdmi"

ConsoleTab ==
    /\ Stream(Tab)
    /\ HDMI!StartsTab(hdmi, Tab)
    /\ HdmiTabTurn

HdmiTabLoop ==
    /\ stage = "hdmi"
    /\ HdmiTabTurn
    /\ UNCHANGED <<items, length>>

\* The LCD's own tab loop, after the HDMI console has returned.
LcdTab ==
    /\ stage \in {"lcd", "lcdTab"}
    /\ lcd' = LCD!PrintByte(lcd, Space)
    /\ stage' = IF LCD!TabEnded(lcd') THEN "ready" ELSE "lcdTab"
    /\ UNCHANGED <<hdmi, items, length>>

\* restart_linux_boot: hdmi_console_init initialises both consoles.
ConsoleInit ==
    /\ stage = "ready"
    /\ hdmi' = HDMI!Repaint(HDMI!ClearShadow(hdmi))
    /\ lcd' = LCD!Repaint(LCD!ClearShadow(lcd))
    /\ length' = 0
    /\ UNCHANGED <<stage, items>>

Next ==
    \/ \E ch \in Bytes : ConsolePutc(ch)
    \/ ConsoleTab \/ HdmiTabLoop \/ LcdTab \/ ConsoleInit

Spec == Init /\ [][Next]_vars

\* The loops of putc are plain C loops: they are always run on.
Fairness == WF_vars(HdmiTabLoop) /\ WF_vars(LcdTab)
FairSpec == Spec /\ Fairness

TypeOK ==
    /\ hdmi \in HDMI!Console
    /\ lcd \in LCD!Console
    /\ stage \in {"ready", "hdmi", "lcd", "lcdTab"}
    /\ items \in 0 .. MaxItems
    /\ length \in 0 .. MaxLength

\* The two panels read one stream alike: whatever the stream holds, and through
\* every tab, both parsers are in the same state, with the same numbers and the
\* same colour.  "Each has its own ANSI parser" (ps_linux_boot.c, the fan-out):
\* two copies of the state that only the bytes keep together.
ParsersAgree ==
    stage = "ready" =>
        /\ hdmi.esc = lcd.esc
        /\ hdmi.pen = lcd.pen
        /\ hdmi.esc = "csi" =>
               /\ hdmi.count = lcd.count /\ hdmi.value = lcd.value /\ hdmi.have = lcd.have
               /\ \A i \in 0 .. hdmi.count - 1 : hdmi.params[i] = lcd.params[i]

\* Both panels show what their shadow arrays hold: each function that changes
\* the shadow writes all the text words, and all the attribute words, it touched.
BothPainted == HDMI!Painted /\ LCD!Painted

\* Inserting n cells and then deleting n (CSI n @, CSI n P) gives every row back
\* but for the n cells that were pushed off the end of the cursor's row.
RowRestored(c, d, cols, n) ==
    \A i \in DOMAIN c.text :
        i \div cols # c.row \/ i % cols < cols - n =>
            d.text[i] = c.text[i] /\ d.attr[i] = c.attr[i]

InsertUndone ==
    /\ \A n \in 1 .. HdmiCols - hdmi.col :
           RowRestored(hdmi, HDMI!DeleteCells(HDMI!InsertCells(hdmi, n), n), HdmiCols, n)
    /\ \A n \in 1 .. LcdCols - lcd.col :
           RowRestored(lcd, LCD!DeleteCells(LCD!InsertCells(lcd, n), n), LcdCols, n)

\* @, K, P and X touch no row but the cursor's, whatever their number is.
KeepsRows(c, d, cols) ==
    \A i \in DOMAIN c.text :
        i \div cols # c.row => d.text[i] = c.text[i] /\ d.attr[i] = c.attr[i]

RowEditsStay ==
    [][\A ch \in {64, 75, 80, 88} :
          ConsolePutc(ch) /\ HDMI!Completes(hdmi, ch) =>
              KeepsRows(hdmi, hdmi', HdmiCols) /\ KeepsRows(lcd, lcd', LcdCols)]_vars

\* Each panel by itself is a TextConsole, so what is proved of TextConsole holds
\* of both.  Nothing is said here of how their streams are related: after a tab the
\* LCD does not show what the HDMI console shows, although docs/architecture.md:164-165
\* says that it mirrors its text at all times.
HdmiIsConsole == HDMI!Spec
LcdIsConsole == LCD!Spec
PanelsAreConsoles == HdmiIsConsole /\ LcdIsConsole

\* A tab ends: the loops of putc leave when the column is a multiple of 8, and
\* on a screen that is narrower only because a full row goes on in column 0.
TabEnds == (stage # "ready") ~> (stage = "ready")
=============================================================================
