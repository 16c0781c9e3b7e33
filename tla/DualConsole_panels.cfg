SPECIFICATION FairSpec
CONSTANTS
  HdmiCols = 8
  HdmiRows = 2
  LcdCols = 4
  LcdRows = 3
  Word = 100
  Text <- SmallText
  Sequence <- SmallSequence
  MaxItems = 3
  MaxLength = 2
INVARIANTS TypeOK ParsersAgree BothPainted InsertUndone
PROPERTIES RowEditsStay TabEnds
