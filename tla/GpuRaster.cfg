SPECIFICATION Spec
CONSTANTS
  Coord = 8
  FbAddr = 100
  FbStride = 36
  SrcAddr = 1000
  SrcStride = 60
  Commands <- Small
INVARIANTS RectPixels SourcePixels LinePixels
PROPERTY Finishes
