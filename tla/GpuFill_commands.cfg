SPECIFICATION LiveSpec
CONSTANTS
  Depth = 2
  WaitTimeout = 1
  Ops = {"none", "clear", "fill", "blit", "key", "scale", "alpha"}
  Shapes <- TwoShapes
  Fbs = {0, 1}
  Strides = {0, 1}
  Kinds = {"start", "submit", "shape", "fb", "stride", "w1c", "reset"}
  Preemptable = {"submit"}
  MaxCommands = 4
  Varied = {1}
INVARIANTS DoneIsFinal StaleAnswers
PROPERTIES CommandsInOrder FullIsReported CommandEnds
