SPECIFICATION Spec
CONSTANTS
  Depth = 1
  WaitTimeout = 100
  Ops = {"fill"}
  Shapes <- OneShape
  Fbs = {1}
  Strides = {1}
  Kinds = {"submit", "reset"}
  Preemptable = {}
  MaxCommands = 2
  Varied = {}
INVARIANT AnswersMatch
