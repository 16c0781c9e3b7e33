SPECIFICATION FairProbeSpec
CONSTANT Polls = 2
INVARIANTS PassIsEarned FailIsDeserved WaitsForItself
PROPERTY ProbeEnds
