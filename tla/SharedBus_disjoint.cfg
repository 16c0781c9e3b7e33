SPECIFICATION FairSpec
CONSTANTS
  HostAddrs <- LauncherAddrs
  CoreAddrs <- LinuxAddrs
INVARIANTS ReadsOwn WritesTaken AnswersPs
PROPERTY NobodyStarves
