SPECIFICATION Spec
CONSTANTS
  HostAddrs <- PublisherAddrs
  CoreAddrs <- ReaderAddrs
INVARIANT CoreReadsOwn
