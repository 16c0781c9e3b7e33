SPECIFICATION FairSpec
CONSTANTS
  NLines = 3
  LineWords = 2
  ISets = 1
  DSets = 1
  VramLine = 2
  FetchWords <- LiveFetches
  LoadWords <- LiveLoads
  StoreWords <- LiveStores
  GpuReads <- LiveTexels
  GpuWrites <- LivePixels
  HostMax = 1
  ResetAnytime = FALSE
INVARIANTS TypeOK Coherent Attributed GpuAnswersMatch
PROPERTIES ReadsSeeDdr StoresReachDdr CoreServed HostServed GpuServed
