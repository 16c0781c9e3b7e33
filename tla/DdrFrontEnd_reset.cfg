SPECIFICATION Spec
CONSTANTS
  NLines = 2
  LineWords = 2
  ISets = 1
  DSets = 1
  VramLine = 1
  FetchWords <- LiveFetches
  LoadWords <- NoWords
  StoreWords <- NoWords
  GpuReads <- NoWords
  GpuWrites <- NoWords
  HostMax = 2
  ResetAnytime = TRUE
PROPERTY FetchesAreFetched
