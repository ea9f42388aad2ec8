CONSTANTS
  NICs = {0}
  MAX_SOURCE_STREAMS = 1
  Streams <- OneStream
  CreateFailures = FALSE
SPECIFICATION Spec
INVARIANT SentInitialized
