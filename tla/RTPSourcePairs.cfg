CONSTANTS
  NICs = {0, 1}
  MAX_SOURCE_STREAMS = 2
  Streams <- OneStream
  CreateFailures = FALSE
SPECIFICATION OneRemovalSpec
INVARIANT PairsAttached
PROPERTY RemovedIsDestroyed
