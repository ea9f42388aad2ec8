CONSTANTS
  NICs = {0}
  MAX_SOURCE_STREAMS = 2
  Streams <- TwoStreams
  CreateFailures = TRUE
SPECIFICATION Spec
INVARIANT TypeOK
INVARIANT ListedActive
INVARIANT FreeIsDestroyed
INVARIANT SlotsSuffice
PROPERTY ReadStreamStable
