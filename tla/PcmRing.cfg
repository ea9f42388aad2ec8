CONSTANTS
  Rates = {1, 2}
  TICSizes = {1}
  MaxFrameSizes = {1, 2}
  NamedNICs = {{0}, {0, 1}}
  PcmDirs = {"playback"}
  BufferSizes = {2, 3}
SPECIFICATION OneAspectSpec
INVARIANT FlagsAgree
INVARIANT ClocksFollowRate
INVARIANT OnlyTriggered
INVARIANT PositionKept
INVARIANT StoppedIsSilent
PROPERTY StopIsQuiet
PROPERTY IOServed
