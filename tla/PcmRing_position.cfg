CONSTANTS
  Rates = {1, 4}
  TICSizes = {1}
  MaxFrameSizes = {4}
  NamedNICs = {{0, 1}}
  PcmDirs = {"playback"}
  BufferSizes = {2}
SPECIFICATION PcmSpec
INVARIANT PositionInBuffer
