CONSTANTS
  Half = 4
  FrameSize = 2
  Readers = {a, b}
  Window = 3
  Chunks = {1, 3}
  RecMax = 4
  RecMin = 3
  MaxPackets = 10
  MaxPeerPackets = 5
  MaxSamples = 4
  MaxSessions = 2
SPECIFICATION Spec
SYMMETRY ReaderSymmetry
INVARIANTS InStep NoKeystreamReuse SamplesKept RecordingFinal
CONSTRAINT StillOrderly
CHECK_DEADLOCK FALSE
