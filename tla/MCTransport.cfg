SPECIFICATION TransportSpec
CONSTANTS
  Writer      = {w1, w2}
  Length      = {1, 2}
  HeaderCells = 2
  TagCells    = 1
  WriterLimit = 2
  ReaderLimit = 1
  Deadline    = 2
  Buffer      = 4
  MaxFrames   = 2
INVARIANTS
  TransportTypeOK
  OneWriterNeverTears
  BoundedRead
PROPERTIES
  FramesAreWhole
CHECK_DEADLOCK FALSE
