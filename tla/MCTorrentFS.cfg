SPECIFICATION Spec
CONSTANTS
  r1 = r1
  r2 = r2
  Ticker = Ticker
  Readers <- mcReaders
  PieceLength = 2
  NumPieces = 3
  FileOffset = 3
  FileSize = 3
  Chunk = 3
  Ahead = 4
  Starts <- mcStarts
  BufferPieces <- mcBuffer
  MaxTicks = 2
  MaxTogether = 3
INVARIANTS NoHoles WindowsFit WaitedForIsAsked
SYMMETRY mcSymmetry
CHECK_DEADLOCK FALSE
