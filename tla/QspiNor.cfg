CONSTANTS
  p0 = p0
  p1 = p1
  Div = 2
  CmdBits = 2
  AddrBits = 2
  DummyBits = 2
  ByteBits = 2
  WordBytes = 2
  PageWords = 3
  Pages = {p0, p1}
  SectorOf <- OneSector
  Buffers <- OneBuffer
  Nil = Nil
  MinGap = 3
  ProgramWords = 1
  FastWords = 2
  OddBytes = 3
  MaxPolls = 30
  Delay = 100
SPECIFICATION NorSpec
INVARIANTS BenchTypeOK BitsInOrder DoneIsOwn NothingLost StallEnds NoWarning
  TestServed
PROPERTY ImplementsFlash
