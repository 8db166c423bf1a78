CONSTANTS
  Space = 1073741824
  InstrMem = 67108864
  DataMem = 134217728
  IoBase = 536870912
  MemWords = 8192
  ram = ram
  rom = rom
  gpio = gpio
  fifo = fifo
  none = none
  JointSlaves = {ram}
  SplitSlaves = {gpio}
  FifoSlaves = {fifo}
  NoSlave = none
  Lanes = {1}
  Bytes = {0, 1}
  Nil = Nil
  Depth = 2
  Filler <- MCFiller
  WriteTargets = {ram, gpio, fifo}
SPECIFICATION FairSpec
INVARIANTS TypeOK ResponseMatchesAccess PopIsAccepted IInv
PROPERTY ImplementsFairMemPort
