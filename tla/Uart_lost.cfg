CONSTANTS
  Prescaler = 6
  StopCfg = 0
  DataBits = 2
  Words <- TwoWords
  BitTimes = {6}
  Nil = Nil
  MinGap = 3
  Programs = {"talk"}
SPECIFICATION Spec
INVARIANT ReceptionKept
