CONSTANTS
  r0 = r0
  r1 = r1
  Div = 3
  Preamble = 3
  OpBits = 2
  DataBits = 2
  PhyRegs = {r0, r1}
  Nil = Nil
  MinGap = 3
  Delay = 70
  Programs = {"firmware"}
SPECIFICATION FairSpec
INVARIANT AnswersRequest
