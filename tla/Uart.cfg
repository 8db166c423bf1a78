CONSTANTS
  Prescaler = 6
  StopCfg = 0
  DataBits = 2
  Words <- TwoWords
  BitTimes = {5, 6}
  Nil = Nil
  MinGap = 3
  Programs = {"listen", "both"}
SPECIFICATION Spec
INVARIANTS TypeOK SentOnce TakenOnce ListenerLosesNothing PollIsAnswered
PROPERTY ReceivesEach
