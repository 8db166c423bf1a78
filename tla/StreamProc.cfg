CONSTANTS
  N = 4
  MaxWord = 1
  Settle = 8
  Pauses = FALSE
  Handshakes = FALSE
SPECIFICATION FairSpec
INVARIANTS TypeOK ReadsLastBatch
PROPERTY BatchCompletes
