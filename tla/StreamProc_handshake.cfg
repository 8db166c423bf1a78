CONSTANTS
  N = 4
  MaxWord = 1
  Settle = 8
  Pauses = FALSE
  Handshakes = TRUE
SPECIFICATION FairSpec
INVARIANT ReadsLastBatch
