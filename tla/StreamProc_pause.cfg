CONSTANTS
  N = 4
  MaxWord = 1
  Settle = 8
  Pauses = TRUE
  Handshakes = FALSE
SPECIFICATION FairSpec
INVARIANT ReadsLastBatch
