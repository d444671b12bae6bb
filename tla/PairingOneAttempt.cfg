SPECIFICATION FairSpec
CONSTANTS
  A = A
  B = B
  c1 = c1
  c2 = c2
  Conn = {c1}
  None = None
  MaxForgets = 1
  Signalling = FALSE
  WriteFails = TRUE
  LinkFails = TRUE
CHECK_DEADLOCK FALSE
INVARIANTS BothHumansAccepted OneResultPerAttempt DialerNeverPairedAlone
PROPERTY EveryPromptIsAnswered
