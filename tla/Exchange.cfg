SPECIFICATION Spec
CONSTANTS
  Senders <- TestSenders
  MaxSends = 3
  OtherCounts = {1, 60}
  MaxOthers = 1
  MaxBatches = 2
INVARIANTS
  AnswerDecodes
  SignedBytesAgree
  MessageTakenWhole
  ResponsesFit
CHECK_DEADLOCK FALSE
