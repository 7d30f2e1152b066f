SPECIFICATION Spec
CONSTANTS
  MaxPuzzles = 3
  MaxNonce = 1
  Concurrencies = {0, 1, 2}
  Timeouts = {0, 3, 9}
  Interval = 2
  MaxPoll = 1
  MaxInstant = 8
INVARIANTS
  PageTypeOK
  SolutionAccepted
  ReceiptTruthful
  WaitBounded
  ShownTruthful
PROPERTIES
  RejectionJustified
  PageRecovers
