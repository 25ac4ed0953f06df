SPECIFICATION Spec
CONSTANTS
  RxChoices <- MCRx
  TxChoices <- MCTx
INVARIANTS
  ChannelsKept
PROPERTIES
  BlocksReachTheirLeg
CHECK_DEADLOCK FALSE
