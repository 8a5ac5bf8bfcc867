CONSTANTS
  MaxText = 3
SPECIFICATION FairSpec
INVARIANTS TypeOK MessagesRouted PanicRouted ReentryNeedsReport TxBounded FlagOwned
PROPERTIES HandlerReturns PanicHalts
