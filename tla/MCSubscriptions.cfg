SPECIFICATION FairSpec
CONSTANTS
  Txs = {t1, t2, t3}
  Consumers = {c1}
  Types = {x}
  NoConsumer = NoConsumer
  NoType = NoType
  MaxCalls = 2
CHECK_DEADLOCK FALSE
INVARIANTS
  NoGap
  SubscriptionInv
PROPERTIES
  ImplementsLedger
  LockIsGranted
