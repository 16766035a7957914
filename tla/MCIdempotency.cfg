SPECIFICATION FairSpec
CONSTANTS
  a1 = a1
  a2 = a2
  a3 = a3
  k1 = k1
  Attempts = {a1, a2, a3}
  Keys = {k1}
  KeyOf <- OneKey
  DigestOf <- Digests
  Members = {"token"}
  Nobody = Nobody
  Retention = 2
  MaxTime = 3
INVARIANTS
  ExecutedOnce
  KeyInv
PROPERTIES
  ImplementsLedger
  EveryAttemptAnswered
CHECK_DEADLOCK FALSE
