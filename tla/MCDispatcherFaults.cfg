SPECIFICATION Spec
CONSTANTS
  e1 = e1
  e2 = e2
  w1 = w1
  w2 = w2
  p1 = p1
  p2 = p2
  l1 = l1
  l2 = l2
  l3 = l3
  h1 = h1
  h2 = h2
  Rows = {1}
  Events = {e1}
  EventOf <- OneEvent
  Priority <- OneLane
  Publishable = {1}
  Workers = {w1, w2}
  PriorityWorkers = {}
  SlowWorkers = {}
  Processes = {p1, p2}
  ProcessOf <- TwoProcesses
  Leases = {l1, l2, l3}
  NoLease = NoLease
  Handlers = {h1, h2}
  NoEvent = NoEvent
  BatchSize = 2
  LeaseDuration = 1
  MaxAttempts = 2
  BackoffBase = 2
  BackoffMax = 2
  MaxDuration = 127
  BackoffMaxShift = 4
  PollMaxShift = 2
  MaxFailures = 2
  MaxFaults = 2
  MaxSlow = 1
SYMMETRY Symmetry
INVARIANTS
  ClosedIsAccounted
  EffectOnce
  AttemptsNotOvercounted
  NoStrandedLease
  IInv
PROPERTIES
  ClosedStaysClosed
