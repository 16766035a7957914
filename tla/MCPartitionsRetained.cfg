SPECIFICATION Spec
CONSTANTS
  e1 = e1
  e2 = e2
  Events = {e1, e2}
  Retention = 1
  MaxTxDays = 1
  MaxDay = 4
SYMMETRY EventSymmetry
INVARIANTS
  InStep
  AttachNotRefused
  OnlyPublishedDropped
