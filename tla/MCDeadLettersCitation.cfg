SPECIFICATION Spec
CONSTANTS
  Events = {e1, e2}
  NoEvent = NoEvent
  MaxTime = 2
SYMMETRY Symmetry
INVARIANT CitedReceiptKept
