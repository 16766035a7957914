SPECIFICATION Components
CONSTANTS
  g1 = g1
  g2 = g2
  g3 = g3
  Threads = {g1, g2, g3}
  MaxSequence = 1
  MaxClock = 3
  Callers = {g1, g2, g3}
  MaxConns = 2
  AcquireTimeout = 1
  MaxWait = 1
  Requests = {g1, g2, g3}
  MaxInFlight = 2
  Statuses = {"ok", "created"}
  None = None
  SegmentsMin = 1
  MaxInt = 20
  MaxLength = 3
  LastYear = 1
  MaxYear = 2
  MaxPosition = 4
  NoEnvelope = NoEnvelope
  MaxIds = 4
  Operator = 9
  MaxPointer = 6
  PointerChars = {"/", "~", "0", "1", "a"}
  Glyphs = {"/", "~", "0", "1", "2", "3", "4", "5", "6", "7", "8", "9", "a"}
  MaxDuration = 63
  BackoffMaxShift = 5
  PollMaxShift = 3
  MaxCount = 9
SYMMETRY Goroutines
INVARIANTS
  CreationOrder
  TransactionsSound
  RequestsSound
  EventsCarried
  NamesAgree
  RemovesTheNamed
  DelaysSaturate
CHECK_DEADLOCK FALSE
