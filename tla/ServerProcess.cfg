SPECIFICATION MCSpec
CONSTANTS
  Procs = {p1, p2}
  Files = {deck, doc}
  Lifetime = 2
  MaxTime = 3
  None = None
  Ports = {1, 2}
  OneAtATime = TRUE
  Conns = {c1, c2}
  WaitSeconds = 2
  TotalSeconds = 3
  Chunks = 2
  HttpRequests <- EveryRequest
  NoReply = NoReply
SYMMETRY Symmetry
VIEW View
INVARIANTS ProcessTypeOK RecordNamesServer FlagAgrees StopIsClean IdleIsShut ReceivingIsBounded ForeignChangesNothing ErrorsChangeNothing
CHECK_DEADLOCK FALSE
