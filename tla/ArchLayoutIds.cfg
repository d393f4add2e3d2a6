SPECIFICATION MCSpec
CONSTANTS
  Parts = {"layout"}
  Missing = Missing
  Absent = Absent
  Unset = Unset
  Nothing = Nothing
  Writers = {server, agent}
  Contents = {c1, c2}
  Reasons = {"save", "restore"}
  Limit = 1
  MaxAttempts = 2
  MaxSeconds = 1
  MaxBegun = 3
  SlideNames <- Names
  FirstDecks <- Decks
  Html <- WrittenSlides
  Ids = {"slide-0", "slide-1", "slide-2"}
  MaxOps = 2
  MaxSlides = 3
  Topologies <- Diagrams
  Ends <- Joined
  Drops <- Dropped
  HalvesUp <- Halves
  NodeIds = {"a", "b", "c", "d"}
  MaxEdits = 3
  deck1 = deck1
  deck2 = deck2
  Sessions = {r1, r2}
  Stem <- Stems
  Safe <- FileNames
  SlideLists <- Lists
  MaxRenders = 2
  MaxChanges = 1
  Invocations <- EveryCall
  NoAnswer = NoAnswer
  command = command
  Exports = {first, other, command}
  ProcessOf <- Processes3
  Pieces = 2
  MaxFiles = 3
SYMMETRY Symmetry
VIEW View
INVARIANTS EveryEdgeIsDrawn
CHECK_DEADLOCK FALSE
