SPECIFICATION MCSpec
CONSTANTS
  s1 = s1
  s2 = s2
  Suggestions = {s1}
  Long = {}
  PendingMax = 1
  ReviewMax = 2
  None = None
  Clients = {page, tab1, tab2, agent}
  Broken = Broken
  Reviews <- SmallReviews
  Verdicts <- SmallVerdicts
  MaxId = 3
  OpenRevisions = {0, 4, 5}
  Handlers = {page}
  Tabs = {tab1, tab2}
  Slots = {1, 2}
INVARIANTS RecordTypeOK PendingBounded AppliedOnce
PROPERTIES RecordIsAtomic NumbersOnlyGrow ShownNeverOlder PanelConverges
CHECK_DEADLOCK FALSE
