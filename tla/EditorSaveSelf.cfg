SPECIFICATION EditorSpec
CONSTANTS
  Pages = {tab}
  Agents = {agent}
  Files = {deck}
  Templates = {}
  Changes = {c1, a1}
  AgentEdits = {a1}
  MaxWrites = 2
  Born <- SameAge
  AgentsWait = FALSE
  None = None
  Polls = {s1}
  MaxQueue = 1
  PromptLoads = TRUE
  OneChoice = FALSE
  LostAnswers = FALSE
  Updates = TRUE
SYMMETRY Symmetry
INVARIANTS NoConflictWithSelf
PROPERTIES OwnSaveNeverReloads
