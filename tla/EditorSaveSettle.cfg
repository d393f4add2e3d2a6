SPECIFICATION FairEditorSpec
CONSTANTS
  Pages = {tab}
  Agents = {agent}
  Files = {deck}
  Templates = {}
  Changes = {c1, a1}
  AgentEdits = {a1}
  MaxWrites = 8
  Born <- SameAge
  AgentsWait = FALSE
  None = None
  Polls = {}
  MaxQueue = 1
  PromptLoads = TRUE
  OneChoice = TRUE
  LostAnswers = TRUE
  Updates = FALSE
PROPERTIES EditsSettle NamedVersionsAreKept
