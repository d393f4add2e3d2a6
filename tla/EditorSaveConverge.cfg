SPECIFICATION FairEditorSpec
CONSTANTS
  Pages = {tab}
  Agents = {agent}
  Files = {deck}
  Templates = {}
  Changes = {c1, a1}
  AgentEdits = {a1}
  MaxWrites = 8
  Born <- SameAge
  AgentsWait = TRUE
  None = None
  Polls = {s1}
  MaxQueue = 1
  PromptLoads = TRUE
  OneChoice = TRUE
  LostAnswers = FALSE
  Updates = FALSE
PROPERTIES PageConverges
