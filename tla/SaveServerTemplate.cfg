SPECIFICATION Spec
CONSTANTS
  Pages = {p1}
  Agents = {agent}
  Files = {deck, template}
  Templates = {template}
  Changes = {c1, a1}
  AgentEdits = {a1}
  MaxWrites = 2
  Born <- SameAge
  AgentsWait = FALSE
  None = None
PROPERTIES TemplatesUntouched
