SPECIFICATION Spec
CONSTANTS
  Pages = {p1, p2}
  Agents = {agent}
  Files = {deck, doc}
  Templates = {doc}
  Changes = {c1, a1}
  AgentEdits = {a1}
  MaxWrites = 2
  Born <- SameAge
  AgentsWait = TRUE
  None = None
SYMMETRY Symmetry
INVARIANTS TypeOK LockOwner CheckStillHolds AnswerNamesItsVersion
PROPERTIES SavesAreAtomic
