SPECIFICATION Spec
CONSTANTS
  Proposals = {p1}
  MaxVersion = 2
  QueueSize = 9
  Settings <- OneCalm
PROPERTIES ResultsRenew
