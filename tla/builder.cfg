SPECIFICATION MxSpec
CONSTANTS
  e1 = e1
  e2 = e2
  scenarioA = scenarioA
  scenarioB = scenarioB
  Ecosystems = {e1, e2}
  Messages <- MCMessages
  Section = Section
  Leaf = Leaf
  None = None
  MaxRebuilds = 2
CHECK_DEADLOCK FALSE
INVARIANTS MxTypeOK 
PROPERTY EditsSurvive
