SPECIFICATION Spec
CONSTANTS
  o1 = o1  m1 = m1  l1 = l1
  Owners <- OneOwner
  Modules <- OneModule
  Callers <- OwnerAndModule
  Lists <- OneList
  MaxEdits = 2
  MaxFaults = 1
  MaxTokens = 1
  MaxChanges = 1
INVARIANTS ModulesApplyTheirRevision
PROPERTIES FormsSeeWhatTheyReplace ModulesConverge RestartArrives
CONSTRAINT NoClash
CHECK_DEADLOCK FALSE
